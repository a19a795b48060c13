---------------------------- MODULE HallPassesProofs ----------------------------
(***************************************************************************)
(* The safety properties of HallPasses and its refinement of               *)
(* HallPassService, proved for every number of requests, passes and guest  *)
(* names per request and for every ticket limit.                           *)
(***************************************************************************)
EXTENDS HallPasses, FiniteSetTheorems, TLAPS

-----------------------------------------------------------------------------
(* The inductive invariant                                                    *)

\* What a request may rely on: the settings lock keeps the limit and the count it read,
\* the fence lock keeps the freeze away, and what it answered or sent has happened.
RequestOK(r) ==
  /\ HoldsSettings(r) => request[r].kind = "create"
  /\ request[r].kind = "create" /\ request[r].phase \in {"checked", "locked", "counted"}
       => request[r].size # 0
  /\ request[r].phase = "locked" => request[r].limit = limit
  /\ request[r].phase = "counted" /\ limit # Unlimited
       => Cardinality(Counted) + request[r].size <= limit
  /\ request[r].phase = "inserted" =>
       /\ request[r].ids # {} /\ request[r].ids \cap Issued = {}
       /\ Cardinality(request[r].ids) <= MaxBatch
       /\ limit # Unlimited => Cardinality(Counted) + Cardinality(request[r].ids) <= limit
  /\ HoldsFence(r) => ~frozen
  /\ request[r].kind = "redeem" => \E p \in Ids : request[r].ids \subseteq {p}
  /\ request[r].result = "valid" =>
       /\ request[r].kind = "redeem" /\ request[r].phase \in {"log", "done"}
       /\ \A p \in request[r].ids : pass[p].used
  /\ request[r].sent \subseteq mailed

\* One request at a time holds the settings, and no pass was accepted for two.
Exclusive(r, s) ==
  /\ ~(HoldsSettings(r) /\ HoldsSettings(s))
  /\ request[r].result = "valid" /\ request[s].result = "valid"
       => request[r].ids \cap request[s].ids = {}

PassesOK == \A p \in Ids : /\ pass[p].used => pass[p].issued
                           /\ pass[p].email = "sent" => p \in mailed

Inv ==
  /\ TypeOK
  /\ PassesOK
  /\ \A r \in Requests : RequestOK(r)
  /\ \A r, s \in Requests : r # s => Exclusive(r, s)

-----------------------------------------------------------------------------
(* Lemmas                                                                     *)

LEMMA Numbers ==
  /\ MaxPasses \in Nat /\ MaxBatch \in Nat /\ MaxLimit \in Nat
  /\ IsFiniteSet(Ids)
  /\ \A S \in SUBSET Ids : IsFiniteSet(S) /\ Cardinality(S) \in Nat
<1>1. MaxPasses \in Nat /\ MaxBatch \in Nat /\ MaxLimit \in Nat
  BY BoundsAssumption
<1>2. IsFiniteSet(Ids)
  BY <1>1, FS_Interval DEF Ids
<1> QED
  BY <1>1, <1>2, FS_Subset, FS_CardinalityType

\* Fewer passes count when some are invalidated.
LEMMA FewerCount ==
  ASSUME NEW S \in SUBSET Ids, NEW T \in SUBSET S
  PROVE  Cardinality(T) \in Nat /\ Cardinality(S) \in Nat /\ Cardinality(T) <= Cardinality(S)
  BY Numbers, FS_Subset, FS_CardinalityType

\* The rows a request does not work on keep what it relied on.
Undisturbed(s) ==
  /\ request'[s] = request[s]
  /\ HoldsSettings(s) => limit' = limit /\ Issued' = Issued /\ Counted' \subseteq Counted
  /\ HoldsFence(s) => ~frozen'

LEMMA StillOK ==
  ASSUME Inv, TypeOK', NEW s \in Requests, Undisturbed(s), mailed \subseteq mailed',
         \A p \in Ids : pass[p].used => pass'[p].used
  PROVE  RequestOK(s)'
<1> USE DEF Undisturbed
<1>1. RequestOK(s) /\ request[s].ids \subseteq Ids /\ request[s].size \in Nat
  BY Numbers DEF Inv, TypeOK, Request
<1>2. HoldsSettings(s) => /\ Cardinality(Counted') <= Cardinality(Counted)
                          /\ Cardinality(Counted') \in Nat /\ Cardinality(Counted) \in Nat
  <2>1. Counted \in SUBSET Ids
    BY DEF Counted, Issued
  <2> QED
    BY <2>1, FewerCount
<1>3. Cardinality(request[s].ids) \in Nat /\ limit \in Int
  BY <1>1, Numbers DEF Inv, TypeOK, Limits, Unlimited
<1>4. HoldsSettings(s)' = HoldsSettings(s) /\ HoldsFence(s)' = HoldsFence(s)
  BY DEF HoldsSettings, HoldsFence
<1>5. /\ request[s].phase = "counted" => HoldsSettings(s)
      /\ request[s].phase = "inserted" => HoldsSettings(s)
      /\ request[s].phase = "locked" => HoldsSettings(s)
  BY DEF HoldsSettings
<1>6. request'[s].phase = "counted" /\ limit' # Unlimited
        => Cardinality(Counted') + request'[s].size <= limit'
  BY <1>1, <1>2, <1>3, <1>5 DEF RequestOK
<1>7. request'[s].phase = "inserted" =>
        /\ request'[s].ids # {} /\ request'[s].ids \cap Issued' = {}
        /\ Cardinality(request'[s].ids) <= MaxBatch
        /\ limit' # Unlimited => Cardinality(Counted') + Cardinality(request'[s].ids) <= limit'
  BY <1>1, <1>2, <1>3, <1>5 DEF RequestOK
<1>8. request'[s].result = "valid" => \A p \in request'[s].ids : pass'[p].used
  BY <1>1 DEF RequestOK
<1> QED
  BY <1>1, <1>4, <1>5, <1>6, <1>7, <1>8 DEF RequestOK

\* A step of one request: what it must establish.
LEMMA OneStep ==
  ASSUME Inv, TypeOK', PassesOK', NEW r \in Requests, RequestOK(r)',
         mailed \subseteq mailed', \A p \in Ids : pass[p].used => pass'[p].used,
         \A s \in Requests \ {r} : Undisturbed(s),
         HoldsSettings(r)' => HoldsSettings(r) \/ \A s \in Requests : ~HoldsSettings(s),
         request'[r].result = "valid" =>
           \/ request[r].result = "valid" /\ request'[r].ids = request[r].ids
           \/ \A p \in request'[r].ids : ~pass[p].used
  PROVE  Inv'
<1>1. \A s \in Requests : RequestOK(s)'
  BY StillOK
<1>2. ASSUME NEW s \in Requests, s # r
      PROVE  Exclusive(r, s)' /\ Exclusive(s, r)'
  <2>1. request'[s] = request[s] /\ HoldsSettings(s)' = HoldsSettings(s)
    BY <1>2 DEF Undisturbed, HoldsSettings
  <2>2. ~(HoldsSettings(r)' /\ HoldsSettings(s)')
    BY <1>2, <2>1 DEF Inv, Exclusive
  <2>3. request'[r].result = "valid" /\ request'[s].result = "valid"
          => request'[r].ids \cap request'[s].ids = {}
    <3>1. request[s].result = "valid" => \A p \in request[s].ids : pass[p].used
      BY DEF Inv, RequestOK
    <3> QED
      BY <1>2, <2>1, <3>1 DEF Inv, Exclusive
  <2> QED
    BY <2>2, <2>3 DEF Exclusive
<1>3. ASSUME NEW s \in Requests, NEW t \in Requests, s # r, t # r, s # t
      PROVE  Exclusive(s, t)'
  <2>1. request'[s] = request[s] /\ request'[t] = request[t]
    BY <1>3 DEF Undisturbed
  <2>2. Exclusive(s, t)
    BY <1>3 DEF Inv
  <2> QED
    BY <2>1, <2>2 DEF Exclusive, HoldsSettings
<1> QED
  BY <1>1, <1>2, <1>3 DEF Inv

\* A step that leaves all rows but the request's own.
LEMMA RequestOnly ==
  ASSUME Inv, NEW r \in Requests, UNCHANGED <<pass, limit, frozen, mailed>>,
         scans' \subseteq Requests, request' \in [Requests -> Request],
         \A s \in Requests \ {r} : request'[s] = request[s], RequestOK(r)',
         HoldsSettings(r)' => HoldsSettings(r) \/ \A s \in Requests : ~HoldsSettings(s),
         request'[r].result = "valid" => request[r].result = "valid" /\ request'[r].ids = request[r].ids
  PROVE  Inv'
<1>1. TypeOK' /\ PassesOK'
  BY DEF Inv, TypeOK, PassesOK
<1>2. ASSUME NEW s \in Requests \ {r} PROVE Undisturbed(s)
  BY <1>2 DEF Undisturbed, Inv, RequestOK, Issued, Counted
<1> QED
  BY <1>1, <1>2, OneStep

-----------------------------------------------------------------------------
(* The steps                                                                  *)


LEMMA InitInv == Init => Inv
<1> SUFFICES ASSUME Init PROVE Inv
  OBVIOUS
<1>1. pass \in [Ids -> Pass] /\ PassesOK
  <2>1. PICK n \in 0..MaxPasses : pass = [p \in Ids |-> [NoPass EXCEPT !.issued = p <= n]]
    BY DEF Init
  <2>2. ASSUME NEW p \in Ids
        PROVE  pass[p] = [issued |-> p <= n, used |-> FALSE, invalidated |-> FALSE,
                          email |-> "not_sent"]
    BY <2>1 DEF NoPass
  <2>3. ASSUME NEW p \in Ids
        PROVE  pass[p] \in Pass /\ ~pass[p].used /\ pass[p].email # "sent"
    <3>1. CASE p <= n
      <4>1. p \in Nat /\ n \in Nat
        BY Numbers DEF Ids
      <4>2. (p <= n) = TRUE
        BY <3>1, <4>1
      <4>3. pass[p] = [issued |-> TRUE, used |-> FALSE, invalidated |-> FALSE, email |-> "not_sent"]
        BY <2>2, <4>2
      <4> QED
        BY <4>3 DEF Pass
    <3>2. CASE ~(p <= n)
      <4>1. p \in Nat /\ n \in Nat
        BY Numbers DEF Ids
      <4>2. (p <= n) = FALSE
        BY <3>2, <4>1
      <4>3. pass[p] = [issued |-> FALSE, used |-> FALSE, invalidated |-> FALSE, email |-> "not_sent"]
        BY <2>2, <4>2
      <4> QED
        BY <4>3 DEF Pass
    <3> QED
      BY <3>1, <3>2
  <2> QED
    BY <2>1, <2>3 DEF PassesOK
<1>2. Started \in Request
  BY Numbers DEF Started, Fresh, Request, Limits, Unlimited
<1>3. TypeOK
  BY <1>1, <1>2 DEF Init, TypeOK
<1>4. \A r \in Requests : request[r] = Started
  BY DEF Init
<1>5. ~(\E r \in Requests : HoldsSettings(r) \/ HoldsFence(r))
  BY <1>4 DEF Started, Fresh, HoldsSettings, HoldsFence
<1>6. ASSUME NEW r \in Requests PROVE RequestOK(r)
  BY <1>4, <1>5 DEF Started, Fresh, RequestOK
<1>7. ASSUME NEW r \in Requests, NEW s \in Requests PROVE Exclusive(r, s)
  BY <1>4, <1>5 DEF Started, Fresh, Exclusive
<1> QED
  BY <1>1, <1>3, <1>6, <1>7 DEF Inv

\* Whatever ends a request without an answer of "valid".
LEMMA EndsRow ==
  ASSUME Inv, NEW r \in Requests, NEW result \in {"none", "used", "invalid", "refused", "error"},
         Ends(r, result)
  PROVE  /\ request' \in [Requests -> Request]
         /\ \A s \in Requests \ {r} : request'[s] = request[s]
         /\ RequestOK(r)' /\ ~HoldsSettings(r)' /\ request'[r].result # "valid"
<1>0. request \in [Requests -> Request] /\ request[r].kind \in Kinds \cup {"none"}
  BY DEF Inv, TypeOK, Request
<1>1. /\ Done(r, result).phase = "done" /\ Done(r, result).result = result
      /\ Done(r, result).ids = {} /\ Done(r, result).sent = {}
      /\ Done(r, result).kind = request[r].kind
  BY DEF Done
<1>2. Done(r, result) \in Request
  BY <1>0, Numbers DEF Done, Request, Limits, Unlimited
<1>3. /\ request' \in [Requests -> Request] /\ request'[r] = Done(r, result)
      /\ \A s \in Requests \ {r} : request'[s] = request[s]
  BY <1>0, <1>2 DEF Ends
<1>4. ~HoldsSettings(r)' /\ ~HoldsFence(r)'
  BY <1>1, <1>3 DEF HoldsSettings, HoldsFence
<1>5. request'[r].kind = "redeem" => \E p \in Ids : request'[r].ids \subseteq {p}
  <2>1. request[r].kind = "redeem" => Ids # {}
    BY DEF Inv, RequestOK
  <2> QED
    BY <1>1, <1>3, <2>1
<1>6. RequestOK(r)'
  BY <1>1, <1>3, <1>4, <1>5, Numbers DEF RequestOK
<1> QED
  BY <1>1, <1>3, <1>4, <1>6

LEMMA EndsInv ==
  ASSUME Inv, NEW r \in Requests, NEW result \in {"none", "used", "invalid", "refused", "error"},
         Ends(r, result), UNCHANGED <<pass, limit, frozen, mailed>>, scans' \subseteq Requests
  PROVE  Inv'
  BY EndsRow, RequestOnly

LEMMA FailsInv ==
  ASSUME Inv, NEW r \in Requests, Ends(r, "error"), UNCHANGED <<pass, limit, frozen, scans, mailed>>
  PROVE  Inv'
  BY EndsInv DEF Inv, TypeOK

LEMMA Row == ASSUME Inv, NEW r \in Requests PROVE request[r] \in Request
  BY DEF Inv, TypeOK

\* A step that only moves one request replaces its row.
LEMMA RowChanges ==
  ASSUME request \in [Requests -> Request], NEW r \in Requests, NEW row \in Request,
         request' = [request EXCEPT ![r] = row]
  PROVE  /\ request' \in [Requests -> Request]
         /\ \A s \in Requests \ {r} : request'[s] = request[s]
         /\ request'[r] = row
  BY SMTT(30)

LEMMA LockSettingsInv ==
  ASSUME Inv, NEW r \in Requests, LockSettings(r)
  PROVE  Inv'
<1>1. /\ request' \in [Requests -> Request]
      /\ \A s \in Requests \ {r} : request'[s] = request[s]
      /\ request'[r].phase = "locked" /\ request'[r].limit = limit
      /\ request'[r].kind = request[r].kind /\ request'[r].size = request[r].size
      /\ request'[r].ids = request[r].ids /\ request'[r].sent = request[r].sent
      /\ request'[r].result = request[r].result
  <2> DEFINE new == [request[r] EXCEPT !.phase = "locked", !.limit = limit]
  <2>1. request \in [Requests -> Request] /\ limit \in Limits
    BY DEF Inv, TypeOK
  <2>2. request' = [request EXCEPT ![r] = new]
    BY <2>1 DEF LockSettings
  <2>3. new \in Request
    BY ZenonT(60), <2>1, Row DEF Request
  <2>4. /\ new.phase = "locked" /\ new.limit = limit /\ new.kind = request[r].kind
        /\ new.size = request[r].size /\ new.ids = request[r].ids
        /\ new.sent = request[r].sent /\ new.result = request[r].result
    BY <2>1, Row DEF Request
  <2> HIDE DEF new
  <2> QED
    BY <2>1, <2>2, <2>3, <2>4, RowChanges
<1>2. RequestOK(r)'
  BY <1>1, Row DEF RequestOK, Inv, LockSettings, In, HoldsSettings, HoldsFence
<1>3. \A s \in Requests : ~HoldsSettings(s)
  BY DEF LockSettings, SettingsFree
<1> QED
  BY <1>1, <1>2, <1>3, RequestOnly DEF LockSettings, Inv, TypeOK, RequestOK

\* The limit and the count it compares are those in force, for the lock is its own.
LEMMA CountIssuedInv ==
  ASSUME Inv, NEW r \in Requests, CountIssued(r)
  PROVE  Inv'
<1>1. CASE Ends(r, "refused")
  BY <1>1, EndsInv DEF CountIssued, Inv, TypeOK
<1>2. CASE /\ ~(request[r].limit # Unlimited /\ Cardinality(Counted) + request[r].size > request[r].limit)
           /\ request' = [request EXCEPT ![r].phase = "counted", ![r].limit = 0]
  <2>0. 0 \in Limits
    BY Numbers DEF Limits, Unlimited
  <2>1. /\ request' \in [Requests -> Request]
        /\ \A s \in Requests \ {r} : request'[s] = request[s]
        /\ request'[r].phase = "counted"
        /\ request'[r].kind = request[r].kind /\ request'[r].size = request[r].size
        /\ request'[r].ids = request[r].ids /\ request'[r].sent = request[r].sent
        /\ request'[r].result = request[r].result
    <3> DEFINE new == [request[r] EXCEPT !.phase = "counted", !.limit = 0]
    <3>1. request \in [Requests -> Request]
      BY DEF Inv, TypeOK
    <3>2. request' = [request EXCEPT ![r] = new]
      BY <1>2, <3>1
    <3>3. new \in Request
      BY ZenonT(60), <2>0, Row DEF Request
    <3>4. /\ new.phase = "counted" /\ new.kind = request[r].kind
          /\ new.size = request[r].size /\ new.ids = request[r].ids
          /\ new.sent = request[r].sent /\ new.result = request[r].result
      BY <2>0, Row DEF Request
    <3> HIDE DEF new
    <3> QED
      BY <3>1, <3>2, <3>3, <3>4, RowChanges
  <2>2. request[r].limit = limit /\ limit \in Int /\ request[r].size \in Nat
    BY Row, Numbers DEF Inv, TypeOK, RequestOK, CountIssued, In, Limits, Unlimited, Request
  <2>3. Counted \in SUBSET Ids
    BY DEF Counted, Issued
  <2>4. limit # Unlimited => Cardinality(Counted) + request[r].size <= limit
    BY <1>2, <2>2, <2>3, Numbers
  <2>5. Counted' = Counted /\ limit' = limit
    BY DEF CountIssued, Counted, Issued
  <2>6. RequestOK(r)'
    BY <2>1, <2>4, <2>5 DEF RequestOK, Inv, CountIssued, In, HoldsSettings, HoldsFence
  <2>7. HoldsSettings(r)
    BY DEF CountIssued, In, HoldsSettings
  <2> QED
    BY <2>1, <2>6, <2>7, RequestOnly DEF CountIssued, Inv, TypeOK, RequestOK
<1> QED
  BY <1>1, <1>2 DEF CountIssued

LEMMA InsertInv ==
  ASSUME Inv, NEW r \in Requests, Insert(r)
  PROVE  Inv'
<1> DEFINE taken == Issued \cup UNION {request[s].ids : s \in {s \in Requests : HoldsSettings(s)}}
           next  == {p \in Ids \ taken : Cardinality({q \in Ids \ taken : q < p}) < request[r].size}
<1>0. UNCHANGED <<pass, limit, frozen, scans, mailed>>
  BY DEF Insert
<1>1. CASE Ends(r, "error")
  BY <1>0, <1>1, FailsInv
<1>2. CASE /\ ~frozen /\ Cardinality(next) = request[r].size
           /\ request' = [request EXCEPT ![r].phase = "inserted", ![r].ids = next, ![r].size = 0]
  <2>0. next \in SUBSET Ids /\ next \cap Issued = {}
    OBVIOUS
  <2>. HIDE DEF next
  <2>1. /\ request' \in [Requests -> Request]
        /\ \A s \in Requests \ {r} : request'[s] = request[s]
        /\ request'[r].phase = "inserted" /\ request'[r].ids = next
        /\ request'[r].kind = request[r].kind /\ request'[r].sent = request[r].sent
        /\ request'[r].result = request[r].result
    <3>1. 0 \in 0..MaxBatch /\ request \in [Requests -> Request]
      BY Numbers DEF Inv, TypeOK
    <3>2. request' = [request EXCEPT ![r] = [request[r] EXCEPT !.phase = "inserted", !.ids = next, !.size = 0]]
      BY <1>2, <3>1
    <3> DEFINE new == [request[r] EXCEPT !.phase = "inserted", !.ids = next, !.size = 0]
    <3>3. new \in Request
      BY ZenonT(60), <2>0, <3>1, Row DEF Request
    <3>4. /\ new.phase = "inserted" /\ new.ids = next /\ new.kind = request[r].kind
          /\ new.sent = request[r].sent /\ new.result = request[r].result
      BY Row DEF Request
    <3>5. request' = [request EXCEPT ![r] = new]
      BY <3>2
    <3> HIDE DEF new
    <3> QED
      BY <3>1, <3>3, <3>4, <3>5, RowChanges
  <2>2. request[r].kind = "create" /\ request[r].phase = "counted"
    BY DEF Insert, In
  <2>3. /\ request[r].size # 0 /\ request[r].size \in Nat /\ request[r].size <= MaxBatch
        /\ limit # Unlimited => Cardinality(Counted) + request[r].size <= limit
    BY <2>2, Row, Numbers DEF Inv, RequestOK, Request
  <2>4. next # {}
    BY <1>2, <2>3, FS_EmptySet
  <2>5. Counted' = Counted /\ Issued' = Issued
    BY <1>0 DEF Counted, Issued
  <2>6. RequestOK(r)'
    BY <1>0, <1>2, <2>0, <2>1, <2>2, <2>3, <2>4, <2>5 DEF RequestOK, Inv, HoldsSettings, HoldsFence
  <2>7. HoldsSettings(r)
    BY <2>2 DEF HoldsSettings
  <2>8. request[r].result # "valid"
    BY <2>2 DEF Inv, RequestOK
  <2> QED
    BY <1>0, <2>1, <2>6, <2>7, <2>8, RequestOnly DEF Inv, TypeOK
<1> QED
  BY <1>1, <1>2 DEF Insert, Refused

\* Nobody else holds the settings while a batch becomes visible.
LEMMA CommitInv ==
  ASSUME Inv, NEW r \in Requests, Commit(r)
  PROVE  Inv'
<1>1. /\ request[r].ids \subseteq Ids /\ request[r].ids \cap Issued = {}
      /\ HoldsSettings(r) /\ request[r].result # "valid" /\ ~frozen
      /\ request[r].phase = "inserted" /\ request[r].kind = "create"
  BY Row DEF Inv, RequestOK, Commit, In, HoldsSettings, HoldsFence, Request
<1>2. UNCHANGED <<limit, frozen, scans, mailed>>
  BY DEF Commit
<1>3. /\ pass' \in [Ids -> Pass]
      /\ \A p \in Ids : /\ pass[p].used => pass'[p].used
                        /\ pass'[p].used => pass'[p].issued
                        /\ pass'[p].email = "sent" => p \in mailed
  <2>1. NoPass \in Pass /\ ~NoPass.used /\ NoPass.email = "not_sent"
    BY DEF NoPass, Pass
  <2>2. /\ [NoPass EXCEPT !.issued = TRUE] \in Pass
        /\ [NoPass EXCEPT !.issued = TRUE].used = FALSE
        /\ [NoPass EXCEPT !.issued = TRUE].email = "not_sent"
    BY <2>1 DEF Pass
  <2>3. pass \in [Ids -> Pass] /\ PassesOK
    BY DEF Inv, TypeOK
  <2>4. pass' \in [Ids -> Pass]
    BY <2>2, <2>3 DEF Commit
  <2>5. \A p \in Ids : \/ pass'[p] = pass[p]
                       \/ p \in request[r].ids /\ pass'[p] = [NoPass EXCEPT !.issued = TRUE]
    BY DEF Commit
  <2> QED
    BY <1>1, <2>2, <2>3, <2>4, <2>5 DEF PassesOK, Issued
<1>4. /\ request' \in [Requests -> Request]
      /\ \A s \in Requests \ {r} : request'[s] = request[s]
      /\ RequestOK(r)' /\ ~HoldsSettings(r)' /\ request'[r].result # "valid"
  <2>1. CASE Ends(r, "none")
    BY <2>1, EndsRow
  <2>2. CASE Goes(r, "sending")
    <3>1. /\ request' \in [Requests -> Request]
          /\ \A s \in Requests \ {r} : request'[s] = request[s]
          /\ request'[r].phase = "sending" /\ request'[r].kind = request[r].kind
          /\ request'[r].sent = request[r].sent /\ request'[r].result = request[r].result
      BY SMTT(30), <2>2 DEF Goes, Inv, TypeOK, Request
    <3> QED
      BY <1>1, <1>2, <3>1 DEF RequestOK, Inv, HoldsSettings, HoldsFence
  <2> QED
    BY <2>1, <2>2 DEF Commit
<1>5. TypeOK' /\ PassesOK'
  BY <1>2, <1>3, <1>4 DEF Inv, TypeOK, PassesOK
<1>6. ASSUME NEW s \in Requests \ {r} PROVE Undisturbed(s)
  BY <1>1, <1>2, <1>4 DEF Undisturbed, Inv, Exclusive, RequestOK
<1> QED
  BY <1>2, <1>3, <1>4, <1>5, <1>6, OneStep

LEMMA EnterLimitInv ==
  ASSUME Inv, NEW r \in Requests, EnterLimit(r)
  PROVE  Inv'
<1>1. CASE Ends(r, "error")
  BY <1>1, FailsInv DEF EnterLimit
<1>2. CASE ~frozen /\ Goes(r, "waiting")
  <2>1. /\ request' \in [Requests -> Request]
        /\ \A s \in Requests \ {r} : request'[s] = request[s]
        /\ request'[r].phase = "waiting" /\ request'[r].kind = request[r].kind
        /\ request'[r].ids = request[r].ids
        /\ request'[r].sent = request[r].sent /\ request'[r].result = request[r].result
    BY <1>2 DEF Goes, Inv, TypeOK, Request
  <2>2. RequestOK(r)'
    BY <1>2, <2>1 DEF RequestOK, Inv, EnterLimit, In, HoldsSettings, HoldsFence
  <2>3. ~HoldsSettings(r)'
    BY <2>1 DEF HoldsSettings
  <2>4. request[r].result # "valid"
    BY DEF Inv, RequestOK, EnterLimit, In
  <2> QED
    BY <2>1, <2>2, <2>3, <2>4, RequestOnly DEF EnterLimit, Inv, TypeOK
<1> QED
  BY <1>1, <1>2 DEF EnterLimit, Refused

\* The limit changes only while no batch is between its lock and its commit.
LEMMA SetLimitInv ==
  ASSUME Inv, NEW r \in Requests, SetLimit(r)
  PROVE  Inv'
<1>1. /\ request' \in [Requests -> Request]
      /\ \A s \in Requests \ {r} : request'[s] = request[s]
      /\ RequestOK(r)' /\ ~HoldsSettings(r)' /\ request'[r].result # "valid"
  BY EndsRow DEF SetLimit
<1>2. limit' \in Limits /\ UNCHANGED <<pass, frozen, scans, mailed>>
  BY Row DEF SetLimit, Request
<1>3. TypeOK' /\ PassesOK'
  BY <1>1, <1>2 DEF Inv, TypeOK, PassesOK
<1>4. ASSUME NEW s \in Requests \ {r} PROVE Undisturbed(s)
  BY <1>1, <1>2 DEF Undisturbed, Inv, RequestOK, SetLimit, SettingsFree
<1> QED
  BY <1>1, <1>2, <1>3, <1>4, OneStep

\* A pass is accepted for the request that finds it unused, and used from then on.
LEMMA RedeemInv ==
  ASSUME Inv, NEW r \in Requests, Redeem(r)
  PROVE  Inv'
<1>0. UNCHANGED <<limit, frozen, scans, mailed>> /\ request[r].kind = "redeem"
      /\ request[r].phase = "checked"
  BY DEF Redeem, In
<1>1. CASE Ends(r, "error") /\ pass' = pass
  BY <1>0, <1>1, FailsInv
<1>2. ASSUME NEW p \in request[r].ids, ~frozen, Redeemable(p),
             pass' = [pass EXCEPT ![p].used = TRUE],
             request' = [request EXCEPT ![r].phase = "log", ![r].result = "valid"]
      PROVE  Inv'
  <2>1. p \in Ids /\ request[r].ids = {p} /\ pass \in [Ids -> Pass]
    BY <1>0, <1>2, Row DEF Inv, TypeOK, RequestOK, Request
  <2>2. /\ request' \in [Requests -> Request]
        /\ \A s \in Requests \ {r} : request'[s] = request[s]
        /\ request'[r].phase = "log" /\ request'[r].kind = request[r].kind
        /\ request'[r].ids = request[r].ids
        /\ request'[r].sent = request[r].sent /\ request'[r].result = "valid"
    <3> DEFINE new == [request[r] EXCEPT !.phase = "log", !.result = "valid"]
    <3>1. request \in [Requests -> Request]
      BY DEF Inv, TypeOK
    <3>2. request' = [request EXCEPT ![r] = new]
      BY <1>2, <3>1
    <3>3. new \in Request
      BY ZenonT(60), Row DEF Request
    <3>4. /\ new.phase = "log" /\ new.kind = request[r].kind
          /\ new.ids = request[r].ids /\ new.sent = request[r].sent
          /\ new.result = "valid"
      BY Row DEF Request
    <3> HIDE DEF new
    <3> QED
      BY <3>1, <3>2, <3>3, <3>4, RowChanges
  <2>3. /\ pass' \in [Ids -> Pass] /\ pass'[p].used
        /\ \A q \in Ids : /\ pass'[q].issued = pass[q].issued
                          /\ pass'[q].invalidated = pass[q].invalidated
                          /\ pass'[q].email = pass[q].email
                          /\ pass[q].used => pass'[q].used
                          /\ pass'[q].used => pass[q].used \/ q = p
    BY ZenonT(60), <1>2, <2>1 DEF Pass
  <2>4. TypeOK' /\ PassesOK'
    BY <1>0, <1>2, <2>1, <2>2, <2>3 DEF Inv, TypeOK, PassesOK, Redeemable
  <2>5. Issued' = Issued /\ Counted' = Counted
    BY <2>3 DEF Issued, Counted
  <2>6. RequestOK(r)'
    BY <1>0, <2>1, <2>2, <2>3 DEF RequestOK, Inv, HoldsSettings, HoldsFence
  <2>7. ASSUME NEW s \in Requests \ {r} PROVE Undisturbed(s)
    BY <1>0, <2>2, <2>5 DEF Undisturbed, Inv, RequestOK
  <2>8. ~HoldsSettings(r)' /\ \A q \in request'[r].ids : ~pass[q].used
    BY <1>2, <2>1, <2>2 DEF HoldsSettings, Redeemable
  <2> QED
    BY <1>0, <2>2, <2>3, <2>4, <2>6, <2>7, <2>8, OneStep
<1>3. CASE ~frozen /\ Goes(r, "looking") /\ pass' = pass
  <2>1. /\ request' \in [Requests -> Request]
        /\ \A s \in Requests \ {r} : request'[s] = request[s]
        /\ request'[r].phase = "looking" /\ request'[r].kind = request[r].kind
        /\ request'[r].ids = request[r].ids
        /\ request'[r].sent = request[r].sent /\ request'[r].result = request[r].result
    BY <1>3 DEF Goes, Inv, TypeOK, Request
  <2>2. request[r].result # "valid"
    BY <1>0 DEF Inv, RequestOK
  <2>3. RequestOK(r)'
    BY <1>0, <1>3, <2>1, <2>2 DEF RequestOK, Inv, HoldsSettings, HoldsFence
  <2>4. ~HoldsSettings(r)'
    BY <2>1 DEF HoldsSettings
  <2> QED
    BY <1>0, <1>3, <2>1, <2>2, <2>3, <2>4, RequestOnly DEF Inv, TypeOK
<1> QED
  BY <1>1, <1>2, <1>3 DEF Redeem, Refused

LEMMA LookAgainInv ==
  ASSUME Inv, NEW r \in Requests, LookAgain(r)
  PROVE  Inv'
<1>1. PICK result \in {"used", "invalid"} :
        request' = [request EXCEPT ![r].phase = "log", ![r].result = result]
  BY DEF LookAgain
<1>2. /\ request' \in [Requests -> Request]
      /\ \A s \in Requests \ {r} : request'[s] = request[s]
      /\ request'[r].phase = "log" /\ request'[r].kind = request[r].kind
      /\ request'[r].ids = request[r].ids
      /\ request'[r].sent = request[r].sent /\ request'[r].result # "valid"
  <2> DEFINE new == [request[r] EXCEPT !.phase = "log", !.result = result]
  <2>1. request \in [Requests -> Request]
    BY DEF Inv, TypeOK
  <2>2. request' = [request EXCEPT ![r] = new]
    BY <1>1, <2>1
  <2>3. new \in Request
    BY ZenonT(60), Row DEF Request
  <2>4. /\ new.phase = "log" /\ new.kind = request[r].kind
        /\ new.ids = request[r].ids /\ new.sent = request[r].sent
        /\ new.result # "valid"
    BY Row DEF Request
  <2> HIDE DEF new
  <2> QED
    BY <2>1, <2>2, <2>3, <2>4, RowChanges
<1>3. RequestOK(r)' /\ ~HoldsSettings(r)'
  BY <1>2 DEF RequestOK, Inv, HoldsSettings, HoldsFence, LookAgain, In
<1> QED
  BY <1>2, <1>3, RequestOnly DEF LookAgain, Inv, TypeOK

LEMMA LogScanInv ==
  ASSUME Inv, NEW r \in Requests, LogScan(r)
  PROVE  Inv'
<1>0. UNCHANGED <<pass, limit, frozen, mailed>> /\ scans' \subseteq Requests
  BY DEF LogScan, Inv, TypeOK
<1>1. CASE Ends(r, "error")
  BY <1>0, <1>1, EndsInv
<1>2. CASE Ends(r, request[r].result) /\ request[r].result # "valid"
  BY <1>0, <1>2, EndsInv, Row DEF Request
<1>3. CASE Ends(r, "valid") /\ request[r].result = "valid"
  <2>1. /\ Done(r, "valid").phase = "done" /\ Done(r, "valid").result = "valid"
        /\ Done(r, "valid").ids = request[r].ids /\ Done(r, "valid").sent = {}
        /\ Done(r, "valid").kind = request[r].kind
    BY DEF Done
  <2>2. request[r].kind \in Kinds \cup {"none"} /\ request[r].ids \in SUBSET Ids
    BY Row DEF Request
  <2>3. Done(r, "valid") \in Request
    BY <2>2, Numbers DEF Done, Request, Limits, Unlimited
  <2>4. /\ request' \in [Requests -> Request] /\ request'[r] = Done(r, "valid")
        /\ \A s \in Requests \ {r} : request'[s] = request[s]
    BY <1>3, <2>3 DEF Ends, Inv, TypeOK
  <2>5. ~HoldsSettings(r)' /\ ~HoldsFence(r)'
    BY <2>1, <2>4 DEF HoldsSettings, HoldsFence
  <2>6. RequestOK(r)'
    BY <1>0, <1>3, <2>1, <2>4, <2>5 DEF RequestOK, Inv
  <2> QED
    BY <1>0, <1>3, <2>1, <2>4, <2>5, <2>6, RequestOnly
<1> QED
  BY <1>1, <1>2, <1>3 DEF LogScan, Refused

LEMMA InvalidateInv ==
  ASSUME Inv, NEW r \in Requests, Invalidate(r)
  PROVE  Inv'
<1>0. UNCHANGED <<limit, frozen, scans, mailed>>
  BY DEF Invalidate
<1>1. CASE Ends(r, "error") /\ pass' = pass
  BY <1>0, <1>1, FailsInv
<1>2. CASE /\ Ends(r, "none")
           /\ pass' = [p \in Ids |-> IF p \in request[r].ids /\ pass[p].issued
                                     THEN [pass[p] EXCEPT !.invalidated = TRUE] ELSE pass[p]]
  <2>1. /\ request' \in [Requests -> Request]
        /\ \A s \in Requests \ {r} : request'[s] = request[s]
        /\ RequestOK(r)' /\ ~HoldsSettings(r)' /\ request'[r].result # "valid"
    BY <1>2, EndsRow
  <2>2. /\ pass' \in [Ids -> Pass]
        /\ \A p \in Ids : /\ pass'[p].issued = pass[p].issued
                          /\ pass'[p].used = pass[p].used
                          /\ pass'[p].email = pass[p].email
                          /\ pass[p].invalidated => pass'[p].invalidated
    BY <1>2 DEF Inv, TypeOK, Pass
  <2>3. TypeOK' /\ PassesOK'
    BY <1>0, <2>1, <2>2 DEF Inv, TypeOK, PassesOK
  <2>4. Issued' = Issued /\ Counted' \subseteq Counted
    BY <2>2 DEF Issued, Counted
  <2>5. ASSUME NEW s \in Requests \ {r} PROVE Undisturbed(s)
    BY <1>0, <2>1, <2>4 DEF Undisturbed, Inv, RequestOK
  <2> QED
    BY <1>0, <2>1, <2>2, <2>3, <2>5, OneStep
<1> QED
  BY <1>1, <1>2 DEF Invalidate, Refused

LEMMA SendBatchInv ==
  ASSUME Inv, NEW r \in Requests, NEW p \in Ids, SendBatch(r, p)
  PROVE  Inv'
<1>0. UNCHANGED <<pass, limit, frozen, scans>> /\ request[r].phase = "sending"
      /\ mailed \subseteq mailed' /\ mailed' \subseteq Ids
  BY DEF SendBatch, Inv, TypeOK
<1>1. /\ request' \in [Requests -> Request]
      /\ \A s \in Requests \ {r} : request'[s] = request[s]
      /\ request'[r].phase = request[r].phase /\ request'[r].kind = request[r].kind
      /\ request'[r].ids = request[r].ids /\ request'[r].result = request[r].result
      /\ request'[r].sent \subseteq request[r].sent \cup mailed'
  <2>1. CASE mailed' = mailed \cup {p} /\ request' = [request EXCEPT ![r].sent = @ \cup {p}]
    BY SMTT(30), <2>1 DEF Inv, TypeOK, Request
  <2>2. CASE request' = [request EXCEPT ![r].failed = @ \cup {p}]
    BY <2>2 DEF Inv, TypeOK, Request
  <2> QED
    BY <2>1, <2>2 DEF SendBatch
<1>2. RequestOK(r)' /\ ~HoldsSettings(r)' /\ request'[r].result # "valid"
  BY <1>0, <1>1 DEF RequestOK, Inv, HoldsSettings, HoldsFence
<1>3. TypeOK' /\ PassesOK'
  BY <1>0, <1>1 DEF Inv, TypeOK, PassesOK
<1>4. ASSUME NEW s \in Requests \ {r} PROVE Undisturbed(s)
  BY <1>0, <1>1 DEF Undisturbed, Inv, RequestOK, Issued, Counted
<1> QED
  BY <1>0, <1>1, <1>2, <1>3, <1>4, OneStep

\* Recording the outcome of e-mails changes nothing else.
LEMMA WithEmailOK ==
  ASSUME Inv, NEW ids \in SUBSET Ids, NEW status \in {"sent", "failed"},
         status = "sent" => ids \subseteq mailed,
         pass' = WithEmail(ids, status), UNCHANGED mailed
  PROVE  /\ pass' \in [Ids -> Pass] /\ PassesOK'
         /\ \A p \in Ids : /\ pass'[p].used = pass[p].used
                           /\ pass'[p].issued = pass[p].issued
                           /\ pass'[p].invalidated = pass[p].invalidated
         /\ Issued' = Issued /\ Counted' = Counted
<1>1. /\ pass' \in [Ids -> Pass]
      /\ \A p \in Ids : /\ pass'[p].used = pass[p].used
                        /\ pass'[p].issued = pass[p].issued
                        /\ pass'[p].invalidated = pass[p].invalidated
                        /\ pass'[p].email = IF p \in ids THEN status ELSE pass[p].email
  BY DEF WithEmail, Inv, TypeOK, Pass
<1>2. PassesOK'
  BY <1>1 DEF Inv, PassesOK
<1> QED
  BY <1>1, <1>2 DEF Issued, Counted

LEMMA RecordSentInv ==
  ASSUME Inv, NEW r \in Requests, RecordSent(r)
  PROVE  Inv'
<1>0. UNCHANGED <<limit, frozen, scans, mailed>> /\ request[r].phase = "sending"
  BY DEF RecordSent
<1>1. CASE Ends(r, "error") /\ pass' = pass
  BY <1>0, <1>1, FailsInv
<1>2. CASE pass' = WithEmail(Delivered(r), "sent") /\ Goes(r, "recordFailed")
  <2>1. Delivered(r) \in SUBSET Ids /\ Delivered(r) \subseteq mailed
    BY Row DEF Delivered, Request, Inv, RequestOK
  <2>2. /\ pass' \in [Ids -> Pass] /\ PassesOK'
        /\ \A p \in Ids : pass'[p].used = pass[p].used
        /\ Issued' = Issued /\ Counted' = Counted
    BY <1>0, <1>2, <2>1, WithEmailOK
  <2>3. /\ request' \in [Requests -> Request]
        /\ \A s \in Requests \ {r} : request'[s] = request[s]
        /\ request'[r].phase = "recordFailed" /\ request'[r].kind = request[r].kind
        /\ request'[r].ids = request[r].ids
        /\ request'[r].sent = request[r].sent /\ request'[r].result = request[r].result
    BY <1>2 DEF Goes, Inv, TypeOK, Request
  <2>4. request[r].result # "valid"
    BY <1>0 DEF Inv, RequestOK
  <2>5. RequestOK(r)' /\ ~HoldsSettings(r)'
    BY <1>0, <2>3, <2>4 DEF RequestOK, Inv, HoldsSettings, HoldsFence
  <2>6. TypeOK'
    BY <1>0, <2>2, <2>3 DEF Inv, TypeOK
  <2>7. ASSUME NEW s \in Requests \ {r} PROVE Undisturbed(s)
    BY <1>0, <2>2, <2>3 DEF Undisturbed, Inv, RequestOK
  <2> QED
    BY <1>0, <2>2, <2>3, <2>4, <2>5, <2>6, <2>7, OneStep
<1> QED
  BY <1>1, <1>2 DEF RecordSent, Refused

LEMMA EmailUpdateFailsInv ==
  ASSUME Inv, NEW r \in Requests, EmailUpdateFails(r)
  PROVE  Inv'
<1>1. /\ request' \in [Requests -> Request]
      /\ \A s \in Requests \ {r} : request'[s] = request[s]
      /\ request'[r].phase = "recordFailed" /\ request'[r].kind = request[r].kind
      /\ request'[r].ids = request[r].ids
      /\ request'[r].sent = request[r].sent /\ request'[r].result = request[r].result
  <2> DEFINE new == [request[r] EXCEPT !.phase = "recordFailed", !.failed = request[r].sent]
  <2>1. request \in [Requests -> Request]
    BY DEF Inv, TypeOK
  <2>2. request' = [request EXCEPT ![r] = new]
    BY <2>1 DEF EmailUpdateFails
  <2>3. new \in Request
    BY ZenonT(60), Row DEF Request
  <2>4. /\ new.phase = "recordFailed" /\ new.kind = request[r].kind /\ new.ids = request[r].ids
        /\ new.sent = request[r].sent /\ new.result = request[r].result
    BY Row DEF Request
  <2> HIDE DEF new
  <2> QED
    BY <2>1, <2>2, <2>3, <2>4, RowChanges
<1>2. RequestOK(r)' /\ ~HoldsSettings(r)' /\ request[r].result # "valid"
  BY <1>1 DEF RequestOK, Inv, HoldsSettings, HoldsFence, EmailUpdateFails, In
<1> QED
  BY <1>1, <1>2, RequestOnly DEF EmailUpdateFails, Inv, TypeOK

LEMMA RecordFailedInv ==
  ASSUME Inv, NEW r \in Requests, RecordFailed(r)
  PROVE  Inv'
<1>0. UNCHANGED <<limit, frozen, scans, mailed>>
  BY DEF RecordFailed
<1>1. CASE Ends(r, "error") /\ pass' = pass
  BY <1>0, <1>1, FailsInv
<1>2. CASE pass' = WithEmail(request[r].failed, "failed") /\ Ends(r, "none")
  <2>1. request[r].failed \in SUBSET Ids
    BY Row DEF Request
  <2>2. /\ pass' \in [Ids -> Pass] /\ PassesOK'
        /\ \A p \in Ids : pass'[p].used = pass[p].used
        /\ Issued' = Issued /\ Counted' = Counted
    BY <1>0, <1>2, <2>1, WithEmailOK
  <2>3. /\ request' \in [Requests -> Request]
        /\ \A s \in Requests \ {r} : request'[s] = request[s]
        /\ RequestOK(r)' /\ ~HoldsSettings(r)' /\ request'[r].result # "valid"
    BY <1>2, EndsRow
  <2>4. TypeOK'
    BY <1>0, <2>2, <2>3 DEF Inv, TypeOK
  <2>5. ASSUME NEW s \in Requests \ {r} PROVE Undisturbed(s)
    BY <1>0, <2>2, <2>3 DEF Undisturbed, Inv, RequestOK
  <2> QED
    BY <1>0, <2>2, <2>3, <2>4, <2>5, OneStep
<1> QED
  BY <1>1, <1>2 DEF RecordFailed, Refused

\* What a request may come with suits its kind.
LEMMA ArgumentsOK ==
  ASSUME Inv, NEW x \in Arguments, x.kind \in Kinds
  PROVE  /\ x \in Request /\ x.sent = {} /\ x.result = "none"
         /\ x.phase \in {"checked", "sending"}
         /\ x.kind = "create" /\ x.phase = "checked" => x.size # 0
         /\ x.kind = "redeem" => \E p \in Ids : x.ids \subseteq {p}
<1> DEFINE Fields(kind, phase, ids, size, l) ==
      [kind |-> kind, phase |-> phase, ids |-> ids, size |-> size, limit |-> l,
       sent |-> {}, failed |-> {}, result |-> "none"]
<1>1. \A kind : Checked(kind) = Fields(kind, "checked", {}, 0, 0)
  BY DEF Checked, Fresh
<1>2. CASE \E n \in 1..MaxBatch : x = [Checked("create") EXCEPT !.size = n]
  <2>1. PICK n \in 1..MaxBatch : x = [Checked("create") EXCEPT !.size = n]
    BY <1>2
  <2>2. x = Fields("create", "checked", {}, n, 0)
    BY <1>1, <2>1
  <2> QED
    BY <2>2, Numbers DEF Request, Limits, Unlimited
<1>3. CASE \E n \in Limits : x = [Checked("limit") EXCEPT !.limit = n]
  <2>1. PICK n \in Limits : x = [Checked("limit") EXCEPT !.limit = n]
    BY <1>3
  <2>2. x = Fields("limit", "checked", {}, 0, n)
    BY <1>1, <2>1
  <2> QED
    BY <2>2, Numbers DEF Request
<1>4. CASE \E kind \in {"redeem", "invalidate"}, p \in Issued : x = [Checked(kind) EXCEPT !.ids = {p}]
  <2>1. PICK kind \in {"redeem", "invalidate"}, p \in Issued : x = [Checked(kind) EXCEPT !.ids = {p}]
    BY <1>4
  <2>2. x = Fields(kind, "checked", {p}, 0, 0) /\ p \in Ids
    BY <1>1, <2>1 DEF Issued
  <2> QED
    BY <2>2, Numbers DEF Request, Limits, Unlimited
<1>5. CASE x = [Checked("invalidate") EXCEPT !.ids = Ids]
  <2>1. x = Fields("invalidate", "checked", Ids, 0, 0)
    BY <1>1, <1>5
  <2> QED
    BY <2>1, Numbers DEF Request, Limits, Unlimited
<1>6. CASE \E p \in Issued : x = [Fresh("email", "sending") EXCEPT !.ids = {p}]
  <2>1. PICK p \in Issued : x = [Fresh("email", "sending") EXCEPT !.ids = {p}]
    BY <1>6
  <2>2. x = Fields("email", "sending", {p}, 0, 0) /\ p \in Ids
    BY <2>1 DEF Fresh, Issued
  <2> QED
    BY <2>2, Numbers DEF Request, Limits, Unlimited
<1> QED
  BY <1>2, <1>3, <1>4, <1>5, <1>6 DEF Arguments

LEMMA StartInv ==
  ASSUME Inv, NEW r \in Requests, NEW x \in Arguments, x.kind \in Kinds, Start(r, x)
  PROVE  Inv'
<1>0. UNCHANGED <<pass, limit, frozen, scans, mailed>> /\ request \in [Requests -> Request]
  BY DEF Start, Inv, TypeOK
<1>1. PICK y \in Request :
        /\ request' = [request EXCEPT ![r] = y]
        /\ y.sent = {} /\ y.result # "valid" /\ y.phase \in {"checked", "sending", "done"}
        /\ y.kind = "create" /\ y.phase = "checked" => y.size # 0
        /\ y.kind = "redeem" => \E p \in Ids : y.ids \subseteq {p}
  <2>1. CASE ~frozen
    BY <2>1, ArgumentsOK DEF Start
  <2>2. CASE frozen
    <3>1. DEFINE y == [Fresh(x.kind, "done") EXCEPT !.result = "error"]
    <3>2. y = [kind |-> x.kind, phase |-> "done", ids |-> {}, size |-> 0, limit |-> 0,
               sent |-> {}, failed |-> {}, result |-> "error"]
      BY DEF Fresh
    <3>3. y \in Request
      BY <3>2, Numbers DEF Request, Limits, Unlimited
    <3>4. request' = [request EXCEPT ![r] = y]
      BY <2>2 DEF Start
    <3>5. y.kind = "redeem" => \E p \in Ids : y.ids \subseteq {p}
      BY <3>2, ArgumentsOK
    <3> HIDE DEF y
    <3> QED
      BY <3>2, <3>3, <3>4, <3>5
  <2> QED
    BY <2>1, <2>2
<1>2. /\ request' \in [Requests -> Request] /\ request'[r] = y
      /\ \A s \in Requests \ {r} : request'[s] = request[s]
  BY <1>0, <1>1
<1>3. RequestOK(r)' /\ ~HoldsSettings(r)'
  BY <1>1, <1>2 DEF RequestOK, HoldsSettings, HoldsFence
<1> QED
  BY <1>0, <1>1, <1>2, <1>3, RequestOnly DEF Inv, TypeOK

\* A freeze waits until no request is behind its first write.
LEMMA FenceInv ==
  ASSUME Inv, Freeze \/ Unfreeze
  PROVE  Inv'
<1>1. UNCHANGED <<pass, limit, scans, request, mailed>> /\ frozen' \in BOOLEAN
  BY DEF Freeze, Unfreeze
<1>2. TypeOK' /\ PassesOK'
  BY <1>1 DEF Inv, TypeOK, PassesOK
<1>3. ASSUME NEW s \in Requests PROVE RequestOK(s)'
  <2>1. HoldsFence(s) => ~frozen'
    BY DEF Inv, RequestOK, Freeze, MayFreeze, Unfreeze
  <2>2. Undisturbed(s)
    BY <1>1, <2>1 DEF Undisturbed, Issued, Counted
  <2> QED
    BY <1>1, <1>2, <2>2, StillOK
<1>4. \A s, t \in Requests : s # t => Exclusive(s, t)'
  BY <1>1 DEF Inv, Exclusive, HoldsSettings
<1> QED
  BY <1>2, <1>3, <1>4 DEF Inv

LEMMA NextInv == Inv /\ [Next]_vars => Inv'
<1> SUFFICES ASSUME Inv, [Next]_vars PROVE Inv'
  OBVIOUS
<1>1. CASE UNCHANGED vars
  BY ZenonT(60), <1>1 DEF vars, Inv, TypeOK, PassesOK, RequestOK, Exclusive, HoldsSettings, HoldsFence,
              Issued, Counted
<1>2. ASSUME NEW r \in Requests, NEW x \in Arguments, x.kind \in Kinds, Start(r, x)
      PROVE  Inv'
  BY <1>2, StartInv
<1>3. ASSUME NEW r \in Requests, Step(r) PROVE Inv'
  BY <1>3, LockSettingsInv, CountIssuedInv, InsertInv, CommitInv, EnterLimitInv, SetLimitInv,
     RedeemInv, LookAgainInv, LogScanInv, InvalidateInv, SendBatchInv, RecordSentInv,
     RecordFailedInv DEF Step
<1>4. ASSUME NEW r \in Requests, EmailUpdateFails(r) PROVE Inv'
  BY <1>4, EmailUpdateFailsInv
<1>5. ASSUME NEW r \in Requests, Fails(r) PROVE Inv'
  BY <1>5, FailsInv DEF Fails
<1> QED
  BY <1>1, <1>2, <1>3, <1>4, <1>5, FenceInv DEF Next

\* Every behaviour of the hall-pass system keeps the invariant: locks, limits, freezes and
\* answers stay as the code relies on them, however the requests interleave.
THEOREM Invariance == Spec => []Inv
  BY InitInv, NextInv, PTL DEF Spec

\* Every variable keeps its type, whatever the requests do.
THEOREM TypeCorrect == Spec => []TypeOK
<1>1. Inv => TypeOK
  BY DEF Inv
<1> QED
  BY <1>1, Invariance, PTL

\* redeem_hall_pass answers "valid" to one request per pass, for any number of scans.
THEOREM OnceAdmitted == Spec => []AdmittedOnce
<1>1. ASSUME NEW S, \A r, s \in S : r = s
      PROVE  Cardinality(S) <= 1
  <2>1. CASE S = {}
    BY <2>1, FS_EmptySet
  <2>2. ASSUME NEW r \in S PROVE Cardinality(S) <= 1
    <3>1. S = {r}
      BY <1>1
    <3> QED
      BY <3>1, FS_Singleton
  <2> QED
    BY <2>1, <2>2
<1>2. ASSUME Inv, NEW p \in Ids
      PROVE  \A r, s \in {t \in Requests : request[t].result = "valid" /\ p \in request[t].ids} : r = s
  BY <1>2 DEF Inv, Exclusive
<1>3. Inv => AdmittedOnce
  BY <1>1, <1>2 DEF AdmittedOnce
<1> QED
  BY <1>3, Invariance, PTL

\* What updatePassEmailDelivery records as sent has been taken on by the provider.
THEOREM OnlySentIfMailed == Spec => []SentIsMailed
<1>1. Inv => SentIsMailed
  BY DEF Inv, PassesOK, SentIsMailed
<1> QED
  BY <1>1, Invariance, PTL

-----------------------------------------------------------------------------
(* The refinement: every step is a step of HallPassService or a stutter       *)

\* What a step of a request may do to the rows, in the terms of the service.
LEMMA ServiceNames ==
  /\ Service!Ids = Ids /\ Service!Limits = Limits /\ Service!Unlimited = Unlimited
  /\ Service!Issued = Issued /\ Service!Counted = Counted /\ Service!NoPass = NoPass
  BY DEF Service!NoPass, NoPass, Service!Ids, Ids, Service!Limits, Limits, Service!Unlimited, Unlimited,
         Service!Issued, Issued, Service!Counted, Counted

LEMMA ServiceCardinality == \A S : Service!Cardinality(S) = Cardinality(S)
  BY DEF Service!Cardinality, Cardinality, Service!IsFiniteSet, IsFiniteSet

LEMMA CommitIssues ==
  ASSUME Inv, NEW r \in Requests, Commit(r)
  PROVE  Service!ServiceNext
<1>1. /\ request[r].ids \in SUBSET Ids /\ ~frozen
      /\ request[r].ids # {} /\ request[r].ids \cap Issued = {}
      /\ Cardinality(request[r].ids) <= MaxBatch
      /\ limit # Unlimited => Cardinality(Counted) + Cardinality(request[r].ids) <= limit
  BY Row DEF Inv, RequestOK, Commit, In, HoldsFence, Request
<1>2. pass' = [p \in Ids |-> IF p \in request[r].ids THEN [NoPass EXCEPT !.issued = TRUE]
                            ELSE pass[p]]
  BY DEF Commit
<1>3. UNCHANGED <<limit, frozen, mailed>>
  BY DEF Commit
<1>4. Service!Issue(request[r].ids)
  <2>1. pass' = [p \in Service!Ids |-> IF p \in request[r].ids
                   THEN [Service!NoPass EXCEPT !.issued = TRUE] ELSE pass[p]]
    BY <1>2, ServiceNames
  <2>2. /\ request[r].ids \cap Service!Issued = {}
        /\ limit # Service!Unlimited
             => Cardinality(Service!Counted) + Cardinality(request[r].ids) <= limit
    BY <1>1, ServiceNames
  <2> QED
    BY <1>1, <1>3, <2>1, <2>2, ServiceCardinality DEF Service!Issue
<1> QED
  BY <1>1, <1>4, ServiceNames DEF Service!ServiceNext

LEMMA RedeemRedeems ==
  ASSUME Inv, NEW r \in Requests, Redeem(r), pass' # pass
  PROVE  Service!ServiceNext
<1>1. PICK p \in request[r].ids : /\ ~frozen /\ Redeemable(p)
                                  /\ pass' = [pass EXCEPT ![p].used = TRUE]
  BY DEF Redeem
<1>2. p \in Ids /\ UNCHANGED <<limit, frozen, mailed>>
  BY Row DEF Request, Redeem
<1>3. Service!RedeemPass(p)
  BY <1>1, <1>2 DEF Service!RedeemPass, Service!Redeemable, Redeemable
<1> QED
  BY <1>2, <1>3, ServiceNames DEF Service!ServiceNext

LEMMA InvalidateInvalidates ==
  ASSUME Inv, NEW r \in Requests, Invalidate(r), pass' # pass
  PROVE  Service!ServiceNext
<1>1. request[r].ids \in SUBSET Ids
  BY Row DEF Request
<1>2. Service!InvalidatePasses(request[r].ids)
  BY ServiceNames DEF Service!InvalidatePasses, Invalidate
<1> QED
  BY <1>1, <1>2, ServiceNames DEF Service!ServiceNext

LEMMA SetLimitSets ==
  ASSUME Inv, NEW r \in Requests, SetLimit(r)
  PROVE  Service!ServiceNext
<1>1. request[r].limit \in Limits /\ ~frozen
  BY Row DEF Request, Inv, RequestOK, SetLimit, In, HoldsFence
<1>2. Service!SetTicketLimit(request[r].limit)
  BY <1>1 DEF Service!SetTicketLimit, SetLimit
<1> QED
  BY <1>1, <1>2, ServiceNames DEF Service!ServiceNext

LEMMA SendBatchMails ==
  ASSUME Inv, NEW r \in Requests, NEW p \in Ids, SendBatch(r, p)
  PROVE  [Service!ServiceNext]_(Service!serviceVars)
<1>1. UNCHANGED <<pass, limit, frozen>> /\ (mailed' = mailed \/ mailed' = mailed \cup {p})
  BY DEF SendBatch
<1>2. CASE mailed' = mailed \cup {p}
  <2>1. Service!MailPasses({p}) /\ {p} \in SUBSET Ids
    BY <1>1, <1>2 DEF Service!MailPasses
  <2> QED
    BY <2>1, ServiceNames DEF Service!ServiceNext
<1> QED
  BY <1>1, <1>2 DEF Service!serviceVars

LEMMA RecordSentRecords ==
  ASSUME Inv, NEW r \in Requests, RecordSent(r), pass' # pass
  PROVE  Service!ServiceNext
<1>1. /\ pass' = WithEmail(Delivered(r), "sent") /\ (Delivered(r) = {} \/ ~frozen)
      /\ UNCHANGED <<limit, frozen, mailed>>
  BY DEF RecordSent
<1>2. Delivered(r) \in SUBSET Ids /\ Delivered(r) \subseteq mailed
  BY Row DEF Delivered, Request, Inv, RequestOK
<1>3. Delivered(r) # {}
  <2>1. pass = [p \in Ids |-> pass[p]]
    BY DEF Inv, TypeOK
  <2> QED
    BY <1>1, <2>1 DEF WithEmail
<1>4. Service!RecordEmail(Delivered(r), "sent")
  BY <1>1, <1>2, <1>3, ServiceNames DEF Service!RecordEmail, WithEmail
<1> QED
  BY <1>2, <1>4, ServiceNames DEF Service!ServiceNext

LEMMA RecordFailedRecords ==
  ASSUME Inv, NEW r \in Requests, RecordFailed(r), pass' # pass
  PROVE  Service!ServiceNext
<1> DEFINE ids == request[r].failed
<1>1. /\ pass' = WithEmail(ids, "failed") /\ (ids = {} \/ ~frozen)
      /\ UNCHANGED <<limit, frozen, mailed>>
  BY DEF RecordFailed
<1>2. ids \in SUBSET Ids
  BY Row DEF Request
<1>3. ids # {}
  <2>1. pass = [p \in Ids |-> pass[p]]
    BY DEF Inv, TypeOK
  <2> QED
    BY <1>1, <2>1 DEF WithEmail
<1>4. Service!RecordEmail(ids, "failed")
  BY <1>1, <1>2, <1>3, ServiceNames DEF Service!RecordEmail, WithEmail
<1> QED
  BY <1>2, <1>4, ServiceNames DEF Service!ServiceNext

LEMMA ServiceStep ==
  ASSUME Inv, [Next]_vars
  PROVE  [Service!ServiceNext]_(Service!serviceVars)
<1> DEFINE Stutter == UNCHANGED <<pass, limit, frozen, mailed>>
<1>1. Stutter => UNCHANGED Service!serviceVars
  BY DEF Service!serviceVars
<1>2. ASSUME NEW r \in Requests, Step(r) PROVE Stutter \/ Service!ServiceNext \/ UNCHANGED Service!serviceVars
  <2>1. CASE LockSettings(r) \/ CountIssued(r) \/ Insert(r) \/ EnterLimit(r) \/ LookAgain(r) \/ LogScan(r)
    BY <2>1 DEF LockSettings, CountIssued, Insert, EnterLimit, LookAgain, LogScan
  <2>2. CASE Redeem(r) \/ Invalidate(r) \/ RecordSent(r) \/ RecordFailed(r)
    <3>1. UNCHANGED <<limit, frozen, mailed>>
      BY <2>2 DEF Redeem, Invalidate, RecordSent, RecordFailed
    <3> QED
      BY <2>2, <3>1, RedeemRedeems, InvalidateInvalidates, RecordSentRecords, RecordFailedRecords
  <2>3. CASE \E p \in Ids : SendBatch(r, p)
    BY <2>3, SendBatchMails
  <2> QED
    BY <1>2, <2>1, <2>2, <2>3, CommitIssues, SetLimitSets DEF Step
<1>3. ASSUME NEW r \in Requests, EmailUpdateFails(r) \/ Fails(r) \/ \E x \in Arguments : Start(r, x)
      PROVE  Stutter
  BY <1>3 DEF EmailUpdateFails, Fails, Start
<1>4. CASE Freeze \/ Unfreeze
  <2>1. Service!SwitchFence
    BY <1>4 DEF Freeze, MayFreeze, Unfreeze, Service!SwitchFence, Inv, TypeOK
  <2> QED
    BY <2>1 DEF Service!ServiceNext
<1>5. CASE UNCHANGED vars
  BY <1>5 DEF vars, Service!serviceVars
<1> HIDE DEF Stutter
<1> QED
  BY <1>1, <1>2, <1>3, <1>4, <1>5 DEF Next

\* The hall-pass system implements its service for every number of requests, passes and
\* names: statements, locks, rollbacks and failures never show half a change.
THEOREM Refinement == Spec => ImplementsService
<1>1. Init => Service!ServiceInit
  BY ServiceNames DEF Init, Service!ServiceInit, NoPass, Service!NoPass
<1> QED
  BY <1>1, ServiceStep, Invariance, PTL DEF Spec, ImplementsService, Service!ServiceSpec

-----------------------------------------------------------------------------
(* What no step may do, by the refinement                                     *)

\* Only an issue makes more passes count, and it stays within the limit.
LEMMA CountStep ==
  ASSUME Inv, Service!ServiceNext, Count(pass') > Count(pass), limit # Unlimited
  PROVE  Count(pass') <= limit
<1>0. /\ Count(pass) = Cardinality(Counted) /\ Count(pass') = Cardinality(Counted')
      /\ Counted \in SUBSET Ids /\ limit \in Int
  <2>1. /\ {p \in Ids : pass[p].issued /\ ~pass[p].invalidated} = Counted
        /\ {p \in Ids : pass'[p].issued /\ ~pass'[p].invalidated} = Counted'
    BY DEF Counted, Issued
  <2>2. Counted \in SUBSET Ids /\ limit \in Int
    BY Numbers DEF Counted, Issued, Inv, TypeOK, Limits, Unlimited
  <2> QED
    BY <2>1, <2>2 DEF Count
<1>1. ~(Counted' \subseteq Counted)
  BY <1>0, FewerCount
<1>2. ASSUME NEW ids \in SUBSET Ids, Service!Issue(ids)
      PROVE  Cardinality(Counted') <= limit
  <2>1. limit # Unlimited => Cardinality(Counted) + Cardinality(ids) <= limit
    BY <1>2, ServiceNames, ServiceCardinality DEF Service!Issue
  <2>2. Counted' \subseteq Counted \cup ids
    BY <1>2, ServiceNames DEF Service!Issue, Counted, Issued
  <2>3. /\ Cardinality(Counted \cup ids)
             = Cardinality(Counted) + Cardinality(ids) - Cardinality(Counted \cap ids)
        /\ Counted \cup ids \in SUBSET Ids /\ Counted \cap ids \in SUBSET Ids
    BY <1>0, Numbers, FS_Union
  <2>4. /\ Cardinality(Counted') <= Cardinality(Counted \cup ids)
        /\ Cardinality(Counted') \in Nat
    BY <2>2, <2>3, FewerCount
  <2> QED
    BY <1>0, <2>1, <2>3, <2>4, Numbers
<1>3. ASSUME NEW ids \in SUBSET Ids, Service!InvalidatePasses(ids) \/ Service!MailPasses(ids)
      PROVE  FALSE
  <2>1. \A p \in Ids : pass'[p].issued /\ ~pass'[p].invalidated => pass[p].issued /\ ~pass[p].invalidated
    BY <1>3, ServiceNames DEF Service!InvalidatePasses, Service!MailPasses, Inv, TypeOK, Pass
  <2> QED
    BY <1>1, <2>1 DEF Counted, Issued
<1>4. ASSUME NEW p \in Ids, Service!RedeemPass(p)
      PROVE  FALSE
  <2>1. \A q \in Ids : pass'[q].issued = pass[q].issued /\ pass'[q].invalidated = pass[q].invalidated
    BY <1>4 DEF Service!RedeemPass, Inv, TypeOK, Pass
  <2> QED
    BY <1>1, <2>1 DEF Counted, Issued
<1>5. ASSUME NEW n, Service!SetTicketLimit(n) PROVE FALSE
  BY <1>1, <1>5 DEF Service!SetTicketLimit, Counted, Issued
<1>6. ASSUME NEW ids \in SUBSET Ids, NEW status, Service!RecordEmail(ids, status)
      PROVE  FALSE
  <2>1. \A q \in Ids : pass'[q].issued = pass[q].issued /\ pass'[q].invalidated = pass[q].invalidated
    BY <1>6, ServiceNames DEF Service!RecordEmail, Inv, TypeOK, Pass
  <2> QED
    BY <1>1, <2>1 DEF Counted, Issued
<1>7. ~Service!SwitchFence
  BY <1>1 DEF Service!SwitchFence, Counted, Issued
<1> QED
  BY <1>0, <1>2, <1>3, <1>4, <1>5, <1>6, <1>7, ServiceNames DEF Service!ServiceNext

LEMMA OutStep ==
  ASSUME Inv, Service!ServiceNext, NEW p \in Ids, pass[p].invalidated, ~pass[p].used
  PROVE  ~pass'[p].used
<1> USE DEF Inv, TypeOK, Pass
<1>1. ASSUME NEW ids \in SUBSET Ids, Service!Issue(ids) PROVE ~pass'[p].used
  <2>1. pass'[p] = pass[p] \/ pass'[p] = [NoPass EXCEPT !.issued = TRUE]
    BY <1>1, ServiceNames DEF Service!Issue
  <2> QED
    BY <2>1 DEF NoPass
<1>2. ASSUME NEW ids \in SUBSET Ids, Service!InvalidatePasses(ids) \/ Service!MailPasses(ids)
      PROVE  ~pass'[p].used
  BY <1>2, ServiceNames DEF Service!InvalidatePasses, Service!MailPasses
<1>3. ASSUME NEW q \in Ids, Service!RedeemPass(q) PROVE ~pass'[p].used
  BY <1>3 DEF Service!RedeemPass, Service!Redeemable
<1>4. ASSUME NEW ids \in SUBSET Ids, NEW status, Service!RecordEmail(ids, status)
      PROVE  ~pass'[p].used
  BY <1>4, ServiceNames DEF Service!RecordEmail
<1>5. ASSUME NEW n, Service!SetTicketLimit(n) \/ Service!SwitchFence PROVE ~pass'[p].used
  BY <1>5 DEF Service!SetTicketLimit, Service!SwitchFence
<1> QED
  BY <1>1, <1>2, <1>3, <1>4, <1>5, ServiceNames DEF Service!ServiceNext

\* createHallPasses never brings the passes that count above the limit in force, for any
\* number of batches, invalidations and changes of the limit side by side.
THEOREM LimitIsKept == Spec => LimitHolds
<1>1. ASSUME Inv, [Next]_vars
      PROVE  [Count(pass') > Count(pass) /\ limit # Unlimited => Count(pass') <= limit]_vars
  <2>1. CASE UNCHANGED Service!serviceVars
    <3>1. Count(pass) \in Nat /\ pass' = pass
      <4>1. {p \in Ids : pass[p].issued /\ ~pass[p].invalidated} \in SUBSET Ids
        OBVIOUS
      <4> QED
        BY <2>1, <4>1, Numbers DEF Service!serviceVars, Count
    <3> QED
      BY <3>1
  <2>2. CASE Service!ServiceNext
    BY <1>1, <2>2, CountStep
  <2> QED
    BY <1>1, <2>1, <2>2, ServiceStep
<1> QED
  BY <1>1, Invariance, PTL DEF Spec, LimitHolds

\* A pass that was invalidated in time is never let in afterwards.
THEOREM InvalidatedIsOut == Spec => InvalidatedStaysOut
<1>1. ASSUME Inv, [Next]_vars
      PROVE  [\A p \in Ids : pass[p].invalidated /\ ~pass[p].used => ~pass'[p].used]_vars
  <2>1. CASE UNCHANGED Service!serviceVars
    BY <2>1 DEF Service!serviceVars
  <2>2. CASE Service!ServiceNext
    BY <1>1, <2>2, OutStep
  <2> QED
    BY <1>1, <2>1, <2>2, ServiceStep
<1> QED
  BY <1>1, Invariance, PTL DEF Spec, InvalidatedStaysOut

\* A snapshot read while the source stays frozen is final: requests that began before the
\* freeze change nothing after it.
THEOREM FreezeIsFinal == Spec => FrozenIsFinal
<1>1. ASSUME Inv, [Next]_vars, frozen, frozen'
      PROVE  UNCHANGED <<pass, limit, scans>>
  <2>1. UNCHANGED <<pass, limit>>
    <3>1. CASE UNCHANGED Service!serviceVars
      BY <3>1 DEF Service!serviceVars
    <3>2. CASE Service!ServiceNext
      BY <1>1, <3>2 DEF Service!ServiceNext, Service!Issue, Service!InvalidatePasses,
         Service!MailPasses, Service!RedeemPass, Service!SetTicketLimit, Service!RecordEmail,
         Service!SwitchFence
    <3> QED
      BY <1>1, <3>1, <3>2, ServiceStep
  <2>2. scans' = scans
    <3>1. CASE UNCHANGED vars
      BY <3>1 DEF vars
    <3>2. ASSUME NEW r \in Requests, Step(r) PROVE scans' = scans
      BY <1>1, <3>2 DEF Step, LockSettings, CountIssued, Insert, Commit, EnterLimit, SetLimit,
         Redeem, LookAgain, LogScan, Invalidate, SendBatch, RecordSent, RecordFailed
    <3> QED
      BY <1>1, <3>1, <3>2 DEF Next, Start, EmailUpdateFails, Fails, Freeze, Unfreeze
  <2> QED
    BY <2>1, <2>2
<1> QED
  BY <1>1, Invariance, PTL DEF Spec, FrozenIsFinal
=============================================================================
