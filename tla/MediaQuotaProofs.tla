-------------------------- MODULE MediaQuotaProofs --------------------------
(***************************************************************************)
(* The wedding's media quota: its counters cover what the rows add up to,  *)
(* exactly unless a lease ran out under a worker that went on, and never   *)
(* exceed the limit, for every number of assets, workers and faults and    *)
(* every limit.                                                            *)
(*                                                                         *)
(* The sum of the rows is a fold of the community modules, a function that *)
(* is defined by recursion on the subsets of a finite set.  The first part *)
(* proves what is needed of it by going to a smallest set for which it     *)
(* would fail: the subsets of a finite set are well ordered by inclusion.  *)
(***************************************************************************)
EXTENDS MediaPipelineProofs, FiniteSetTheorems, WellFoundedInduction

\* Of the subsets of a finite set with some property one has no smaller one.
LEMMA SmallestSubset ==
  ASSUME NEW S, IsFiniteSet(S), NEW Bad \in SUBSET SUBSET S, Bad # {}
  PROVE  \E s \in Bad : \A t \in Bad : t \subseteq s => t = s
<1>1. Bad \subseteq FiniteSubsetsOf(S)
  BY FS_FiniteSubsetsOfFinite
<1>2. PICK s \in Bad : \A t \in Bad : ~(<<t, s>> \in StrictSubsetOrdering(S))
  BY <1>1, FS_StrictSubsetOrderingWellFounded, WFMin
<1>3. \A t \in Bad : t \subseteq s => t = s
  BY <1>2 DEF StrictSubsetOrdering
<1> QED
  BY <1>3

Chosen(s) == CHOOSE x \in s : TRUE
Rest(s)   == s \ {Chosen(s)}

LEMMA ChosenIsIn == \A s : s # {} => Chosen(s) \in s /\ Rest(s) \subseteq s /\ Rest(s) # s
  BY DEF Chosen, Rest

\* h has the sums of f over every subset of S.
Sums(h, f, S) == h = [s \in SUBSET S |-> IF s = {} THEN 0 ELSE f[Chosen(s)] + h[Rest(s)]]

\* What such a function is at a set.
LEMMA SumsAt ==
  ASSUME NEW S, NEW f, NEW h, Sums(h, f, S), NEW s \in SUBSET S
  PROVE  /\ s = {} => h[s] = 0
         /\ s # {} => h[s] = f[Chosen(s)] + h[Rest(s)] /\ Rest(s) \in SUBSET S /\ Chosen(s) \in S
<1>1. h[s] = IF s = {} THEN 0 ELSE f[Chosen(s)] + h[Rest(s)]
  BY DEF Sums
<1> QED
  BY <1>1, ChosenIsIn

LEMMA SumOfNone ==
  ASSUME NEW S, NEW f, NEW h, Sums(h, f, S)
  PROVE  h[{}] = 0
<1>1. {} \in SUBSET S
  OBVIOUS
<1> QED
  BY <1>1, SumsAt

\* Two of them agree where both are defined.
LEMMA SumsAgree ==
  ASSUME NEW S, IsFiniteSet(S), NEW T, NEW f, NEW g, NEW h, Sums(g, f, S), Sums(h, f, T)
  PROVE  \A s \in SUBSET (S \cap T) : g[s] = h[s]
<1> DEFINE Bad == {s \in SUBSET (S \cap T) : g[s] # h[s]}
<1>1. ASSUME Bad # {} PROVE FALSE
  <2>1. Bad \in SUBSET SUBSET S
    OBVIOUS
  <2> HIDE DEF Bad
  <2>2. PICK s \in Bad : \A t \in Bad : t \subseteq s => t = s
    BY <1>1, <2>1, SmallestSubset
  <2>3. s \in SUBSET S /\ s \in SUBSET T /\ g[s] # h[s]
    BY DEF Bad
  <2>4. s # {}
    BY <2>3, SumsAt
  <2>5. Rest(s) \notin Bad /\ Rest(s) \in SUBSET (S \cap T)
    BY <2>2, <2>3, <2>4, ChosenIsIn
  <2>6. g[Rest(s)] = h[Rest(s)]
    BY <2>5 DEF Bad
  <2>7. g[s] = f[Chosen(s)] + g[Rest(s)]
    BY <2>3, <2>4, SumsAt
  <2>8. h[s] = f[Chosen(s)] + h[Rest(s)]
    BY <2>3, <2>4, SumsAt
  <2> QED
    BY <2>3, <2>6, <2>7, <2>8
<1> QED
  BY <1>1

\* There is one for every finite set.
LEMMA SumsExist ==
  ASSUME NEW S, IsFiniteSet(S), NEW f
  PROVE  \E h : Sums(h, f, S)
<1> DEFINE Bad == {s \in SUBSET S : ~ \E h : Sums(h, f, s)}
<1>1. ASSUME Bad # {} PROVE FALSE
  <2>1. Bad \in SUBSET SUBSET S
    OBVIOUS
  <2>2. PICK s \in Bad : \A t \in Bad : t \subseteq s => t = s
    <3> HIDE DEF Bad
    <3> QED
      BY <1>1, <2>1, SmallestSubset
  <2>3. s \in SUBSET S /\ ~ \E h : Sums(h, f, s)
    OBVIOUS
  <2> DEFINE G(t) == CHOOSE h : Sums(h, f, t)
  <2>4. \A t \in SUBSET s : t # s => Sums(G(t), f, t)
    <3>1. \A t \in SUBSET s : t # s => \E h : Sums(h, f, t)
      BY <2>2, <2>3
    <3> QED
      BY <3>1
  <2> HIDE DEF G, Bad
  <2> DEFINE h == [t \in SUBSET s |-> IF t = {} THEN 0 ELSE f[Chosen(t)] + G(Rest(t))[Rest(t)]]
  <2>5. ASSUME NEW t \in SUBSET s, t # s PROVE h[t] = G(t)[t]
    <3>1. CASE t = {}
      BY <2>4, <2>5, <3>1, SumsAt
    <3>2. CASE t # {}
      <4>1. Rest(t) \in SUBSET t /\ Rest(t) \in SUBSET s /\ Rest(t) # s
        BY <2>5, <3>2, ChosenIsIn
      <4>2. Sums(G(t), f, t) /\ Sums(G(Rest(t)), f, Rest(t))
        BY <2>4, <2>5, <4>1
      <4>3. IsFiniteSet(t)
        BY <2>3, FS_Subset
      <4>4. G(t)[Rest(t)] = G(Rest(t))[Rest(t)]
        <5>1. Rest(t) \in SUBSET (t \cap Rest(t))
          BY <4>1
        <5> QED
          BY <4>2, <4>3, <5>1, SumsAgree
      <4>5. G(t)[t] = f[Chosen(t)] + G(t)[Rest(t)]
        BY <3>2, <4>2, SumsAt
      <4>6. h[t] = f[Chosen(t)] + G(Rest(t))[Rest(t)]
        BY <3>2
      <4> QED
        BY <4>4, <4>5, <4>6
    <3> QED
      BY <3>1, <3>2
  <2>6. ASSUME NEW t \in SUBSET s, t # {} PROVE h[Rest(t)] = G(Rest(t))[Rest(t)]
    <3>1. Rest(t) \in SUBSET s /\ Rest(t) # s
      BY <2>6, ChosenIsIn
    <3> QED
      BY <2>5, <3>1
  <2>7. Sums(h, f, s)
    <3>1. h = [t \in SUBSET s |-> IF t = {} THEN 0 ELSE f[Chosen(t)] + h[Rest(t)]]
      BY <2>6
    <3> QED
      BY <3>1 DEF Sums
  <2> QED
    BY <2>3, <2>7
<1> QED
  BY <1>1

LEMMA SumsType ==
  ASSUME NEW S, IsFiniteSet(S), NEW f \in [S -> Int], NEW h, Sums(h, f, S)
  PROVE  \A s \in SUBSET S : h[s] \in Int
<1> DEFINE Bad == {s \in SUBSET S : h[s] \notin Int}
<1>1. ASSUME Bad # {} PROVE FALSE
  <2>1. Bad \in SUBSET SUBSET S
    OBVIOUS
  <2> HIDE DEF Bad
  <2>2. PICK s \in Bad : \A t \in Bad : t \subseteq s => t = s
    BY <1>1, <2>1, SmallestSubset
  <2>3. s \in SUBSET S /\ h[s] \notin Int
    BY DEF Bad
  <2>4. s # {}
    <3>1. ASSUME s = {} PROVE FALSE
      <4>1. h[{}] = 0
        BY SumOfNone
      <4>2. h[s] \in Int
        BY <3>1, <4>1
      <4> QED
        BY <2>3, <4>2
    <3> QED
      BY <3>1
  <2>5. h[s] = f[Chosen(s)] + h[Rest(s)] /\ Rest(s) \in SUBSET S /\ Chosen(s) \in S
    BY <2>3, <2>4, SumsAt
  <2>6. h[Rest(s)] \in Int
    BY <2>2, <2>4, <2>5, ChosenIsIn DEF Bad
  <2> QED
    BY <2>3, <2>5, <2>6
<1> QED
  BY <1>1

\* One value changes: the sums over the sets with that element change by as much.
LEMMA SumsMove ==
  ASSUME NEW S, IsFiniteSet(S), NEW a \in S, NEW f \in [S -> Int], NEW g \in [S -> Int],
         \A b \in S \ {a} : g[b] = f[b],
         NEW h, NEW k, Sums(h, f, S), Sums(k, g, S)
  PROVE  \A s \in SUBSET S : k[s] = h[s] + (IF a \in s THEN g[a] - f[a] ELSE 0)
<1> DEFINE Bad == {s \in SUBSET S : k[s] # h[s] + (IF a \in s THEN g[a] - f[a] ELSE 0)}
<1>1. ASSUME Bad # {} PROVE FALSE
  <2>1. Bad \in SUBSET SUBSET S
    OBVIOUS
  <2> HIDE DEF Bad
  <2>2. PICK s \in Bad : \A t \in Bad : t \subseteq s => t = s
    BY <1>1, <2>1, SmallestSubset
  <2>3. s \in SUBSET S /\ k[s] # h[s] + (IF a \in s THEN g[a] - f[a] ELSE 0)
    BY DEF Bad
  <2>4. s # {}
    <3>1. ASSUME s = {} PROVE FALSE
      <4>0. h[{}] = 0 /\ k[{}] = 0
        BY SumOfNone
      <4>1. h[s] = 0
        BY <3>1, <4>0
      <4>2. k[s] = 0
        BY <3>1, <4>0
      <4>3. (IF a \in s THEN g[a] - f[a] ELSE 0) = 0
        BY <3>1
      <4>4. h[s] + (IF a \in s THEN g[a] - f[a] ELSE 0) = 0
        BY <4>1, <4>3
      <4> QED
        BY <2>3, <4>2, <4>4
    <3> QED
      BY <3>1
  <2>5. /\ h[s] = f[Chosen(s)] + h[Rest(s)] /\ k[s] = g[Chosen(s)] + k[Rest(s)]
        /\ Rest(s) \in SUBSET S /\ Chosen(s) \in S
    <3>1. s \in SUBSET S
      BY <2>3
    <3>2. h[s] = f[Chosen(s)] + h[Rest(s)] /\ Rest(s) \in SUBSET S /\ Chosen(s) \in S
      BY <2>4, <3>1, SumsAt
    <3>3. k[s] = g[Chosen(s)] + k[Rest(s)]
      BY <2>4, <3>1, SumsAt
    <3> QED
      BY <3>2, <3>3
  <2>6. k[Rest(s)] = h[Rest(s)] + (IF a \in Rest(s) THEN g[a] - f[a] ELSE 0)
    BY <2>2, <2>4, <2>5, ChosenIsIn DEF Bad
  <2>7. /\ h[Rest(s)] \in Int /\ f[Chosen(s)] \in Int /\ g[Chosen(s)] \in Int
        /\ f[a] \in Int /\ g[a] \in Int
    BY <2>5, SumsType
  <2>8. CASE Chosen(s) = a
    <3>1. a \in s /\ a \notin Rest(s)
      BY <2>4, <2>8, ChosenIsIn DEF Rest
    <3>2. k[Rest(s)] = h[Rest(s)]
      BY <2>6, <2>7, <3>1
    <3>3. k[s] = h[s] + (g[a] - f[a])
      BY <2>5, <2>7, <2>8, <3>2
    <3> QED
      BY <2>3, <3>1, <3>3
  <2>9. CASE Chosen(s) # a
    <3>1. a \in s <=> a \in Rest(s)
      BY <2>9 DEF Rest
    <3>2. g[Chosen(s)] = f[Chosen(s)]
      BY <2>5, <2>9
    <3> DEFINE d == IF a \in s THEN g[a] - f[a] ELSE 0
    <3>3. k[Rest(s)] = h[Rest(s)] + d /\ d \in Int
      BY <2>6, <2>7, <3>1
    <3>4. k[s] # h[s] + d
      BY <2>3
    <3> HIDE DEF d
    <3> QED
      BY <2>5, <2>7, <3>2, <3>3, <3>4
  <2> QED
    BY <2>8, <2>9
<1> QED
  BY <1>1

\* The sum over all assets.
Total(f) == (CHOOSE h : Sums(h, f, Assets))[Assets]

LEMMA TotalMoves ==
  ASSUME NEW a \in Assets, NEW f \in [Assets -> Int], NEW g \in [Assets -> Int],
         \A b \in Assets \ {a} : g[b] = f[b]
  PROVE  Total(f) \in Int /\ Total(g) = Total(f) + g[a] - f[a]
<1> DEFINE h == CHOOSE h : Sums(h, f, Assets)
           k == CHOOSE k : Sums(k, g, Assets)
<1>1. Sums(h, f, Assets) /\ Sums(k, g, Assets)
  <2>1. \E x : Sums(x, f, Assets)
    BY AssetsAssumption, SumsExist
  <2>2. \E x : Sums(x, g, Assets)
    BY AssetsAssumption, SumsExist
  <2> QED
    BY <2>1, <2>2
<1>2. Total(f) = h[Assets] /\ Total(g) = k[Assets]
  BY DEF Total
<1> HIDE DEF h, k
<1>3. h[Assets] \in Int
  BY <1>1, AssetsAssumption, SumsType
<1>4. k[Assets] = h[Assets] + (IF a \in Assets THEN g[a] - f[a] ELSE 0)
  BY <1>1, AssetsAssumption, SumsMove
<1>5. f[a] \in Int /\ g[a] \in Int
  OBVIOUS
<1> QED
  BY <1>2, <1>3, <1>4, <1>5

LEMMA TotalIsInt == \A f \in [Assets -> Int] : Total(f) \in Int
<1> SUFFICES ASSUME NEW f \in [Assets -> Int] PROVE Total(f) \in Int
  OBVIOUS
<1>1. Sums(CHOOSE h : Sums(h, f, Assets), f, Assets)
  <2>1. \E x : Sums(x, f, Assets)
    BY AssetsAssumption, SumsExist
  <2> QED
    BY <2>1
<1> QED
  BY <1>1, AssetsAssumption, SumsType DEF Total

\* A sum of natural numbers is one.
LEMMA SumsNat ==
  ASSUME NEW S, IsFiniteSet(S), NEW f \in [S -> Nat], NEW h, Sums(h, f, S)
  PROVE  \A s \in SUBSET S : h[s] \in Nat
<1> DEFINE Bad == {s \in SUBSET S : h[s] \notin Nat}
<1>1. ASSUME Bad # {} PROVE FALSE
  <2>1. Bad \in SUBSET SUBSET S
    OBVIOUS
  <2> HIDE DEF Bad
  <2>2. PICK s \in Bad : \A t \in Bad : t \subseteq s => t = s
    BY <1>1, <2>1, SmallestSubset
  <2>3. s \in SUBSET S /\ h[s] \notin Nat
    BY DEF Bad
  <2>4. s # {}
    <3>1. h[{}] = 0
      BY SumOfNone
    <3> QED
      BY <2>3, <3>1
  <2>5. h[s] = f[Chosen(s)] + h[Rest(s)] /\ Rest(s) \in SUBSET S /\ Chosen(s) \in S
    BY <2>3, <2>4, SumsAt
  <2>6. h[Rest(s)] \in Nat
    BY <2>2, <2>4, <2>5, ChosenIsIn DEF Bad
  <2> QED
    BY <2>3, <2>5, <2>6
<1> QED
  BY <1>1

\* It is at least each of its terms.
LEMMA TotalCovers ==
  ASSUME NEW f \in [Assets -> Nat], NEW a \in Assets
  PROVE  Total(f) \in Nat /\ f[a] \in Nat /\ f[a] <= Total(f)
<1>1. ASSUME NEW g \in [Assets -> Nat] PROVE Total(g) \in Nat
  <2>1. Sums(CHOOSE h : Sums(h, g, Assets), g, Assets)
    <3>1. \E x : Sums(x, g, Assets)
      BY AssetsAssumption, SumsExist
    <3> QED
      BY <3>1
  <2> QED
    BY <2>1, AssetsAssumption, SumsNat DEF Total
<1> DEFINE g == [f EXCEPT ![a] = 0]
<1>2. /\ g \in [Assets -> Nat] /\ g[a] = 0 /\ \A b \in Assets \ {a} : g[b] = f[b]
      /\ f \in [Assets -> Int] /\ g \in [Assets -> Int]
  OBVIOUS
<1> HIDE DEF g
<1>3. Total(g) = Total(f) + g[a] - f[a]
  BY <1>2, TotalMoves
<1>4. Total(g) \in Nat /\ Total(f) \in Nat
  BY <1>1, <1>2
<1> QED
  BY <1>2, <1>3, <1>4

LEMMA TotalOfNothing ==
  ASSUME NEW f, \A a \in Assets : f[a] = 0
  PROVE  Total(f) = 0
<1> DEFINE h == CHOOSE h : Sums(h, f, Assets)
           Bad == {s \in SUBSET Assets : h[s] # 0}
<1>1. Sums(h, f, Assets)
  <2>1. \E x : Sums(x, f, Assets)
    BY AssetsAssumption, SumsExist
  <2> QED
    BY <2>1
<1>2. Total(f) = h[Assets]
  BY DEF Total
<1> HIDE DEF h
<1>3. ASSUME Bad # {} PROVE FALSE
  <2>1. Bad \in SUBSET SUBSET Assets
    OBVIOUS
  <2> HIDE DEF Bad
  <2>2. PICK s \in Bad : \A t \in Bad : t \subseteq s => t = s
    BY <1>3, <2>1, AssetsAssumption, SmallestSubset
  <2>3. s \in SUBSET Assets /\ h[s] # 0
    BY DEF Bad
  <2>4. s # {}
    BY <1>1, <2>3, SumsAt
  <2>5. h[s] = f[Chosen(s)] + h[Rest(s)] /\ Rest(s) \in SUBSET Assets /\ Chosen(s) \in Assets
    BY <1>1, <2>3, <2>4, SumsAt
  <2>6. h[Rest(s)] = 0
    BY <2>2, <2>4, <2>5, ChosenIsIn DEF Bad
  <2> QED
    BY <2>3, <2>5, <2>6
<1> QED
  BY <1>2, <1>3

-----------------------------------------------------------------------------
(* The sums of the rows                                                       *)

Reserved == [a \in Assets |-> asset[a].reserved]
Actual   == [a \in Assets |-> asset[a].actual]

BooksOK ==
  /\ usage.reserved = Total(Reserved)
  /\ others + Total(Actual) <= usage.stored
  /\ others + Total(Actual) # usage.stored => \E a \in Assets : ~Unstalled(a)

WithinLimit == usage.stored + usage.reserved <= Limit

\* The sums of the invariant are those of the rows.
LEMMA QuotaIsTheSum ==
  QuotaAddsUp <=> BooksOK /\ WithinLimit
<1> DEFINE R(h) == h = [s \in SUBSET Assets |-> IF s = {} THEN 0
                                 ELSE asset[CHOOSE x \in s : TRUE].reserved + h[s \ {CHOOSE x \in s : TRUE}]]
           A(h) == h = [s \in SUBSET Assets |-> IF s = {} THEN 0
                                 ELSE asset[CHOOSE x \in s : TRUE].actual + h[s \ {CHOOSE x \in s : TRUE}]]
<1>1. QuotaAddsUp <=> /\ usage.reserved = (CHOOSE h : R(h))[Assets]
                      /\ others + (CHOOSE h : A(h))[Assets] <= usage.stored
                      /\ others + (CHOOSE h : A(h))[Assets] # usage.stored
                           => \E a \in Assets : <<"lease", a>> \in mishaps
                      /\ usage.stored + usage.reserved <= Limit
  BY DEF QuotaAddsUp, MapThenSumSet, MapThenFoldSet
<1>2. \A s \in SUBSET Assets : s # {} => (CHOOSE x \in s : TRUE) \in Assets
  OBVIOUS
<1>3. ASSUME NEW h PROVE R(h) <=> Sums(h, Reserved, Assets)
  BY <1>2 DEF Sums, Reserved, Chosen, Rest
<1>4. ASSUME NEW h PROVE A(h) <=> Sums(h, Actual, Assets)
  BY <1>2 DEF Sums, Actual, Chosen, Rest
<1> HIDE DEF R, A
<1>5. ASSUME NEW f PROVE Sums(CHOOSE h : Sums(h, f, Assets), f, Assets)
  <2>1. \E h : Sums(h, f, Assets)
    BY AssetsAssumption, SumsExist
  <2> QED
    BY <2>1
<1>6. (CHOOSE h : R(h))[Assets] = Total(Reserved)
  <2>1. R(CHOOSE h : R(h))
    BY <1>3, <1>5
  <2>2. Sums(CHOOSE h : R(h), Reserved, Assets)
    BY <1>3, <2>1
  <2>3. Assets \in SUBSET (Assets \cap Assets)
    OBVIOUS
  <2> QED
    BY <1>5, <2>2, <2>3, AssetsAssumption, SumsAgree DEF Total
<1>7. (CHOOSE h : A(h))[Assets] = Total(Actual)
  <2>1. A(CHOOSE h : A(h))
    BY <1>4, <1>5
  <2>2. Sums(CHOOSE h : A(h), Actual, Assets)
    BY <1>4, <2>1
  <2>3. Assets \in SUBSET (Assets \cap Assets)
    OBVIOUS
  <2> QED
    BY <1>5, <2>2, <2>3, AssetsAssumption, SumsAgree DEF Total
<1> QED
  BY <1>1, <1>6, <1>7 DEF BooksOK, WithinLimit, Unstalled

-----------------------------------------------------------------------------
(* Only a conversion that is over finds its asset ready                       *)

Busy == {"starting", "marking", "reading", "writing", "committing"}

ReadyIsOver(w) ==
  Running(w) /\ Unstalled(Asset(w)) /\ asset[Asset(w)].processing = "ready" => worker[w].stage \notin Busy

\* Who is busy after a step was so before, or has just read its row.
LEMMA BusyBefore ==
  ASSUME TypeOK, WorkersOK, [MediaNext]_mediaVars, NEW v \in Workers, worker'[v].stage \in Busy
  PROVE  \/ worker[v].stage \in Busy /\ worker'[v].job = worker[v].job
         \/ ReadsAsset(v) /\ worker'[v].job = worker[v].job
<1> SUFFICES ASSUME worker'[v] # worker[v]
             PROVE  \/ worker[v].stage \in Busy /\ worker'[v].job = worker[v].job
                    \/ ReadsAsset(v) /\ worker'[v].job = worker[v].job
  OBVIOUS
<1>1. ASSUME NEW w \in Workers, Running(w), NEW stage, WorkerBecomes(w, stage) PROVE w = v /\ stage \in Busy
  BY <1>1 DEF WorkerBecomes
<1>2. PICK w \in Workers : Works(w) \/ GivesUp(w) \/ Stalls(w) \/ Renews(w) \/ WorkerCrash(w)
  <2>1. \A a \in Assets : ~(Asks(a) \/ Receives(a) \/ Overdue(a) \/ sweep(a) \/ ApiCrash(a))
    BY DEF Asks, intent, Claims, remove, removeMember, requestAccountDeletion, Receives, WritesOriginal, Received,
           DeletesOriginal, AwaitsAgain, Overdue, sweep, ApiCrash
  <2>2. \A a \in Assets : ~(Starts(a) \/ Replays(a) \/ StartFails(a))
    BY DEF Starts, Replays, StartsAgain, ReadsRow, DeletesRecorded, Expires, StartFails
  <2>3. ~OthersUse /\ ~UNCHANGED mediaVars
    BY DEF OthersUse, mediaVars
  <2> QED
    BY <2>1, <2>2, <2>3 DEF MediaNext
<1>3. CASE ReadsAsset(w)
  BY <1>1, <1>3, ReadsAssetEffect DEF WorkerBecomes
<1>4. CASE ChecksScope(w) \/ Marks(w) \/ Converts(w) \/ WritesDisplay(w)
  BY <1>1, <1>4, ChecksScopeEffect, MarksEffect, ConvertsEffect, WritesDisplayEffect DEF WorkerBecomes, Busy
<1>5. CASE Commits(w)
  BY <1>1, <1>5, CommitsEffect DEF WorkerBecomes, Busy
<1>6. CASE ClearsDisplay(w) \/ Judges(w) \/ DeletesFiles(w) \/ release(w) \/ GivesUp(w)
  <2>1. \E stage \in Stages \ Busy : Running(w) /\ WorkerBecomes(w, stage)
    BY <1>6, ClearsDisplayEffect, JudgesEffect, DeletesFilesEffect, ReleaseEffect, GivesUpEffect
       DEF Stages, MediaStages, DeleteStages, Early, Busy
  <2> QED
    BY <1>1, <2>1
<1>7. CASE lease(w)
  <2>1. /\ \A u \in Workers \ {w} : worker'[u] = worker[u]
        /\ worker'[w].stage = "leased"
    BY <1>7, LeaseEffect
  <2> QED
    BY <2>1 DEF Busy
<1>8. CASE Settles(w) \/ WorkerCrash(w)
  <2>1. /\ \A u \in Workers \ {w} : worker'[u] = worker[u]
        /\ worker'[w] = Idle \/ worker'[w] = Gone
    BY <1>8, SettlesEffect, WorkerCrashEffect DEF WorkerStops
  <2> QED
    BY <2>1 DEF Busy, Idle, Gone
<1>9. CASE Stalls(w) \/ Renews(w)
  BY <1>9 DEF Stalls, Renews
<1> QED
  BY <1>2, <1>3, <1>4, <1>5, <1>6, <1>7, <1>8, <1>9 DEF Works, Runs

\* The row of an asset is in one of these states after a step, the other rows are as before.
RowIn(b, states) == (\A c \in Assets \ {b} : asset'[c] = asset[c]) /\ asset'[b].processing \in states

LEMMA RowsIn ==
  ASSUME TypeOK, NEW b \in Assets
  PROVE  /\ intent(b) => RowIn(b, {"awaiting_upload"})
         /\ Claims(b) => RowIn(b, {"receiving"})
         /\ remove(b) => RowIn(b, {asset[b].processing})
         /\ removeMember(b) => RowIn(b, {"expired", asset[b].processing})
         /\ requestAccountDeletion(b) => RowIn(b, {asset[b].processing})
         /\ Overdue(b) => RowIn(b, {asset[b].processing})
         /\ sweep(b) => RowIn(b, {"expired"})
         /\ Received(b) => RowIn(b, {"uploaded", asset[b].processing})
         /\ AwaitsAgain(b) => RowIn(b, {"awaiting_upload", asset[b].processing})
         /\ Expires(b) => RowIn(b, {"expired"})
<1>1. intent(b) => RowIn(b, {"awaiting_upload"})
  BY IntentEffect DEF RowIn, RowBecomes
<1>2. Claims(b) => RowIn(b, {"receiving"})
  BY ClaimsEffect DEF RowIn, RowBecomes
<1>3. remove(b) => RowIn(b, {asset[b].processing})
  BY RemoveEffect DEF RowIn, RowBecomes
<1>4. removeMember(b) => RowIn(b, {"expired", asset[b].processing})
  BY RemoveMemberEffect DEF RowIn, RowBecomes
<1>5. requestAccountDeletion(b) => RowIn(b, {asset[b].processing})
  BY AccountEffect DEF RowIn, RowBecomes
<1>6. Overdue(b) => RowIn(b, {asset[b].processing})
  BY OverdueEffect DEF RowIn, RowBecomes
<1>7. sweep(b) => RowIn(b, {"expired"})
  BY SweepEffect DEF RowIn, RowBecomes
<1>8. Received(b) => RowIn(b, {"uploaded", asset[b].processing})
  BY ReceivedEffect DEF RowIn, RowBecomes
<1>9. AwaitsAgain(b) => RowIn(b, {"awaiting_upload", asset[b].processing})
  BY AwaitsAgainEffect DEF RowIn, RowBecomes
<1>10. Expires(b) => RowIn(b, {"expired"})
  BY ExpiresEffect DEF RowIn, RowBecomes
<1> QED
  BY <1>1, <1>2, <1>3, <1>4, <1>5, <1>6, <1>7, <1>8, <1>9, <1>10

\* What is ready after a step was so before, or has just been committed.
LEMMA ReadyBefore ==
  ASSUME TypeOK, [MediaNext]_mediaVars, NEW a \in Assets, asset'[a].processing = "ready"
  PROVE  asset[a].processing = "ready" \/ \E w \in Workers : Commits(w) /\ Asset(w) = a
<1> SUFFICES ASSUME asset'[a] # asset[a], asset[a].processing # "ready"
             PROVE  \E w \in Workers : Commits(w) /\ Asset(w) = a
  OBVIOUS
<1>1. ASSUME NEW b \in Assets, NEW states, RowIn(b, states)  PROVE b = a /\ "ready" \in states
  BY <1>1 DEF RowIn
<1>9. ASSUME NEW b \in Assets, RowIn(b, {asset[b].processing}) PROVE FALSE
  <2>1. b = a /\ "ready" \in {asset[b].processing}
    BY ONLY <1>1, <1>9, b \in Assets
  <2> QED
    BY <2>1
<1>2. ASSUME NEW b \in Assets PROVE ~Asks(b) /\ ~Overdue(b) /\ ~sweep(b)
  <2>1. ~intent(b)
    BY <1>1, RowsIn
  <2>2. ~Claims(b)
    BY <1>1, RowsIn
  <2>3. ~remove(b)
    BY <1>9, RowsIn
  <2>4. ~removeMember(b)
    BY <1>1, RowsIn
  <2>5. ~requestAccountDeletion(b)
    BY <1>9, RowsIn
  <2>6. ~Overdue(b)
    BY <1>9, RowsIn
  <2>7. ~sweep(b)
    BY <1>1, RowsIn
  <2> QED
    BY <2>1, <2>2, <2>3, <2>4, <2>5, <2>6, <2>7 DEF Asks
<1>3. ASSUME NEW b \in Assets PROVE ~Receives(b) /\ ~ApiCrash(b) /\ ~Starts(b) /\ ~Replays(b) /\ ~StartFails(b)
  <2>1. ~Received(b)
    BY <1>1, RowsIn
  <2>2. ~AwaitsAgain(b)
    BY <1>1, RowsIn
  <2>3. ~Expires(b)
    BY <1>1, RowsIn
  <2>4. ~WritesOriginal(b) /\ ~DeletesOriginal(b) /\ ~ApiCrash(b) /\ ~Starts(b) /\ ~StartsAgain(b)
        /\ ~DeletesRecorded(b) /\ ~StartFails(b)
    BY DEF WritesOriginal, DeletesOriginal, ApiCrash, Starts, StartsAgain, ReadsRow, DeletesRecorded, StartFails
  <2> QED
    BY <2>1, <2>2, <2>3, <2>4 DEF Receives, Replays
<1>4. ASSUME NEW w \in Workers
      PROVE  /\ ~lease(w) /\ ~ReadsAsset(w) /\ ~ChecksScope(w) /\ ~Converts(w) /\ ~WritesDisplay(w)
             /\ ~ClearsDisplay(w) /\ ~Judges(w) /\ ~DeletesFiles(w) /\ ~Settles(w) /\ ~GivesUp(w)
             /\ ~Stalls(w) /\ ~Renews(w) /\ ~WorkerCrash(w)
  BY DEF lease, ReadsAsset, ChecksScope, Converts, WritesDisplay, ClearsDisplay, Judges, DeletesFiles, Settles,
         GivesUp, Stalls, Renews, WorkerCrash
<1>5. ASSUME NEW w \in Workers, Marks(w) PROVE FALSE
  <2>1. Asset(w) \in Assets
    BY <1>5, MarksEffect, TaskOf
  <2>2. RowIn(Asset(w), {"processing"})
    BY <1>5, MarksEffect DEF RowIn, RowBecomes
  <2> QED
    BY <1>1, <2>1, <2>2
<1>6. ASSUME NEW w \in Workers, release(w) PROVE FALSE
  <2>1. Asset(w) \in Assets /\ worker[w].stage # "ready"
    BY <1>6, ReleaseEffect, TaskOf DEF release
  <2>2. RowIn(Asset(w), {worker[w].stage})
    BY <1>6, ReleaseEffect DEF RowIn, RowBecomes
  <2> QED
    BY <1>1, <2>1, <2>2
<1>7. ASSUME NEW w \in Workers, Commits(w) PROVE Asset(w) = a
  <2>1. Asset(w) \in Assets
    BY <1>7, CommitsEffect, TaskOf
  <2>2. \A c \in Assets \ {Asset(w)} : asset'[c] = asset[c]
    BY <1>7, CommitsEffect DEF RowBecomes
  <2> QED
    BY <2>1, <2>2
<1>8. ~OthersUse /\ ~UNCHANGED mediaVars
  BY DEF OthersUse, mediaVars
<1> QED
  BY <1>2, <1>3, <1>4, <1>5, <1>6, <1>7, <1>8 DEF MediaNext, Works, Runs

LEMMA OverStep ==
  ASSUME TypeOK, WorkersOK, \A w \in Workers : ReadyIsOver(w), [MediaNext]_mediaVars
  PROVE  \A w \in Workers : ReadyIsOver(w)'
<1> SUFFICES ASSUME NEW v \in Workers, Unstalled(Asset(v))', asset'[Asset(v)'].processing = "ready",
                    worker'[v].stage \in Busy
             PROVE  FALSE
  BY DEF ReadyIsOver
<1>1. CASE ReadsAsset(v) /\ worker'[v].job = worker[v].job
  <2>1. UNCHANGED asset /\ Asset(v)' = Asset(v)
    BY <1>1, ReadsAssetEffect DEF Asset
  <2>2. worker'[v].stage = "starting" => asset[Asset(v)].processing # "ready"
    BY <1>1, ReadsAssetEffect DEF WorkerBecomes
  <2>3. worker'[v].stage = "starting"
    BY <1>1, ReadsAssetEffect DEF WorkerBecomes, Busy
  <2> QED
    BY <2>1, <2>2, <2>3
<1>2. CASE worker[v].stage \in Busy /\ worker'[v].job = worker[v].job
  <2>1. Running(v) /\ Asset(v)' = Asset(v) /\ Unstalled(Asset(v))
    BY <1>2, HistoryGrows DEF Running, Busy, Asset, Unstalled
  <2>2. Asset(v) \in Assets /\ asset[Asset(v)].processing # "ready"
    BY <1>2, <2>1, TaskOf DEF ReadyIsOver
  <2>3. PICK w \in Workers : Commits(w) /\ Asset(w) = Asset(v)
    BY <2>1, <2>2, ReadyBefore
  <2>4. Running(w) /\ worker[w].stage = "committing" /\ worker'[w].stage \notin Busy
    BY <2>3, CommitsEffect DEF WorkerBecomes, Busy
  <2>5. worker[v].job[1] = "media" /\ worker[w].job[1] = "media"
    <3>1. \A u \in Workers : Running(u) /\ worker[u].stage \in Busy => worker[u].job[1] = "media"
      BY DEF WorkersOK, StageFits, DeleteStages, Busy
    <3> QED
      BY <1>2, <2>1, <2>4, <3>1 DEF Busy
  <2>6. worker[v].job = worker[w].job
    BY <2>1, <2>3, <2>4, <2>5, TaskOf
  <2> QED
    BY <2>1, <2>3, <2>4, <2>6 DEF WorkersOK, RunsAlone
<1> QED
  BY <1>1, <1>2, BusyBefore

-----------------------------------------------------------------------------
(* What a step does to the rows' entries                                      *)

\* Only a ready asset takes up space, unless a lease ran out under its worker, and what was
\* not begun reserves none.
EntryOK(a) ==
  /\ Unstalled(a) /\ asset[a].processing # "ready" => asset[a].actual = 0
  /\ asset[a].processing = "none" => asset[a].reserved = 0

Books == BooksOK /\ \A a \in Assets : EntryOK(a)

EntryBecomes(a, processing, reserved, actual) ==
  /\ \A b \in Assets \ {a} : asset'[b] = asset[b]
  /\ asset'[a].processing = processing /\ asset'[a].reserved = reserved /\ asset'[a].actual = actual

LEMMA EntryTypes == TypeOK => /\ Reserved \in [Assets -> Int] /\ Actual \in [Assets -> Int]
                              /\ usage.stored \in Int /\ usage.reserved \in Int /\ others \in Int
                              /\ \A a \in Assets : asset[a] \in Rows /\ asset[a].reserved \in Int /\ asset[a].actual \in Int
  BY DEF TypeOK, Reserved, Actual, Rows, Usages

LEMMA StalledStays ==
  ASSUME mishaps \subseteq mishaps'
  PROVE  \A a \in Assets : Unstalled(a)' => Unstalled(a)
  BY DEF Unstalled

\* The entries of one asset change, and the counters with them; without a lost lease by as much.
LEMMA EntryChanges ==
  ASSUME TypeOK, TypeOK', Books, mishaps \subseteq mishaps',
         NEW a \in Assets, NEW processing, NEW reserved, NEW actual,
         EntryBecomes(a, processing, reserved, actual),
         Unstalled(a)' /\ processing # "ready" => actual = 0, processing = "none" => reserved = 0,
         usage'.reserved = usage.reserved + reserved - asset[a].reserved,
         usage'.stored >= usage.stored + actual - asset[a].actual,
         Unstalled(a)' => usage'.stored = usage.stored + actual - asset[a].actual, others' = others
  PROVE  Books'
<1>1. /\ Reserved \in [Assets -> Int] /\ Actual \in [Assets -> Int]
      /\ Reserved' \in [Assets -> Int] /\ Actual' \in [Assets -> Int]
  BY EntryTypes DEF TypeOK, Reserved, Actual, Rows
<1>2. \A b \in Assets \ {a} : Reserved'[b] = Reserved[b] /\ Actual'[b] = Actual[b]
  BY DEF EntryBecomes, Reserved, Actual
<1>3. /\ Reserved'[a] = reserved /\ Actual'[a] = actual
      /\ Reserved[a] = asset[a].reserved /\ Actual[a] = asset[a].actual
  BY DEF EntryBecomes, Reserved, Actual
<1>4. /\ Total(Reserved) \in Int /\ Total(Actual) \in Int
      /\ Total(Reserved') = Total(Reserved) + Reserved'[a] - Reserved[a]
      /\ Total(Actual') = Total(Actual) + Actual'[a] - Actual[a]
  BY <1>1, <1>2, TotalMoves
<1>5. /\ reserved \in Int /\ actual \in Int /\ asset[a].reserved \in Int /\ asset[a].actual \in Int
      /\ usage.stored \in Int /\ usage'.stored \in Int /\ others \in Int
  BY <1>1, <1>3, EntryTypes DEF TypeOK, Usages
<1>6. usage.reserved = Total(Reserved) /\ others + Total(Actual) <= usage.stored
  BY DEF Books, BooksOK
<1>7. usage'.reserved = Total(Reserved') /\ others' + Total(Actual') <= usage'.stored
  BY <1>3, <1>4, <1>5, <1>6
<1>8. ASSUME \A b \in Assets : Unstalled(b)' PROVE others' + Total(Actual') = usage'.stored
  <2>1. others + Total(Actual) = usage.stored
    BY <1>8, StalledStays DEF Books, BooksOK
  <2>2. usage'.stored = usage.stored + actual - asset[a].actual
    BY <1>8
  <2> QED
    BY <1>3, <1>4, <1>5, <2>1, <2>2
<1>9. BooksOK'
  BY <1>7, <1>8 DEF BooksOK
<1>10. \A b \in Assets : EntryOK(b)'
  BY StalledStays DEF Books, EntryOK, EntryBecomes
<1> QED
  BY <1>9, <1>10 DEF Books

\* Nothing in the books changes.
LEMMA EntriesStay ==
  ASSUME Books, mishaps \subseteq mishaps', NEW a \in Assets, NEW processing,
         EntryBecomes(a, processing, asset[a].reserved, asset[a].actual),
         Unstalled(a) /\ processing # "ready" => asset[a].processing # "ready",
         processing = "none" => asset[a].processing = "none",
         UNCHANGED <<usage, others>>
  PROVE  Books'
<1>1. Reserved' = Reserved /\ Actual' = Actual
  BY DEF EntryBecomes, Reserved, Actual
<1>2. BooksOK'
  BY <1>1, StalledStays DEF Books, BooksOK
<1>3. \A b \in Assets : EntryOK(b)'
  BY StalledStays DEF Books, EntryOK, EntryBecomes
<1> QED
  BY <1>2, <1>3 DEF Books

LEMMA RowsStay ==
  ASSUME Books, UNCHANGED <<asset, usage, others>>, mishaps \subseteq mishaps'
  PROVE  Books'
<1>1. Reserved' = Reserved /\ Actual' = Actual
  BY DEF Reserved, Actual
<1>2. BooksOK'
  BY <1>1, StalledStays DEF Books, BooksOK
<1>3. \A b \in Assets : EntryOK(b)'
  BY StalledStays DEF Books, EntryOK
<1> QED
  BY <1>2, <1>3 DEF Books

LEMMA EntryMoves ==
  ASSUME TypeOK, NEW a \in Assets, NEW processing, Moves(a, processing)
  PROVE  EntryBecomes(a, processing, asset[a].reserved, asset[a].actual)
<1>1. asset[a] \in Rows
  BY EntryTypes
<1>2. asset'[a] = [asset[a] EXCEPT !.processing = processing]
  BY DEF Moves, TypeOK
<1>3. asset'[a].processing = processing /\ asset'[a].reserved = asset[a].reserved /\ asset'[a].actual = asset[a].actual
  BY <1>1, <1>2 DEF Rows
<1>4. \A b \in Assets \ {a} : asset'[b] = asset[b]
  BY DEF Moves, TypeOK
<1> QED
  BY <1>3, <1>4 DEF EntryBecomes

\* The counters cover the entries of each row.
LEMMA CountersCover ==
  ASSUME TypeOK, Books, NEW a \in Assets
  PROVE  asset[a].reserved <= usage.reserved /\ asset[a].actual <= usage.stored
<1>1. /\ Reserved \in [Assets -> Nat] /\ Actual \in [Assets -> Nat] /\ others \in Nat
      /\ usage.stored \in Int /\ Reserved[a] = asset[a].reserved /\ Actual[a] = asset[a].actual
  BY DEF TypeOK, Reserved, Actual, Rows, Usages
<1>2. /\ Reserved[a] <= Total(Reserved)
      /\ Total(Actual) \in Nat /\ Actual[a] \in Nat /\ Actual[a] <= Total(Actual)
  BY <1>1, TotalCovers
<1>3. usage.reserved = Total(Reserved) /\ others + Total(Actual) <= usage.stored
  BY DEF Books, BooksOK
<1> QED
  BY <1>1, <1>2, <1>3

\* So a replay takes off what the row has in the books: it is never cut off at zero.
LEMMA RestoredIsGivenBack ==
  ASSUME TypeOK, Books, NEW a \in Assets
  PROVE  Restored(a) = GivenBack(a)
<1>1. \A n, m \in Int : m <= n => Less(n, m) = n - m
  BY DEF Less
<1>2. /\ usage.stored \in Int /\ usage.reserved \in Int
      /\ asset[a].reserved \in Int /\ asset[a].actual \in Int
  BY EntryTypes
<1>3. Less(usage.stored, asset[a].actual) = usage.stored - asset[a].actual
  BY <1>1, <1>2, CountersCover
<1>4. Less(usage.reserved, asset[a].reserved) = usage.reserved - asset[a].reserved
  BY <1>1, <1>2, CountersCover
<1> QED
  BY <1>3, <1>4 DEF Restored, GivenBack

-----------------------------------------------------------------------------
(* The actions                                                                *)

LEMMA IntentBooks ==
  ASSUME TypeOK, TypeOK', Books, NEW a \in Assets, intent(a)
  PROVE  Books'
<1>1. asset[a] \in Rows /\ asset[a].reserved = 0 /\ (Unstalled(a) => asset[a].actual = 0)
  BY EntryTypes DEF intent, Books, EntryOK
<1>2. EntryBecomes(a, "awaiting_upload", Reservation, asset[a].actual)
  BY <1>1 DEF EntryBecomes, intent, TypeOK, Rows
<1>3. /\ usage'.reserved = usage.reserved + Reservation - asset[a].reserved
      /\ usage'.stored = usage.stored + asset[a].actual - asset[a].actual /\ others' = others
  BY <1>1, EntryTypes DEF intent, TypeOK, Usages, Reservation
<1>4. mishaps' = mishaps /\ (Unstalled(a)' <=> Unstalled(a))
  BY DEF intent, Unstalled
<1>5. usage'.stored >= usage.stored + asset[a].actual - asset[a].actual
  BY <1>3, EntryTypes
<1> QED
  BY <1>1, <1>2, <1>3, <1>4, <1>5, EntryChanges

\* An upload ends unfinished and gives its reservation back.
LEMMA EndsUnfinished ==
  ASSUME TypeOK, TypeOK', Books, NEW a \in Assets, asset[a].processing # "ready", mishaps' = mishaps,
         EntryBecomes(a, "expired", 0, asset[a].actual), usage' = WithoutReservation(a), others' = others
  PROVE  Books'
<1>1. Unstalled(a)' => asset[a].actual = 0
  BY DEF Books, EntryOK, Unstalled
<1>2. /\ usage'.reserved = usage.reserved + 0 - asset[a].reserved
      /\ usage'.stored = usage.stored + asset[a].actual - asset[a].actual
  BY EntryTypes DEF WithoutReservation, TypeOK, Usages
<1>3. usage'.stored >= usage.stored + asset[a].actual - asset[a].actual
  BY <1>2, EntryTypes
<1> QED
  BY <1>1, <1>2, <1>3, EntryChanges

LEMMA SweepBooks ==
  ASSUME TypeOK, TypeOK', Books, NEW a \in Assets, sweep(a)
  PROVE  Books'
<1>1. asset[a].processing # "ready" /\ mishaps' = mishaps
  BY DEF sweep, Unfinished
<1>2. asset[a] \in Rows
  BY EntryTypes
<1>3. EntryBecomes(a, "expired", 0, asset[a].actual)
  BY <1>2 DEF EntryBecomes, sweep, TypeOK, Rows
<1> QED
  BY <1>1, <1>3, EndsUnfinished DEF sweep

LEMMA MemberBooks ==
  ASSUME TypeOK, TypeOK', Books, NEW a \in Assets, removeMember(a)
  PROVE  Books'
<1> DEFINE early == asset[a].processing \in {"awaiting_upload", "receiving", "uploaded", "processing"}
                    /\ ~asset[a].deleted
<1>0. asset[a] \in Rows /\ mishaps' = mishaps
  BY EntryTypes DEF removeMember
<1>1. ASSUME early PROVE Books'
  <2>1. asset[a].processing # "ready"
    BY <1>1
  <2>2. /\ asset' = [asset EXCEPT ![a].processing = "expired", ![a].reserved = 0, ![a].allowed = FALSE]
        /\ usage' = WithoutReservation(a) /\ others' = others
    BY <1>1 DEF removeMember
  <2>3. EntryBecomes(a, "expired", 0, asset[a].actual)
    BY <1>0, <2>2 DEF EntryBecomes, TypeOK, Rows
  <2> QED
    BY <1>0, <2>1, <2>2, <2>3, EndsUnfinished
<1>2. ASSUME ~early PROVE Books'
  <2>1. asset' = [asset EXCEPT ![a].allowed = FALSE] /\ UNCHANGED <<usage, others>>
    BY <1>2 DEF removeMember
  <2>2. EntryBecomes(a, asset[a].processing, asset[a].reserved, asset[a].actual)
    BY <1>0, <2>1 DEF EntryBecomes, TypeOK, Rows
  <2> QED
    BY <1>0, <2>1, <2>2, EntriesStay
<1> QED
  BY <1>1, <1>2

\* The request moves the row on, or leaves it.
LEMMA RequestBooks ==
  ASSUME TypeOK, Books, mishaps \subseteq mishaps', NEW a \in Assets, Claims(a) \/ Receives(a) \/ ApiCrash(a)
  PROVE  Books'
<1>1. UNCHANGED <<usage, others>>
  BY DEF Claims, Receives, WritesOriginal, Received, DeletesOriginal, AwaitsAgain, ApiCrash
<1>2. \/ UNCHANGED asset
      \/ \E processing \in {"receiving", "uploaded", "awaiting_upload"} :
           asset[a].processing \in {"awaiting_upload", "receiving"} /\ Moves(a, processing)
  BY DEF Claims, AwaitsBytes, Receives, WritesOriginal, Received, Arrives, StillReceiving, DeletesOriginal,
         AwaitsAgain, ApiCrash
<1>3. CASE UNCHANGED asset
  BY <1>1, <1>3, RowsStay
<1>4. ASSUME NEW processing \in {"receiving", "uploaded", "awaiting_upload"},
             asset[a].processing \in {"awaiting_upload", "receiving"}, Moves(a, processing)
      PROVE  Books'
  BY <1>1, <1>4, EntryMoves, EntriesStay
<1> QED
  BY <1>2, <1>3, <1>4

LEMMA FlagBooks ==
  ASSUME TypeOK, Books, mishaps \subseteq mishaps', NEW a \in Assets,
         Overdue(a) \/ remove(a) \/ requestAccountDeletion(a)
  PROVE  Books'
<1>1. asset[a] \in Rows
  BY EntryTypes
<1>2. UNCHANGED <<usage, others>>
  BY DEF Overdue, remove, requestAccountDeletion
<1>3. CASE UNCHANGED asset
  BY <1>2, <1>3, RowsStay
<1>4. CASE \/ asset' = [asset EXCEPT ![a].overdue = TRUE] \/ asset' = [asset EXCEPT ![a].deleted = TRUE]
           \/ asset' = [asset EXCEPT ![a].account = FALSE, ![a].allowed = FALSE]
  <2>1. EntryBecomes(a, asset[a].processing, asset[a].reserved, asset[a].actual)
    BY <1>1, <1>4 DEF EntryBecomes, TypeOK, Rows
  <2> QED
    BY <1>2, <2>1, EntriesStay
<1> QED
  BY <1>3, <1>4 DEF Overdue, remove, requestAccountDeletion

\* A worker whose lease never ran out marks an asset only while it is not ready.
LEMMA MarksBooks ==
  ASSUME TypeOK, Books, NEW w \in Workers, ReadyIsOver(w), Marks(w)
  PROVE  Books'
<1>1. /\ worker[w].stage = "marking" /\ Running(w) /\ mishaps' = mishaps
      /\ Moves(Asset(w), "processing") /\ UNCHANGED <<usage, others>>
  BY MarksEffect DEF Marks
<1>2. Asset(w) \in Assets
  BY <1>1, TaskOf
<1>3. Unstalled(Asset(w)) => asset[Asset(w)].processing # "ready"
  BY <1>1 DEF ReadyIsOver, Busy
<1> QED
  BY <1>1, <1>2, <1>3, EntryMoves, EntriesStay

\* What a row held before its commit stays in the counters; without a lost lease it held nothing.
LEMMA FinishesBooks ==
  ASSUME TypeOK, TypeOK', Books, mishaps \subseteq mishaps', NEW w \in Workers, NEW a \in Assets, a = Asset(w),
         NEW total \in Totals, Finishes(w, total), others' = others
  PROVE  Books'
<1>1. /\ asset[a] \in Rows /\ asset[a].actual \in Nat /\ total \in Int
      /\ asset[a].processing = "processing"
  BY EntryTypes DEF Finishes, MayCommit, Rows, Totals
<1>2. Unstalled(a)' => asset[a].actual = 0
  <2>1. Unstalled(a)' => Unstalled(a)
    BY DEF Unstalled
  <2>2. EntryOK(a)
    BY DEF Books
  <2> QED
    BY <1>1, <2>1, <2>2 DEF EntryOK
<1>3. asset' = [asset EXCEPT ![a] = [asset[a] EXCEPT !.processing = "ready", !.reserved = 0,
                                                     !.actual = total, !.derivative = w]]
  BY DEF Finishes
<1>4. EntryBecomes(a, "ready", 0, total)
  BY <1>1, <1>3 DEF EntryBecomes, TypeOK, Rows
<1>5. usage'.reserved = usage.reserved - asset[a].reserved /\ usage'.stored = usage.stored + total
  BY DEF Finishes
<1>6. /\ usage'.reserved = usage.reserved + 0 - asset[a].reserved
      /\ usage'.stored >= usage.stored + total - asset[a].actual
      /\ Unstalled(a)' => usage'.stored = usage.stored + total - asset[a].actual
  BY <1>1, <1>2, <1>5, EntryTypes
<1> QED
  BY <1>4, <1>6, EntryChanges

LEMMA CommitBooks ==
  ASSUME TypeOK, TypeOK', Books, mishaps \subseteq mishaps', NEW w \in Workers, Commits(w)
  PROVE  Books'
<1>1. Asset(w) \in Assets
  BY CommitsEffect, TaskOf
<1>2. others' = others /\ (UNCHANGED <<usage, asset>> \/ \E total \in Totals : Finishes(w, total))
  BY DEF Commits
<1> QED
  BY <1>1, <1>2, FinishesBooks, RowsStay

\* The row gives back all that it has in the books.
LEMMA GivenBackBooks ==
  ASSUME TypeOK, TypeOK', Books, mishaps' = mishaps, NEW a \in Assets,
         NEW processing \in {"rejected", "expired"}, EntryBecomes(a, processing, 0, 0),
         usage' = GivenBack(a), others' = others
  PROVE  Books'
<1>1. usage'.reserved = usage.reserved + 0 - asset[a].reserved /\ usage'.stored = usage.stored + 0 - asset[a].actual
  BY EntryTypes DEF GivenBack
<1>2. usage'.stored >= usage.stored + 0 - asset[a].actual
  BY <1>1, EntryTypes
<1> QED
  BY <1>1, <1>2, EntryChanges

LEMMA ReleaseBooks ==
  ASSUME TypeOK, TypeOK', Books, NEW w \in Workers, release(w)
  PROVE  Books'
<1> DEFINE a == Asset(w)
<1>1. a \in Assets /\ worker[w].stage \in {"rejected", "expired"}
  BY ReleaseEffect, TaskOf DEF release
<1>2. asset[a] \in Rows
  BY <1>1, EntryTypes
<1>3. /\ asset' = [asset EXCEPT ![a] = [asset[a] EXCEPT !.processing = worker[w].stage, !.reserved = 0, !.actual = 0]]
      /\ usage' = GivenBack(a) /\ others' = others /\ mishaps' = mishaps
  BY DEF release
<1>4. EntryBecomes(a, worker[w].stage, 0, 0)
  BY <1>1, <1>2, <1>3 DEF EntryBecomes, TypeOK, Rows
<1> QED
  BY <1>1, <1>3, <1>4, GivenBackBooks

LEMMA ExpiresBooks ==
  ASSUME TypeOK, TypeOK', Books, NEW a \in Assets, Expires(a)
  PROVE  Books'
<1>1. asset[a] \in Rows
  BY EntryTypes
<1>2. /\ asset' = [asset EXCEPT ![a] = [asset[a] EXCEPT !.deleted = TRUE, !.processing = "expired",
                                                        !.actual = 0, !.reserved = 0]]
      /\ usage' = Restored(a) /\ others' = others /\ mishaps' = mishaps
  BY DEF Expires
<1>3. EntryBecomes(a, "expired", 0, 0)
  BY <1>1, <1>2 DEF EntryBecomes, TypeOK, Rows
<1> QED
  BY <1>2, <1>3, GivenBackBooks, RestoredIsGivenBack

LEMMA OthersBooks ==
  ASSUME TypeOK, Books, OthersUse
  PROVE  Books'
<1>1. Reserved' = Reserved /\ Actual' = Actual
  BY DEF OthersUse, Reserved, Actual
<1>2. /\ usage' = [usage EXCEPT !.stored = usage.stored - others + others'] /\ others' \in Int
      /\ UNCHANGED asset /\ mishaps' = mishaps
  BY Numbers, MediaNumbersAssumption DEF OthersUse
<1>3. usage'.reserved = usage.reserved /\ usage'.stored = usage.stored - others + others'
  BY <1>2 DEF TypeOK, Usages
<1>4. Total(Actual) \in Int /\ usage.stored \in Int /\ others \in Int
  BY EntryTypes, TotalIsInt
<1>5. /\ others' + Total(Actual') <= usage'.stored <=> others + Total(Actual) <= usage.stored
      /\ others' + Total(Actual') = usage'.stored <=> others + Total(Actual) = usage.stored
  BY <1>1, <1>2, <1>3, <1>4
<1>6. BooksOK'
  BY <1>1, <1>2, <1>3, <1>5, StalledStays DEF Books, BooksOK
<1>7. \A b \in Assets : EntryOK(b)'
  BY <1>2, StalledStays DEF Books, EntryOK
<1> QED
  BY <1>6, <1>7 DEF Books

-----------------------------------------------------------------------------
(* The limit                                                                  *)

LEMMA SpaceBack ==
  ASSUME TypeOK, NEW a \in Assets
  PROVE  /\ asset[a].reserved \in Nat /\ asset[a].actual \in Nat
         /\ usage.stored \in Int /\ usage.reserved \in Int
  BY DEF TypeOK, Rows, Usages

LEMMA LimitStep == TypeOK /\ Books /\ WithinLimit /\ [MediaNext]_mediaVars => WithinLimit'
<1> SUFFICES ASSUME TypeOK, Books, WithinLimit, [MediaNext]_mediaVars PROVE WithinLimit'
  OBVIOUS
<1>0. Limit \in Int /\ usage.stored \in Int /\ usage.reserved \in Int /\ others \in Nat /\ usage \in Usages
  BY Numbers DEF TypeOK, Usages
<1>1. ASSUME UNCHANGED usage PROVE WithinLimit'
  BY <1>1 DEF WithinLimit
<1>2. ASSUME NEW a \in Assets, intent(a) PROVE WithinLimit'
  BY <1>0, <1>2 DEF intent, HasRoom, WithinLimit, Reservation, Usages
<1>3. ASSUME NEW a \in Assets, usage' = WithoutReservation(a) PROVE WithinLimit'
  BY <1>0, <1>3, SpaceBack DEF WithoutReservation, WithinLimit, Usages
<1>4. ASSUME NEW a \in Assets, sweep(a) \/ removeMember(a) PROVE WithinLimit'
  BY <1>1, <1>3, <1>4 DEF sweep, removeMember
<1>5. ASSUME NEW w \in Workers, Commits(w) PROVE WithinLimit'
  <2>1. CASE UNCHANGED usage
    BY <1>1, <2>1
  <2>2. CASE ~UNCHANGED usage
    <3>1. PICK total \in Totals : Finishes(w, total)
      BY <1>5, <2>2 DEF Commits
    <3>2. Asset(w) \in Assets /\ total \in Nat
      BY <1>5, CommitsEffect, TaskOf DEF Totals
    <3>3. /\ usage.stored + usage.reserved - asset[Asset(w)].reserved + total <= Limit
          /\ usage'.stored = usage.stored + total
          /\ usage'.reserved = usage.reserved - asset[Asset(w)].reserved
      BY <3>1 DEF Finishes
    <3> QED
      BY <1>0, <3>2, <3>3, SpaceBack DEF WithinLimit
  <2> QED
    BY <2>1, <2>2
<1>6. ASSUME NEW a \in Assets, usage' = GivenBack(a) PROVE WithinLimit'
  BY <1>0, <1>6, SpaceBack DEF GivenBack, WithinLimit
<1>7. ASSUME NEW w \in Workers, release(w) PROVE WithinLimit'
  <2>1. Asset(w) \in Assets
    BY <1>7, ReleaseEffect, TaskOf
  <2> QED
    BY <1>6, <1>7, <2>1 DEF release
<1>8. ASSUME NEW a \in Assets, Expires(a) PROVE WithinLimit'
  BY <1>6, <1>8, RestoredIsGivenBack DEF Expires
<1>9. CASE OthersUse
  <2>1. /\ others' \in Nat
        /\ usage'.stored = usage.stored - others + others' /\ usage'.reserved = usage.reserved
        /\ others' > others => usage.stored - others + others' + usage.reserved <= Limit
    BY <1>0, <1>9, Numbers, MediaNumbersAssumption DEF OthersUse, Usages
  <2> QED
    BY <1>0, <2>1 DEF WithinLimit
<1>10. ASSUME NEW a \in Assets,
              \/ Claims(a) \/ remove(a) \/ requestAccountDeletion(a) \/ Receives(a) \/ Overdue(a) \/ ApiCrash(a)
              \/ Starts(a) \/ StartsAgain(a) \/ DeletesRecorded(a) \/ StartFails(a)
       PROVE  WithinLimit'
  BY <1>1, <1>10 DEF Claims, remove, requestAccountDeletion, Receives, WritesOriginal, Received, DeletesOriginal,
                     AwaitsAgain, Overdue, ApiCrash, Starts, StartsAgain, ReadsRow, DeletesRecorded, StartFails
<1>11. ASSUME NEW w \in Workers, \/ lease(w) \/ ReadsAsset(w) \/ ChecksScope(w) \/ Marks(w)
                                 \/ Converts(w) \/ WritesDisplay(w) \/ ClearsDisplay(w) \/ Judges(w)
                                 \/ DeletesFiles(w) \/ Settles(w) \/ GivesUp(w) \/ Stalls(w) \/ Renews(w)
                                 \/ WorkerCrash(w)
       PROVE  WithinLimit'
  BY <1>1, <1>11 DEF lease, ReadsAsset, ChecksScope, Marks, Converts, WritesDisplay, ClearsDisplay,
                     Judges, DeletesFiles, Settles, GivesUp, Stalls, Renews, WorkerCrash
<1>12. CASE UNCHANGED mediaVars
  BY <1>1, <1>12 DEF mediaVars
<1> QED
  BY <1>2, <1>4, <1>5, <1>7, <1>8, <1>9, <1>10, <1>11, <1>12 DEF MediaNext, Asks, Replays, Works, Runs

-----------------------------------------------------------------------------
(* The theorem                                                                *)

LEMMA BooksInit == MediaInit => Books
<1> SUFFICES ASSUME MediaInit PROVE Books
  OBVIOUS
<1>1. \A a \in Assets : Reserved[a] = 0 /\ Actual[a] = 0 /\ EntryOK(a)
  BY DEF MediaInit, NoRow, Reserved, Actual, EntryOK
<1>2. Total(Reserved) = 0 /\ Total(Actual) = 0
  BY <1>1, TotalOfNothing
<1> QED
  BY <1>1, <1>2 DEF MediaInit, Books, BooksOK

LEMMA BooksStep ==
  ASSUME TypeOK, TypeOK', Books, \A w \in Workers : ReadyIsOver(w), [MediaNext]_mediaVars
  PROVE  Books'
<1>1. mishaps \subseteq mishaps'
  BY HistoryGrows
<1>2. ASSUME NEW a \in Assets, Asks(a) \/ Receives(a) \/ Overdue(a) \/ sweep(a) \/ ApiCrash(a) PROVE Books'
  BY <1>1, <1>2, IntentBooks, RequestBooks, FlagBooks, SweepBooks, MemberBooks DEF Asks
<1>3. ASSUME NEW w \in Workers, \/ lease(w) \/ WorkerCrash(w) \/ ReadsAsset(w) \/ ChecksScope(w)
                                \/ Converts(w) \/ WritesDisplay(w) \/ ClearsDisplay(w) \/ Judges(w)
                                \/ DeletesFiles(w) \/ Settles(w) \/ GivesUp(w) \/ Stalls(w) \/ Renews(w)
      PROVE  Books'
  <2>1. UNCHANGED <<asset, usage, others>>
    BY <1>3 DEF lease, WorkerCrash, ReadsAsset, ChecksScope, Converts, WritesDisplay, ClearsDisplay,
                Judges, DeletesFiles, Settles, GivesUp, Stalls, Renews
  <2> QED
    BY <1>1, <2>1, RowsStay
<1>4. ASSUME NEW w \in Workers, Marks(w) \/ Commits(w) \/ release(w) PROVE Books'
  BY <1>1, <1>4, MarksBooks, CommitBooks, ReleaseBooks
<1>5. ASSUME NEW a \in Assets, Starts(a) \/ StartsAgain(a) \/ DeletesRecorded(a) \/ StartFails(a) PROVE Books'
  <2>1. UNCHANGED <<asset, usage, others>>
    BY <1>5 DEF Starts, StartsAgain, ReadsRow, DeletesRecorded, StartFails
  <2> QED
    BY <1>1, <2>1, RowsStay
<1>6. ASSUME NEW a \in Assets, Expires(a) PROVE Books'
  BY <1>6, ExpiresBooks
<1>7. CASE OthersUse
  BY <1>7, OthersBooks
<1>8. CASE UNCHANGED mediaVars
  BY <1>8, RowsStay DEF mediaVars
<1> QED
  BY <1>2, <1>3, <1>4, <1>5, <1>6, <1>7, <1>8 DEF MediaNext, Replays, Works, Runs

Exact == /\ TypeOK /\ WorkersOK /\ \A w \in Workers : ReadyIsOver(w)
         /\ Books /\ WithinLimit

\* What the wedding has reserved is what its unfinished uploads add up to, what it has
\* stored is never less than what its rows hold, and no more unless a lease ran out under a
\* worker that went on, and the two never exceed the limit: for every finite number of
\* assets, every number of workers and faults and every limit. An upload that is refused,
\* swept, cancelled with its maker, deleted or erased by a replay gives back what it had,
\* once.
THEOREM QuotaIsExact == FairMediaSpec => []QuotaAddsUp
<1>1. MediaInit => Exact
  <2> SUFFICES ASSUME MediaInit PROVE Exact
    OBVIOUS
  <2>1. TypeOK /\ WorkersOK
    BY UsableInit DEF Usable, Sound
  <2>2. \A w \in Workers : ReadyIsOver(w)
    BY DEF MediaInit, ReadyIsOver, Running, Idle
  <2>3. WithinLimit
    BY Numbers DEF MediaInit, WithinLimit
  <2> QED
    BY <2>1, <2>2, <2>3, BooksInit DEF Exact
<1>2. Exact /\ [MediaNext]_mediaVars => Exact'
  <2> SUFFICES ASSUME Exact, [MediaNext]_mediaVars PROVE Exact'
    OBVIOUS
  <2>1. TypeOK' /\ WorkersOK'
    BY TypeStep, WorkersStep DEF Exact
  <2>2. \A w \in Workers : ReadyIsOver(w)'
    BY OverStep DEF Exact
  <2>3. Books' /\ WithinLimit'
    BY <2>1, BooksStep, LimitStep DEF Exact
  <2> QED
    BY <2>1, <2>2, <2>3 DEF Exact
<1>3. Exact => QuotaAddsUp
  BY QuotaIsTheSum DEF Exact, Books
<1> QED
  BY <1>1, <1>2, <1>3, PTL DEF FairMediaSpec

=============================================================================
