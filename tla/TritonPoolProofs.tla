-------------------------- MODULE TritonPoolProofs --------------------------
(***************************************************************************)
(* Proofs, for any number of endpoints, workers and probers, of the safety *)
(* invariants of TritonPool.                                               *)
(***************************************************************************)
EXTENDS TritonPool, FiniteSetTheorems, TLAPS

\* A worker past its scan has an endpoint.
Picked ==
    \A w \in Workers :
      pc[w] \notin {"idle", "health", "load", "fallback"} => best[w] # nil

USE EndpointsAssumption DEF Endpoints, nil

\* One entry of a function is replaced.
LEMMA OneChanged ==
    ASSUME NEW S, NEW T, NEW f \in [S -> T], NEW x \in S, NEW n
    PROVE  /\ \A e \in S : [f EXCEPT ![x] = n][e] = IF e = x THEN n ELSE f[e]
           /\ n \in T => [f EXCEPT ![x] = n] \in [S -> T]
OBVIOUS

LEMMA HoldingFinite ==
    \A T \in SUBSET Workers : IsFiniteSet(T) /\ Cardinality(T) \in Nat
BY ActorsAssumption, FS_Subset, FS_CardinalityType

\* The history keeps its type in every step.
LEMMA WatchType ==
    ASSUME TypeOK, Watch, inFlight' \in [Endpoints -> Nat]
    PROVE  watch' \in [Workers -> [ever : SUBSET Endpoints,
                                   always : SUBSET Endpoints,
                                   peak : [Endpoints -> Nat]]]
<1> DEFINE R == [ever : SUBSET Endpoints, always : SUBSET Endpoints,
                 peak : [Endpoints -> Nat]]
<1>1. Unwatched \in R BY DEF Unwatched
<1>2. ASSUME NEW w \in Workers PROVE Seen(w) \in R
  <2>1. watch[w] \in R BY DEF TypeOK
  <2> QED BY <2>1 DEF Seen
<1> QED BY <1>1, <1>2 DEF Watch

\* A goroutine that moves within its own labels keeps the type of pc.
LEMMA PcType ==
    ASSUME TypeOK, NEW a \in Workers \cup Probers, NEW to, GoTo(a, to),
           a \in Workers => to \in WorkerLabels,
           a \in Probers => to \in ProberLabels
    PROVE  /\ pc' \in [Workers \cup Probers -> WorkerLabels \cup ProberLabels]
           /\ \A b \in Workers : pc'[b] \in WorkerLabels
           /\ \A b \in Probers : pc'[b] \in ProberLabels
           /\ pc'[a] = to
           /\ \A b \in Workers \cup Probers : b # a => pc'[b] = pc[b]
BY DEF TypeOK, GoTo

\* The type invariant without the history, and the part of it that the steps
\* of workers and probers share.
TypeNoWatch ==
    /\ inFlight \in [Endpoints -> Nat]
    /\ healthy \in [Endpoints -> BOOLEAN]
    /\ failures \in [Endpoints -> 0..MaxFailures]
    /\ up \in [Endpoints -> BOOLEAN]
    /\ expired \in [Probers -> BOOLEAN]
    /\ pc \in [Workers \cup Probers -> WorkerLabels \cup ProberLabels]
    /\ \A a \in Workers : pc[a] \in WorkerLabels
    /\ \A a \in Probers : pc[a] \in ProberLabels
    /\ idx \in [Workers \cup Probers -> Endpoints]
    /\ best \in [Workers -> Endpoints \cup {nil}]
    /\ bestLoad \in [Workers -> Nat]

\* What each step keeps, apart from the history.
Core == TypeNoWatch /\ Picked /\ \A e \in Endpoints : inFlight[e] = Cardinality(Holding(e))

\* A step of a goroutine that neither takes nor returns a lease.
LEMMA SameLeases ==
    ASSUME TypeOK, NEW a \in Workers \cup Probers, NEW to, GoTo(a, to),
           a \in Workers => pc[a] \notin Counted /\ to \notin Counted,
           \A w \in Workers : w # a => best'[w] = best[w]
    PROVE  \A e \in Endpoints : Holding(e)' = Holding(e)
BY DEF TypeOK, GoTo, Holding, Counted

\* The arithmetic of a lease taken and of a lease returned.
LEMMA LeaseMoves ==
    ASSUME TypeOK, NEW w \in Workers, NEW to, GoTo(w, to), best' = best,
           best[w] \in Endpoints
    PROVE  /\ pc[w] \notin Counted /\ to \in Counted =>
                \A e \in Endpoints : Cardinality(Holding(e)') =
                  Cardinality(Holding(e)) + (IF e = best[w] THEN 1 ELSE 0)
           /\ pc[w] \in Counted /\ to \notin Counted =>
                \A e \in Endpoints : Cardinality(Holding(e)') =
                  Cardinality(Holding(e)) - (IF e = best[w] THEN 1 ELSE 0)
           /\ pc[w] \in Counted => Cardinality(Holding(best[w])) >= 1
<1>0. \A e \in Endpoints : IsFiniteSet(Holding(e)) /\ Cardinality(Holding(e)) \in Nat
  BY HoldingFinite DEF Holding
<1>1. ASSUME pc[w] \notin Counted, to \in Counted, NEW e \in Endpoints
      PROVE  Cardinality(Holding(e)') =
               Cardinality(Holding(e)) + (IF e = best[w] THEN 1 ELSE 0)
  <2>1. CASE e = best[w]
    <3>1. Holding(e)' = Holding(e) \cup {w} /\ w \notin Holding(e)
      BY <1>1, <2>1 DEF TypeOK, GoTo, Holding
    <3> QED BY <3>1, <2>1, <1>0, FS_AddElement
  <2>2. CASE e # best[w]
    <3>1. Holding(e)' = Holding(e)
      BY <1>1, <2>2 DEF TypeOK, GoTo, Holding
    <3> QED BY <3>1, <2>2, <1>0
  <2> QED BY <2>1, <2>2
<1>2. ASSUME pc[w] \in Counted, to \notin Counted, NEW e \in Endpoints
      PROVE  Cardinality(Holding(e)') =
               Cardinality(Holding(e)) - (IF e = best[w] THEN 1 ELSE 0)
  <2>1. CASE e = best[w]
    <3>1. Holding(e)' = Holding(e) \ {w} /\ w \in Holding(e)
      BY <1>2, <2>1 DEF TypeOK, GoTo, Holding
    <3> QED BY <3>1, <2>1, <1>0, FS_RemoveElement
  <2>2. CASE e # best[w]
    <3>1. Holding(e)' = Holding(e)
      BY <1>2, <2>2 DEF TypeOK, GoTo, Holding
    <3> QED BY <3>1, <2>2, <1>0
  <2> QED BY <2>1, <2>2
<1>3. ASSUME pc[w] \in Counted PROVE Cardinality(Holding(best[w])) >= 1
  <2>1. w \in Holding(best[w]) BY <1>3 DEF Holding
  <2>2. Cardinality(Holding(best[w])) # 0 BY <2>1, <1>0, FS_EmptySet
  <2> QED BY <2>2, <1>0
<1> QED BY <1>1, <1>2, <1>3

LEMMA InitCore == Init => Core /\ TypeOK
<1> SUFFICES ASSUME Init PROVE Core /\ TypeOK OBVIOUS
<1>1. \A e \in Endpoints : Holding(e) = {}
  BY ActorsAssumption DEF Init, Holding, Counted
<1>2. \A e \in Endpoints : Cardinality(Holding(e)) = 0
  BY <1>1, FS_EmptySet
<1>3. TypeNoWatch /\ Picked
  BY ActorsAssumption, FailuresAssumption
  DEF Init, TypeNoWatch, Picked, WorkerLabels, ProberLabels
<1>4. TypeOK
  BY <1>3 DEF Init, TypeOK, TypeNoWatch, Unwatched
<1>5. \A e \in Endpoints : inFlight[e] = Cardinality(Holding(e))
  BY <1>2 DEF Init
<1> QED BY <1>3, <1>4, <1>5 DEF Core

\* What a loop does to its index.
LEMMA IdxType ==
    ASSUME TypeOK, NEW a \in Workers \cup Probers,
           \/ idx' = idx
           \/ idx' = [idx EXCEPT ![a] = 1]
           \/ idx[a] < N /\ idx' = [idx EXCEPT ![a] = idx[a] + 1]
    PROVE  idx' \in [Workers \cup Probers -> Endpoints]
<1>1. idx \in [Workers \cup Probers -> Endpoints] /\ idx[a] \in Endpoints
  BY DEF TypeOK
<1>2. CASE idx' = idx BY <1>1, <1>2
<1>3. CASE idx' = [idx EXCEPT ![a] = 1] BY <1>1, <1>3
<1>4. CASE idx[a] < N /\ idx' = [idx EXCEPT ![a] = idx[a] + 1]
  <2>1. idx[a] + 1 \in Endpoints BY <1>1, <1>4
  <2> QED BY <2>1, <1>1, <1>4
<1> QED BY <1>2, <1>3, <1>4

\* The steps of Acquire before the lease, all of which move the worker from one
\* scanning label to another.
LEMMA ScanStep ==
    ASSUME Core, TypeOK, NEW w \in Workers,
           StartAcquire(w) \/ LoadHealthy(w) \/ LoadInFlight(w) \/ LoadFallback(w)
    PROVE  Core'
<1>1. PICK to \in {"health", "load", "fallback", "add"} :
        /\ pc' = [pc EXCEPT ![w] = to]
        /\ to = "add" => best'[w] # nil
  BY DEF StartAcquire, LoadHealthy, LoadInFlight, LoadFallback, NextHealth, Keep,
         GoTo, TypeOK, picks
<1>2. /\ idx' \in [Workers \cup Probers -> Endpoints]
      /\ best' \in [Workers -> Endpoints \cup {nil}]
      /\ bestLoad' \in [Workers -> Nat]
      /\ \A v \in Workers : v # w => best'[v] = best[v]
      /\ UNCHANGED <<inFlight, healthy, failures, up, expired>>
  <2>1. CASE StartAcquire(w)
    BY <2>1 DEF StartAcquire, TypeOK, atomics
  <2>2. CASE LoadHealthy(w)
    <3>1. \/ idx' = idx
          \/ idx' = [idx EXCEPT ![w] = 1]
          \/ idx[w] < N /\ idx' = [idx EXCEPT ![w] = idx[w] + 1]
      BY <2>2 DEF LoadHealthy, NextHealth
    <3> QED BY <3>1, <2>2, IdxType DEF LoadHealthy, TypeOK, picks, atomics
  <2>3. ASSUME Keep(w, inFlight[idx[w]])
        PROVE  /\ best' \in [Workers -> Endpoints \cup {nil}]
               /\ bestLoad' \in [Workers -> Nat]
               /\ \A v \in Workers : v # w => best'[v] = best[v]
    BY <2>3 DEF Keep, TypeOK, picks
  <2>4. CASE LoadInFlight(w)
    <3>1. \/ idx' = [idx EXCEPT ![w] = 1]
          \/ idx[w] < N /\ idx' = [idx EXCEPT ![w] = idx[w] + 1]
      BY <2>4 DEF LoadInFlight, NextHealth
    <3> QED BY <3>1, <2>3, <2>4, IdxType DEF LoadInFlight, atomics
  <2>5. CASE LoadFallback(w)
    <3>1. \/ idx' = [idx EXCEPT ![w] = 1]
          \/ idx[w] < N /\ idx' = [idx EXCEPT ![w] = idx[w] + 1]
      BY <2>5 DEF LoadFallback
    <3> QED BY <3>1, <2>3, <2>5, IdxType DEF LoadFallback, atomics
  <2> QED BY <2>1, <2>2, <2>4, <2>5
<1>3. /\ pc[w] \in {"idle", "health", "load", "fallback"}
      /\ to \in WorkerLabels /\ pc[w] \notin Counted /\ to \notin Counted
      /\ GoTo(w, to) /\ w \notin Probers
  BY <1>1, ActorsAssumption
  DEF StartAcquire, LoadHealthy, LoadInFlight, LoadFallback, WorkerLabels,
      Scanning, Counted, GoTo
<1>4. /\ pc' \in [Workers \cup Probers -> WorkerLabels \cup ProberLabels]
      /\ \A b \in Workers : pc'[b] \in WorkerLabels
      /\ \A b \in Probers : pc'[b] \in ProberLabels
      /\ pc'[w] = to
      /\ \A b \in Workers \cup Probers : b # w => pc'[b] = pc[b]
  BY <1>3, PcType
<1>5. \A e \in Endpoints : Holding(e)' = Holding(e)
  BY <1>2, <1>3, SameLeases
<1>6. TypeNoWatch'
  BY <1>2, <1>4 DEF Core, TypeNoWatch
<1>7. Picked'
  BY <1>1, <1>2, <1>4 DEF Core, Picked
<1> QED BY <1>2, <1>5, <1>6, <1>7 DEF Core

\* The failure counter stays within the bound of the model.
LEMMA PickCount ==
    ASSUME TypeOK, NEW w \in Workers, CountFailure(w), best[w] \in Endpoints
    PROVE  \E n \in 0..MaxFailures : failures' = [failures EXCEPT ![best[w]] = n]
<1>1. failures[best[w]] \in 0..MaxFailures BY DEF TypeOK
<1>2. CASE failures[best[w]] + 1 > MaxFailures
  BY <1>1, <1>2 DEF CountFailure
<1>3. CASE ~(failures[best[w]] + 1 > MaxFailures)
  <2>1. failures[best[w]] + 1 \in 0..MaxFailures
    BY <1>1, <1>3, FailuresAssumption
  <2> QED BY <2>1, <1>3 DEF CountFailure
<1> QED BY <1>2, <1>3

\* The steps of Release after the lease is returned.
LEMMA FinishStep ==
    ASSUME Core, TypeOK, NEW w \in Workers, FinishRelease(w)
    PROVE  Core'
<1>1. PICK to \in {"idle", "evict", "restore"} : GoTo(w, to)
  BY DEF FinishRelease, CountFailure, Evict, ClearFailures, Restore
<1>2. /\ pc[w] \in {"failed", "evict", "clear", "restore"}
      /\ UNCHANGED <<inFlight, up, expired, idx, best, bestLoad>>
  BY DEF FinishRelease, CountFailure, Evict, ClearFailures, Restore, picks
<1>3. best[w] \in Endpoints
  BY <1>2 DEF Core, TypeNoWatch, Picked
<1>4. /\ healthy' \in [Endpoints -> BOOLEAN]
      /\ failures' \in [Endpoints -> 0..MaxFailures]
  <2>1. CASE CountFailure(w)
    <3>1. PICK n \in 0..MaxFailures : failures' = [failures EXCEPT ![best[w]] = n]
      BY <2>1, <1>3, FailuresAssumption, PickCount
    <3>2. /\ healthy' = healthy
          /\ failures \in [Endpoints -> 0..MaxFailures]
          /\ healthy \in [Endpoints -> BOOLEAN]
      BY <2>1 DEF CountFailure, TypeOK
    <3> QED BY <3>1, <3>2, <1>3, OneChanged, Zenon
  <2>2. CASE ClearFailures(w)
    <3>1. /\ failures' = [failures EXCEPT ![best[w]] = 0]
          /\ healthy' = healthy
          /\ failures \in [Endpoints -> 0..MaxFailures]
          /\ healthy \in [Endpoints -> BOOLEAN]
      BY <2>2 DEF ClearFailures, TypeOK
    <3>2. 0 \in 0..MaxFailures
      BY FailuresAssumption
    <3> QED BY <3>1, <3>2, <1>3, OneChanged, Zenon
  <2>3. CASE Evict(w) \/ Restore(w)
    BY <2>3, <1>3 DEF Evict, Restore, TypeOK
  <2> QED BY <2>1, <2>2, <2>3 DEF FinishRelease
<1>5. /\ to \in WorkerLabels /\ pc[w] \notin Counted /\ to \notin Counted
      /\ w \notin Probers
  BY <1>1, <1>2, ActorsAssumption DEF WorkerLabels, Counted
<1>6. /\ pc' \in [Workers \cup Probers -> WorkerLabels \cup ProberLabels]
      /\ \A b \in Workers : pc'[b] \in WorkerLabels
      /\ \A b \in Probers : pc'[b] \in ProberLabels
      /\ pc'[w] = to
      /\ \A b \in Workers \cup Probers : b # w => pc'[b] = pc[b]
  BY <1>1, <1>5, PcType
<1>7. \A e \in Endpoints : Holding(e)' = Holding(e)
  BY <1>1, <1>2, <1>5, SameLeases
<1>8. TypeNoWatch'
  BY <1>2, <1>4, <1>6 DEF Core, TypeNoWatch
<1>9. Picked'
  BY <1>2, <1>3, <1>6 DEF Core, Picked
<1> QED BY <1>2, <1>7, <1>8, <1>9 DEF Core

\* The lease taken and the lease returned.
LEMMA LeaseStep ==
    ASSUME Core, TypeOK, NEW w \in Workers, AddInFlight(w) \/ Release(w)
    PROVE  Core'
<1>1. /\ pc[w] \in {"add", "leased"}
      /\ UNCHANGED <<healthy, failures, up, expired, idx, best>>
      /\ bestLoad' \in [Workers -> Nat]
  <2>1. bestLoad' = bestLoad \/ bestLoad' = [bestLoad EXCEPT ![w] = 0]
    BY DEF AddInFlight, Release, picks
  <2>2. bestLoad \in [Workers -> Nat] /\ 0 \in Nat
    BY DEF Core, TypeNoWatch
  <2>3. bestLoad' \in [Workers -> Nat]
    BY <2>1, <2>2, OneChanged, ZenonT(60)
  <2> QED BY <2>3 DEF AddInFlight, Release, picks
<1>2. best[w] \in Endpoints /\ w \notin Probers
  BY <1>1, ActorsAssumption DEF Core, TypeNoWatch, Picked
<1>3. PICK to \in {"leased", "failed", "clear"} :
        GoTo(w, to) /\ (to = "leased" <=> pc[w] = "add")
  BY DEF AddInFlight, Release
<1>4. /\ pc' \in [Workers \cup Probers -> WorkerLabels \cup ProberLabels]
      /\ \A b \in Workers : pc'[b] \in WorkerLabels
      /\ \A b \in Probers : pc'[b] \in ProberLabels
      /\ pc'[w] = to
      /\ \A b \in Workers \cup Probers : b # w => pc'[b] = pc[b]
  <2>1. to \in WorkerLabels BY <1>3 DEF WorkerLabels, Counted
  <2> QED BY <2>1, <1>2, <1>3, PcType
<1>5. /\ inFlight' \in [Endpoints -> Nat]
      /\ \A e \in Endpoints : inFlight'[e] = Cardinality(Holding(e)')
  <2>0. \A e \in Endpoints :
          inFlight[e] = Cardinality(Holding(e)) /\ inFlight[e] \in Nat
    BY DEF Core, TypeNoWatch
  <2>3. inFlight \in [Endpoints -> Nat] /\ best[w] \in Endpoints
    BY <1>2 DEF TypeOK
  <2>1. CASE AddInFlight(w)
    <3>1. to \in Counted /\ pc[w] \notin Counted
      BY <2>1, <1>3 DEF AddInFlight, Counted
    <3>2. \A e \in Endpoints : Cardinality(Holding(e)') =
            Cardinality(Holding(e)) + (IF e = best[w] THEN 1 ELSE 0)
      BY <3>1, <1>1, <1>2, <1>3, LeaseMoves
    <3>3. inFlight' = [inFlight EXCEPT ![best[w]] = @ + 1]
      BY <2>1 DEF AddInFlight
    <3>4. inFlight' \in [Endpoints -> Nat]
      <4>1. inFlight[best[w]] + 1 \in Nat
        BY <2>0, <2>3
      <4> QED BY <4>1, <3>3, <2>3, OneChanged, Zenon
    <3>5. \A e \in Endpoints :
            inFlight'[e] = IF e = best[w] THEN inFlight[e] + 1 ELSE inFlight[e]
      BY <3>3, <2>3, OneChanged, Zenon
    <3> QED BY <3>2, <3>4, <3>5, <2>0
  <2>2. CASE Release(w)
    <3>1. to \notin Counted /\ pc[w] \in Counted
      BY <2>2, <1>3 DEF Release, Counted
    <3>2. /\ \A e \in Endpoints : Cardinality(Holding(e)') =
               Cardinality(Holding(e)) - (IF e = best[w] THEN 1 ELSE 0)
          /\ Cardinality(Holding(best[w])) >= 1
      BY <3>1, <1>1, <1>2, <1>3, LeaseMoves
    <3>3. inFlight' = [inFlight EXCEPT ![best[w]] = @ - 1]
      BY <2>2 DEF Release
    <3>4. inFlight[best[w]] >= 1
      BY <3>2, <2>0, <1>2
    <3>5. inFlight' \in [Endpoints -> Nat]
      <4>1. inFlight[best[w]] - 1 \in Nat
        BY <2>0, <2>3, <3>4
      <4> QED BY <4>1, <3>3, <2>3, OneChanged, Zenon
    <3>6. \A e \in Endpoints :
            inFlight'[e] = IF e = best[w] THEN inFlight[e] - 1 ELSE inFlight[e]
      BY <3>3, <2>3, OneChanged, Zenon
    <3> QED BY <3>2, <3>5, <3>6, <2>0
  <2> QED BY <2>1, <2>2
<1>6. TypeNoWatch'
  BY <1>1, <1>4, <1>5 DEF Core, TypeNoWatch
<1>7. Picked'
  BY <1>1, <1>2, <1>4 DEF Core, Picked
<1> QED BY <1>5, <1>6, <1>7 DEF Core

\* The health handlers.
LEMMA ProbeStep ==
    ASSUME Core, TypeOK, NEW p \in Probers, StartReady(p) \/ Probe(p)
    PROVE  Core'
<1>1. PICK to \in {"off", "ask", "mark", "forget", "unmark"} : GoTo(p, to)
  BY DEF StartReady, Probe, Ask, Mark, Forget, Unmark, NextProbe
<1>2. /\ UNCHANGED <<inFlight, up, best, bestLoad>>
      /\ idx' \in [Workers \cup Probers -> Endpoints]
      /\ healthy' \in [Endpoints -> BOOLEAN]
      /\ failures' \in [Endpoints -> 0..MaxFailures]
  <2>1. CASE StartReady(p)
    BY <2>1 DEF StartReady, TypeOK, picks, atomics
  <2>2. CASE Ask(p)
    BY <2>2 DEF Ask, TypeOK, picks, atomics
  <2>3. CASE Mark(p)
    BY <2>3 DEF Mark, TypeOK, picks
  <2>4. CASE Forget(p)
    <3>1. \/ idx' = [idx EXCEPT ![p] = 1]
          \/ idx[p] < N /\ idx' = [idx EXCEPT ![p] = idx[p] + 1]
      BY <2>4 DEF Forget, NextProbe
    <3>2. idx[p] \in Endpoints BY DEF TypeOK
    <3>3. idx' \in [Workers \cup Probers -> Endpoints] BY <3>1, IdxType
    <3>4. failures' = [failures EXCEPT ![idx[p]] = 0] /\ 0 \in 0..MaxFailures
      BY <2>4, FailuresAssumption DEF Forget
    <3>5. failures' \in [Endpoints -> 0..MaxFailures]
      BY <3>2, <3>4 DEF TypeOK
    <3> QED BY <3>3, <3>5, <2>4 DEF Forget, TypeOK, picks
  <2>5. CASE Unmark(p)
    <3>1. \/ idx' = [idx EXCEPT ![p] = 1]
          \/ idx[p] < N /\ idx' = [idx EXCEPT ![p] = idx[p] + 1]
      BY <2>5 DEF Unmark, NextProbe
    <3>2. idx[p] \in Endpoints BY DEF TypeOK
    <3> QED BY <3>1, <3>2, <2>5, IdxType, FailuresAssumption DEF Unmark, TypeOK, picks
  <2> QED BY <2>1, <2>2, <2>3, <2>4, <2>5 DEF Probe
<1>8. expired' \in [Probers -> BOOLEAN]
  <2>1. \/ expired' = expired
        \/ \E over \in BOOLEAN : expired' = [expired EXCEPT ![p] = over]
    BY DEF StartReady, Probe, Ask, Mark, Forget, Unmark, NextProbe
  <2> QED BY <2>1 DEF TypeOK
<1>3. to \in ProberLabels /\ p \notin Workers
  BY <1>1, ActorsAssumption DEF ProberLabels
<1>4. /\ pc' \in [Workers \cup Probers -> WorkerLabels \cup ProberLabels]
      /\ \A b \in Workers : pc'[b] \in WorkerLabels
      /\ \A b \in Probers : pc'[b] \in ProberLabels
      /\ \A b \in Workers \cup Probers : b # p => pc'[b] = pc[b]
  BY <1>1, <1>3, PcType
<1>5. \A e \in Endpoints : Holding(e)' = Holding(e)
  BY <1>1, <1>2, <1>3, SameLeases
<1>6. TypeNoWatch'
  BY <1>2, <1>4, <1>8 DEF Core, TypeNoWatch
<1>7. Picked'
  BY <1>2, <1>3, <1>4 DEF Core, Picked
<1> QED BY <1>2, <1>5, <1>6, <1>7 DEF Core

LEMMA NextCore == Core /\ TypeOK /\ [Next]_vars => Core' /\ TypeOK'
<1> SUFFICES ASSUME Core, TypeOK, [Next]_vars PROVE Core' /\ TypeOK'
  OBVIOUS
<1>1. CASE Next
  <2>1. Core'
    <3>1. ASSUME NEW w \in Workers, Acquire(w) \/ Release(w) \/ FinishRelease(w)
          PROVE  Core'
      BY <3>1, ScanStep, LeaseStep, FinishStep DEF Acquire
    <3>2. ASSUME NEW p \in Probers, StartReady(p) \/ Probe(p) PROVE Core'
      BY <3>2, ProbeStep
    <3>3. ASSUME NEW e \in Endpoints, Toggle(e) PROVE Core'
      BY <3>3, SMTT(30) DEF Toggle, atomics, picks, Core, TypeNoWatch, Picked, Holding
    <3> QED BY <1>1, <3>1, <3>2, <3>3 DEF Next, Step
  <2>2. TypeOK'
    BY <1>1, <2>1, WatchType DEF Next, Core, TypeNoWatch, TypeOK
  <2> QED BY <2>1, <2>2
<1>2. CASE UNCHANGED vars
  BY <1>2, SMTT(30) DEF vars, Core, TypeNoWatch, TypeOK, Picked, Holding
<1> QED BY <1>1, <1>2

THEOREM CoreInvariant == Spec => [](Core /\ TypeOK)
BY InitCore, NextCore, PTL DEF Spec

\* Type correctness.
THEOREM TypeCorrect == Spec => []TypeOK
BY CoreInvariant, PTL

\* The load of an endpoint is the number of leases out on it, for any number of
\* endpoints, workers and health handlers.
THEOREM LeasesExact == Spec => []LeasesCounted
<1>1. Core => LeasesCounted BY DEF Core, Picked, LeasesCounted, Counted
<1> QED BY <1>1, CoreInvariant, PTL
-----------------------------------------------------------------------------
(* What Acquire settles on. *)

\* How far a worker's scan has come: what it has seen is covered by its history.
Scanned(w) ==
    /\ pc[w] \in Scanning =>
         \A e \in Endpoints :
           /\ healthy[e] => e \in watch[w].ever
           /\ e \in watch[w].always => healthy[e] /\ inFlight[e] <= watch[w].peak[e]
    /\ pc[w] \in {"health", "load"} =>
         /\ best[w] # nil => best[w] \in watch[w].ever
         /\ \A e \in watch[w].always :
              e < idx[w] => best[w] # nil /\ bestLoad[w] <= watch[w].peak[e]
    /\ pc[w] = "load" => idx[w] \in watch[w].ever
    /\ pc[w] = "fallback" => watch[w].always = {}
    /\ pc[w] = "add" =>
         /\ best[w] \in watch[w].ever \/ watch[w].always = {}
         /\ \A e \in watch[w].always : bestLoad[w] <= watch[w].peak[e]

ScanInv == \A w \in Workers : Scanned(w)

\* What a step adds to the history of a worker that is scanning after it.
LEMMA WatchStep ==
    ASSUME TypeOK, TypeOK', Watch, NEW w \in Workers, pc'[w] \in Scanning
    PROVE  /\ watch[w].ever \subseteq watch'[w].ever
           /\ watch'[w].always \subseteq watch[w].always
           /\ watch'[w].always \subseteq Endpoints
           /\ \A e \in Endpoints :
                /\ watch[w].peak[e] \in Nat /\ watch'[w].peak[e] \in Nat
                /\ healthy'[e] => e \in watch'[w].ever
                /\ e \in watch'[w].always =>
                     /\ healthy'[e]
                     /\ watch[w].peak[e] <= watch'[w].peak[e]
                     /\ inFlight'[e] <= watch'[w].peak[e]
<1>1. watch'[w] = Seen(w) BY DEF Watch
<1>2. /\ watch[w].peak \in [Endpoints -> Nat]
      /\ inFlight' \in [Endpoints -> Nat]
      /\ watch[w].always \subseteq Endpoints
  BY DEF TypeOK
<1> QED BY <1>1, <1>2 DEF Seen

\* A worker that the step does not move stays covered.
LEMMA Unmoved ==
    ASSUME TypeOK, TypeOK', Watch, NEW w \in Workers, Scanned(w),
           pc'[w] = pc[w], idx'[w] = idx[w], best'[w] = best[w],
           bestLoad'[w] = bestLoad[w]
    PROVE  Scanned(w)'
<1>1. CASE pc[w] \in Scanning
  <2>1. bestLoad[w] \in Nat BY DEF TypeOK
  <2>2. /\ watch[w].ever \subseteq watch'[w].ever
        /\ watch'[w].always \subseteq watch[w].always
        /\ watch'[w].always \subseteq Endpoints
        /\ \A e \in Endpoints :
             /\ watch[w].peak[e] \in Nat /\ watch'[w].peak[e] \in Nat
             /\ healthy'[e] => e \in watch'[w].ever
             /\ e \in watch'[w].always =>
                  /\ healthy'[e]
                  /\ watch[w].peak[e] <= watch'[w].peak[e]
                  /\ inFlight'[e] <= watch'[w].peak[e]
    BY <1>1, WatchStep
  <2>3. \A e \in watch'[w].always :
          bestLoad[w] <= watch[w].peak[e] => bestLoad[w] <= watch'[w].peak[e]
    BY <2>1, <2>2
  <2> QED BY <1>1, <2>2, <2>3 DEF Scanned
<1>2. CASE pc[w] \notin Scanning
  BY <1>2 DEF Scanned, Scanning
<1> QED BY <1>1, <1>2

\* A worker that the step moves within its scan stays covered.
LEMMA ScanMoves ==
    ASSUME TypeOK, TypeOK', Watch, NEW w \in Workers, Scanned(w),
           StartAcquire(w) \/ LoadHealthy(w) \/ LoadInFlight(w) \/ LoadFallback(w)
    PROVE  Scanned(w)'
<1> USE DEF Scanning
<1>0. /\ pc'[w] \in Scanning
      /\ UNCHANGED <<inFlight, healthy>>
  BY DEF StartAcquire, LoadHealthy, LoadInFlight, LoadFallback, NextHealth, GoTo,
         TypeOK, atomics
<1>1. /\ watch[w].ever \subseteq watch'[w].ever
      /\ watch'[w].always \subseteq watch[w].always
      /\ watch'[w].always \subseteq Endpoints
      /\ \A e \in Endpoints :
           /\ watch[w].peak[e] \in Nat /\ watch'[w].peak[e] \in Nat
           /\ healthy'[e] => e \in watch'[w].ever
           /\ e \in watch'[w].always =>
                /\ healthy'[e]
                /\ watch[w].peak[e] <= watch'[w].peak[e]
                /\ inFlight'[e] <= watch'[w].peak[e]
  BY <1>0, WatchStep
<1>2. /\ bestLoad[w] \in Nat /\ bestLoad'[w] \in Nat
      /\ idx[w] \in Endpoints /\ idx'[w] \in Endpoints
      /\ \A e \in Endpoints : inFlight[e] \in Nat
      /\ pc[w] \in WorkerLabels
  BY DEF TypeOK
<1>3. CASE StartAcquire(w)
  <2>1. pc'[w] = "health" /\ best'[w] = nil /\ idx'[w] = 1
    BY <1>3 DEF StartAcquire, GoTo, TypeOK
  <2> QED BY <2>1, <1>1 DEF Scanned
<1>4. CASE LoadHealthy(w)
  <2>1. /\ pc[w] = "health" /\ best'[w] = best[w] /\ bestLoad'[w] = bestLoad[w]
        /\ healthy'[idx[w]] = healthy[idx[w]]
    BY <1>4, <1>0 DEF LoadHealthy, picks
  <2>2. /\ best[w] # nil => best[w] \in watch[w].ever
        /\ \A e \in watch[w].always :
             e < idx[w] => best[w] # nil /\ bestLoad[w] <= watch[w].peak[e]
    BY <2>1 DEF Scanned
  <2>3. \A e \in watch'[w].always :
          e < idx[w] => best'[w] # nil /\ bestLoad'[w] <= watch'[w].peak[e]
    BY <2>1, <2>2, <1>1, <1>2
  <2>4. CASE healthy[idx[w]]
    <3>1. pc'[w] = "load" /\ idx'[w] = idx[w]
      BY <1>4, <2>4 DEF LoadHealthy, GoTo, TypeOK
    <3>2. idx[w] \in watch'[w].ever BY <2>1, <2>4, <1>1, <1>2
    <3> QED BY <3>1, <3>2, <2>1, <2>2, <2>3, <1>1 DEF Scanned
  <2>5. CASE ~healthy[idx[w]]
    <3>1. idx[w] \notin watch'[w].always BY <2>1, <2>5, <1>1, <1>2
    <3>2. CASE idx[w] < N
      <4>1. pc'[w] = "health" /\ idx'[w] = idx[w] + 1
        BY <1>4, <2>5, <3>2 DEF LoadHealthy, NextHealth, GoTo, TypeOK
      <4>2. \A e \in watch'[w].always : e < idx'[w] => e < idx[w]
        BY <4>1, <3>1, <1>1, <1>2
      <4> QED BY <4>1, <4>2, <2>1, <2>2, <2>3, <1>1 DEF Scanned
    <3>3. CASE ~(idx[w] < N)
      <4>1. \A e \in watch'[w].always : e < idx[w]
        BY <3>1, <3>3, <1>1, <1>2
      <4>2. pc'[w] = IF best[w] = nil THEN "fallback" ELSE "add"
        BY <1>4, <2>5, <3>3 DEF LoadHealthy, NextHealth, GoTo, TypeOK
      <4>3. best[w] = nil => watch'[w].always = {}
        BY <4>1, <2>1, <2>3
      <4> QED BY <4>1, <4>2, <4>3, <2>1, <2>2, <2>3, <1>1 DEF Scanned
    <3> QED BY <3>2, <3>3
  <2> QED BY <2>4, <2>5
<1>5. CASE LoadInFlight(w)
  <2>1. pc[w] = "load" BY <1>5 DEF LoadInFlight
  <2>2. /\ best[w] # nil => best[w] \in watch[w].ever
        /\ idx[w] \in watch[w].ever
        /\ idx[w] \in watch[w].always => inFlight[idx[w]] <= watch[w].peak[idx[w]]
        /\ \A e \in watch[w].always :
             e < idx[w] => best[w] # nil /\ bestLoad[w] <= watch[w].peak[e]
    BY <2>1, <1>2 DEF Scanned
  <2>3. \/ /\ best[w] = nil \/ inFlight[idx[w]] < bestLoad[w]
           /\ best'[w] = idx[w] /\ bestLoad'[w] = inFlight[idx[w]]
        \/ /\ ~(best[w] = nil \/ inFlight[idx[w]] < bestLoad[w])
           /\ best'[w] = best[w] /\ bestLoad'[w] = bestLoad[w]
    BY <1>5 DEF LoadInFlight, Keep, picks, TypeOK
  <2>4. /\ best'[w] # nil /\ best'[w] \in watch'[w].ever
        /\ bestLoad'[w] <= inFlight[idx[w]]
        /\ best[w] # nil => bestLoad'[w] <= bestLoad[w]
    BY <2>2, <2>3, <1>1, <1>2
  <2>5. \A e \in watch'[w].always :
          e <= idx[w] => bestLoad'[w] <= watch'[w].peak[e]
    <3> SUFFICES ASSUME NEW e \in watch'[w].always, e <= idx[w]
                 PROVE  bestLoad'[w] <= watch'[w].peak[e]
      OBVIOUS
    <3>1. /\ e \in watch[w].always /\ e \in Endpoints
          /\ watch[w].peak[e] <= watch'[w].peak[e]
          /\ watch[w].peak[e] \in Nat /\ watch'[w].peak[e] \in Nat
      BY <1>1
    <3>2. CASE e < idx[w]
      <4>1. best[w] # nil /\ bestLoad[w] <= watch[w].peak[e] BY <2>2, <3>1, <3>2
      <4> QED BY <4>1, <2>4, <3>1, <1>2
    <3>3. CASE e = idx[w] BY <3>3, <2>2, <2>4, <3>1, <1>2
    <3> QED BY <3>1, <3>2, <3>3, <1>2
  <2>6. CASE idx[w] < N
    <3>1. pc'[w] = "health" /\ idx'[w] = idx[w] + 1
      BY <1>5, <2>6 DEF LoadInFlight, NextHealth, GoTo, TypeOK
    <3>2. \A e \in watch'[w].always : e < idx'[w] => e <= idx[w]
      BY <3>1, <1>1, <1>2
    <3> QED BY <3>1, <3>2, <2>4, <2>5, <1>1 DEF Scanned
  <2>7. CASE ~(idx[w] < N)
    <3>1. pc'[w] = "add"
      BY <1>5, <1>2, <2>7 DEF LoadInFlight, NextHealth, GoTo, TypeOK
    <3>2. \A e \in watch'[w].always : e <= idx[w]
      BY <2>7, <1>1, <1>2
    <3> QED BY <3>1, <3>2, <2>4, <2>5, <1>1 DEF Scanned
  <2> QED BY <2>6, <2>7
<1>6. CASE LoadFallback(w)
  <2>1. watch[w].always = {} BY <1>6 DEF LoadFallback, Scanned
  <2>2. watch'[w].always = {} BY <2>1, <1>1
  <2>3. pc'[w] \in {"fallback", "add"}
    BY <1>6 DEF LoadFallback, GoTo, TypeOK
  <2> QED BY <2>2, <2>3, <1>1 DEF Scanned
<1> QED BY <1>3, <1>4, <1>5, <1>6

LEMMA InitScan == Init => ScanInv
BY ActorsAssumption DEF Init, ScanInv, Scanned, Scanning

\* A step moves one goroutine: the workers other than w are where they were.
LEMMA OthersStay ==
    ASSUME TypeOK, NEW w \in Workers,
           Acquire(w) \/ Release(w) \/ FinishRelease(w),
           NEW v \in Workers, v # w
    PROVE  /\ pc'[v] = pc[v] /\ idx'[v] = idx[v]
           /\ best'[v] = best[v] /\ bestLoad'[v] = bestLoad[v]
<1>1. CASE StartAcquire(w)
  BY <1>1 DEF StartAcquire, GoTo, TypeOK
<1>2. CASE LoadHealthy(w)
  BY <1>2 DEF LoadHealthy, NextHealth, GoTo, TypeOK, picks
<1>3. CASE LoadInFlight(w)
  BY <1>3 DEF LoadInFlight, NextHealth, Keep, GoTo, TypeOK, picks
<1>4. CASE LoadFallback(w)
  BY <1>4 DEF LoadFallback, Keep, GoTo, TypeOK, picks
<1>5. CASE AddInFlight(w) \/ Release(w)
  BY <1>5 DEF AddInFlight, Release, GoTo, TypeOK, picks
<1>6. CASE FinishRelease(w)
  BY <1>6 DEF FinishRelease, CountFailure, Evict, ClearFailures, Restore, GoTo,
              TypeOK, picks
<1> QED BY <1>1, <1>2, <1>3, <1>4, <1>5, <1>6 DEF Acquire

LEMMA NextScan == ScanInv /\ TypeOK /\ TypeOK' /\ [Next]_vars => ScanInv'
<1> SUFFICES ASSUME ScanInv, TypeOK, TypeOK', [Next]_vars, NEW v \in Workers
             PROVE  Scanned(v)'
  BY DEF ScanInv
<1>0. Scanned(v) BY DEF ScanInv
<1>1. CASE UNCHANGED vars
  BY <1>0, <1>1 DEF vars, Scanned
<1>2. ASSUME Watch, NEW w \in Workers,
             Acquire(w) \/ Release(w) \/ FinishRelease(w)
      PROVE  Scanned(v)'
  <2>1. CASE v # w BY <1>0, <1>2, <2>1, OthersStay, Unmoved
  <2>2. CASE v = w
    <3>1. CASE StartAcquire(w) \/ LoadHealthy(w) \/ LoadInFlight(w) \/ LoadFallback(w)
      BY <1>0, <1>2, <2>2, <3>1, ScanMoves
    <3>2. CASE AddInFlight(w) \/ Release(w) \/ FinishRelease(w)
      <4>1. pc'[w] \notin Scanning
        BY <3>2 DEF AddInFlight, Release, FinishRelease, CountFailure, Evict,
                    ClearFailures, Restore, GoTo, Scanning, TypeOK
      <4> QED BY <4>1, <2>2 DEF Scanned, Scanning
    <3> QED BY <1>2, <3>1, <3>2 DEF Acquire
  <2> QED BY <2>1, <2>2
<1>3. ASSUME Watch, NEW p \in Probers, StartReady(p) \/ Probe(p)
      PROVE  Scanned(v)'
  <2>1. v # p BY ActorsAssumption
  <2>2. /\ pc'[v] = pc[v] /\ idx'[v] = idx[v]
        /\ best' = best /\ bestLoad' = bestLoad
    <3>1. CASE StartReady(p) \/ Ask(p) \/ Mark(p)
      BY <3>1, <2>1 DEF StartReady, Ask, Mark, GoTo, TypeOK, picks
    <3>2. CASE Forget(p) \/ Unmark(p)
      BY <3>2, <2>1 DEF Forget, Unmark, NextProbe, GoTo, TypeOK, picks
    <3> QED BY <1>3, <3>1, <3>2 DEF Probe
  <2> QED BY <1>0, <1>3, <2>2, Unmoved
<1>4. ASSUME Watch, NEW e \in Endpoints, Toggle(e) PROVE Scanned(v)'
  BY <1>0, <1>4, Unmoved DEF Toggle, picks
<1> QED BY <1>1, <1>2, <1>3, <1>4 DEF Next, Step

\* Least-in-flight routing over atomics that change while it reads them: for any
\* number of endpoints and workers, Acquire never settles on an endpoint that
\* was out of rotation all through its scan while another stayed in it, nor on
\* one loaded above the peak of an endpoint that stayed in it.
THEOREM RoutingSound == Spec => []ChoiceSound
<1>1. ScanInv => ChoiceSound BY DEF ScanInv, Scanned, ChoiceSound
<1>2. Spec => []TypeOK BY TypeCorrect
<1> QED BY <1>1, <1>2, InitScan, NextScan, PTL DEF Spec
=============================================================================
