----------------------------- MODULE GatewayProofs -----------------------------
(***************************************************************************)
(* Proofs about the gateway's process, for any number of sessions, offline *)
(* requests and endpoints and any limits: the controller that all of it    *)
(* shares, the poller that feeds it, and what the handlers take and give   *)
(* back and their clients hear.                                            *)
(***************************************************************************)
EXTENDS Gateway, QueuePoller, FiniteSetTheorems, TLAPS

(* The controller (Admission). *)

\* Together with the sessions admitted, the goroutines that are about to be
\* admitted stay below the ceiling plus the largest race seen.
RacersBounded ==
    \/ inFlight + Cardinality(Racers) = 0
    \/ inFlight + Cardinality(Racers) < MaxInFlight + peakRacers

IInv == TypeOK /\ InFlightExact /\ RacersBounded /\ ClosedExceptStragglers

\* Every population of goroutines is finite.
LEMMA Populations ==
    \A T \in SUBSET Clients : IsFiniteSet(T) /\ Cardinality(T) \in Nat
BY ClientsAssumption, FS_Subset, FS_CardinalityType

\* The populations counted below are sets of goroutines, in every state.
LEMMA Sets ==
    /\ Holders \in SUBSET Clients /\ Racers \in SUBSET Clients
    /\ Holders' \in SUBSET Clients /\ Racers' \in SUBSET Clients
BY DEF Holders, Racers, At

LEMMA InitInv == Init => IInv
<1> SUFFICES ASSUME Init PROVE IInv OBVIOUS
<1>1. Holders = {} /\ Racers = {} BY DEF Init, Holders, Racers, At
<1>2. Cardinality(Holders) = 0 /\ Cardinality(Racers) = 0
  BY <1>1, FS_EmptySet
<1>3. TypeOK BY CooldownAssumption, QueueDepthsAssumption DEF Init, TypeOK, Labels
<1>4. ClosedExceptStragglers
  BY CooldownAssumption DEF Init, ClosedExceptStragglers, Cooling
<1> QED BY <1>2, <1>3, <1>4 DEF Init, IInv, InFlightExact, RacersBounded

\* What one step of one goroutine does to the populations: used by every case
\* below that moves a goroutine from a label to another.
LEMMA Step ==
    ASSUME TypeOK, NEW c \in Clients, NEW to \in Labels, GoTo(c, to)
    PROVE  /\ pc' \in [Clients -> Labels]
           /\ \A labels : At(labels)' = IF to \in labels
                                          THEN At(labels) \cup {c}
                                          ELSE At(labels) \ {c}
BY DEF TypeOK, GoTo, At

LEMMA NextInv == IInv /\ [Next]_vars => IInv'
<1> SUFFICES ASSUME IInv, [Next]_vars PROVE IInv' OBVIOUS
<1> USE DEF IInv
<1>t. /\ inFlight \in Nat /\ sinceTrip \in 0..Cooldown /\ Cooldown \in Nat
      /\ peakRacers \in Nat /\ MaxInFlight \in Int /\ pc \in [Clients -> Labels]
  BY CooldownAssumption, LimitsAssumption DEF TypeOK
<1>h. /\ inFlight = Cardinality(Holders)
      /\ Cardinality(Racers) \in Nat
      /\ IsFiniteSet(Holders) /\ IsFiniteSet(Racers)
  BY Populations, Sets DEF InFlightExact
<1>1. ASSUME NEW c \in Clients, PassGate(c) PROVE IInv'
  <2>1. /\ pc' \in [Clients -> Labels]
        /\ Holders' = Holders \ {c} /\ Racers' = Racers \ {c}
    BY <1>1, Step DEF PassGate, Holders, Racers, Labels
  <2>2. c \notin Holders /\ c \notin Racers
    BY <1>1 DEF PassGate, Holders, Racers, At
  <2>3. Holders' = Holders /\ Racers' = Racers BY <2>1, <2>2
  <2>4. ~Cooling' BY <1>1 DEF PassGate, Cooling
  <2> QED BY <1>1, <2>1, <2>3, <2>4
          DEF PassGate, TypeOK, InFlightExact, RacersBounded, ClosedExceptStragglers
<1>2. ASSUME NEW c \in Clients, CheckInFlight(c) PROVE IInv'
  <2>0. PICK to \in {"trip", "check_queue"} :
          GoTo(c, to) /\ (to = "trip" <=> inFlight >= MaxInFlight)
    BY <1>2 DEF CheckInFlight
  <2>1. /\ pc' \in [Clients -> Labels]
        /\ Holders' = Holders \ {c}
        /\ Racers' = IF to = "check_queue" THEN Racers \cup {c} ELSE Racers \ {c}
        /\ PastGate' = PastGate \cup {c}
    <3>1. to \in Labels /\ GoTo(c, to) BY <2>0 DEF Labels
    <3>2. to # "held" /\ to # "add" /\ to \in {"trip", "check_queue"} BY <2>0
    <3>3. TypeOK OBVIOUS
    <3> HIDE DEF IInv
    <3>4. /\ pc' \in [Clients -> Labels]
          /\ \A labels : At(labels)' = IF to \in labels
                                         THEN At(labels) \cup {c}
                                         ELSE At(labels) \ {c}
      BY <3>1, <3>3, Step
    <3> QED BY <3>2, <3>4 DEF Holders, Racers, PastGate
  <2>2. c \notin Holders /\ c \notin Racers /\ c \in PastGate
    BY <1>2 DEF CheckInFlight, Holders, Racers, PastGate, At
  <2>3. Holders' = Holders /\ PastGate' = PastGate BY <2>1, <2>2
  <2>4. Cardinality(Racers') \in Nat
    BY Populations, Sets
  <2>5. peakRacers' \in Nat /\ peakRacers' >= peakRacers
        /\ peakRacers' >= Cardinality(Racers')
    BY <1>2, <1>t, <2>4 DEF CheckInFlight
  <2>6. RacersBounded'
    <3>1. CASE inFlight >= MaxInFlight
      <4>1. Racers' = Racers BY <2>0, <2>1, <2>2, <3>1
      <4> QED BY <4>1, <1>2, <1>t, <1>h, <2>5 DEF CheckInFlight, RacersBounded
    <3>2. CASE ~(inFlight >= MaxInFlight)
      <4>1. inFlight' + Cardinality(Racers') < MaxInFlight + peakRacers'
        BY <3>2, <1>2, <1>t, <2>4, <2>5 DEF CheckInFlight
      <4> QED BY <4>1 DEF RacersBounded
    <3> QED BY <3>1, <3>2
  <2> QED BY <1>2, <2>1, <2>3, <2>5, <2>6
          DEF CheckInFlight, TypeOK, InFlightExact, ClosedExceptStragglers, Cooling
<1>3. ASSUME NEW c \in Clients, CheckQueue(c) PROVE IInv'
  <2>0. PICK to \in {"trip", "add"} : GoTo(c, to)
    BY <1>3 DEF CheckQueue
  <2>1. /\ pc' \in [Clients -> Labels]
        /\ Holders' = Holders \ {c}
        /\ Racers' = IF to = "add" THEN Racers \cup {c} ELSE Racers \ {c}
        /\ PastGate' = PastGate \cup {c}
    BY <2>0, Step DEF Holders, Racers, PastGate, Labels
  <2>2. c \notin Holders /\ c \in Racers /\ c \in PastGate
    BY <1>3 DEF CheckQueue, Holders, Racers, PastGate, At
  <2>3. Holders' = Holders /\ PastGate' = PastGate BY <2>1, <2>2
  <2>4. Cardinality(Racers') \in Nat /\ Cardinality(Racers') <= Cardinality(Racers)
    <3>1. Cardinality(Racers \ {c}) = Cardinality(Racers) - 1
      BY <2>2, <1>h, FS_RemoveElement
    <3>2. Racers \cup {c} = Racers BY <2>2
    <3>3. Cardinality(Racers') \in Nat BY Populations, Sets
    <3>4. Racers' = Racers \/ Racers' = Racers \ {c} BY <3>2, <2>1
    <3> QED BY <3>1, <3>3, <3>4, <1>h
  <2>6. RacersBounded'
    BY <1>3, <1>t, <1>h, <2>4 DEF CheckQueue, RacersBounded
  <2> QED BY <1>3, <2>1, <2>3, <2>6
          DEF CheckQueue, TypeOK, InFlightExact, ClosedExceptStragglers, Cooling
<1>4. ASSUME NEW c \in Clients, AddInFlight(c) PROVE IInv'
  <2>1. /\ pc' \in [Clients -> Labels]
        /\ Holders' = Holders \cup {c}
        /\ Racers' = Racers \ {c}
        /\ PastGate' = PastGate \ {c}
    BY <1>4, Step DEF AddInFlight, Holders, Racers, PastGate, Labels
  <2>2. c \notin Holders /\ c \in Racers
    BY <1>4 DEF AddInFlight, Holders, Racers, At
  <2>3. /\ Cardinality(Holders') = Cardinality(Holders) + 1
        /\ Cardinality(Racers') = Cardinality(Racers) - 1
    BY <2>1, <2>2, <1>h, FS_AddElement, FS_RemoveElement
  <2>4. InFlightExact' /\ RacersBounded'
    BY <1>4, <1>t, <1>h, <2>3 DEF AddInFlight, InFlightExact, RacersBounded
  <2> QED BY <1>4, <2>1, <2>4
          DEF AddInFlight, TypeOK, ClosedExceptStragglers, Cooling
<1>5. ASSUME NEW c \in Clients, Trip(c) PROVE IInv'
  <2>1. /\ pc' \in [Clients -> Labels]
        /\ Holders' = Holders \ {c} /\ Racers' = Racers \ {c}
        /\ PastGate' = PastGate \ {c}
    BY <1>5, Step DEF Trip, Holders, Racers, PastGate, Labels
  <2>2. c \notin Holders /\ c \notin Racers
    BY <1>5 DEF Trip, Holders, Racers, At
  <2>3. Holders' = Holders /\ Racers' = Racers BY <2>1, <2>2
  <2>4. PastGate \subseteq Clients BY DEF PastGate, At
  <2>5. TypeOK' BY <1>5, <1>t, <2>1, <2>4 DEF Trip, TypeOK
  <2>6. ClosedExceptStragglers' BY <1>5, <2>1 DEF Trip, ClosedExceptStragglers
  <2> QED BY <1>5, <2>3, <2>5, <2>6 DEF Trip, InFlightExact, RacersBounded
<1>6. ASSUME NEW c \in Clients, Release(c) PROVE IInv'
  <2>1. /\ pc' \in [Clients -> Labels]
        /\ Holders' = Holders \ {c} /\ Racers' = Racers \ {c}
        /\ PastGate' = PastGate \ {c}
    BY <1>6, Step DEF Release, Holders, Racers, PastGate, Labels
  <2>2. c \in Holders /\ c \notin Racers /\ c \notin PastGate
    BY <1>6 DEF Release, Holders, Racers, PastGate, At
  <2>3. Racers' = Racers /\ PastGate' = PastGate BY <2>1, <2>2
  <2>4. Cardinality(Holders') = Cardinality(Holders) - 1
        /\ Cardinality(Holders') \in Nat
    BY <2>1, <2>2, <1>h, FS_RemoveElement, Populations, Sets
  <2>5. inFlight' = inFlight - 1 /\ inFlight' \in Nat
    BY <1>6, <1>t, <1>h, <2>4 DEF Release
  <2>6. InFlightExact' /\ RacersBounded'
    BY <1>6, <1>t, <1>h, <2>3, <2>4, <2>5
    DEF Release, InFlightExact, RacersBounded
  <2> QED BY <1>6, <2>1, <2>3, <2>5, <2>6
          DEF Release, TypeOK, ClosedExceptStragglers, Cooling
<1>7. ASSUME NEW d \in QueueDepths, ObserveQueueDepth(d) PROVE IInv'
  BY <1>7 DEF ObserveQueueDepth, TypeOK, InFlightExact, RacersBounded,
     ClosedExceptStragglers, Cooling, Holders, Racers, PastGate, At
<1>8. CASE Tick
  BY <1>8, <1>t DEF Tick, TypeOK, InFlightExact, RacersBounded,
     ClosedExceptStragglers, Cooling, Holders, Racers, PastGate, At
<1>9. CASE UNCHANGED vars
  BY <1>9 DEF vars, TypeOK, InFlightExact, RacersBounded,
     ClosedExceptStragglers, Cooling, Holders, Racers, PastGate, At
<1> QED
  BY <1>1, <1>2, <1>3, <1>4, <1>5, <1>6, <1>7, <1>8, <1>9
  DEF Next, TryAdmit, RejectCooling

\* The inductive invariant holds in every reachable state.
THEOREM Inductive == Spec => []IInv
BY InitInv, NextInv, PTL DEF Spec

\* Type correctness.
THEOREM TypeCorrect == Spec => []TypeOK
<1>1. IInv => TypeOK BY DEF IInv
<1> QED BY <1>1, Inductive, PTL

\* No slot leaks and none is returned twice, for any number of goroutines.
THEOREM SlotsExact == Spec => []InFlightExact
<1>1. IInv => InFlightExact BY DEF IInv
<1> QED BY <1>1, Inductive, PTL

\* The ceiling is exceeded by at most the size of the largest race minus one.
THEOREM Overshoot == Spec => []OvershootBounded
<1>1. IInv => OvershootBounded
  <2> SUFFICES ASSUME IInv, Holders # {} PROVE inFlight < MaxInFlight + peakRacers
    BY DEF OvershootBounded
  <2>1. Cardinality(Holders) # 0 /\ Cardinality(Racers) \in Nat
    BY Populations, Sets, FS_EmptySet
  <2> QED BY <2>1, LimitsAssumption DEF IInv, TypeOK, InFlightExact, RacersBounded
<1> QED BY <1>1, Inductive, PTL

\* After a trip only the goroutines already past the gate can be admitted.
THEOREM ClosedAfterTrip == Spec => []ClosedExceptStragglers
<1>1. IInv => ClosedExceptStragglers BY DEF IInv
<1> QED BY <1>1, Inductive, PTL
------------------------------------------------------------------------------
(* The poller (QueuePoller). *)

\* The counters, read as numbers.
CountersOK ==
    /\ triton \in Page /\ last \in Page
    /\ primed \in BOOLEAN
    /\ unread \in 0..MaxUs /\ misled \in BOOLEAN

\* Once primed by a metrics page, what the next scrape will find new is at most
\* what was spent since.
Accounted == primed /\ ~misled => triton.us - last.us <= unread

PollerInv == CountersOK /\ Accounted

LEMMA DivBound ==
    ASSUME NEW a \in Nat, NEW b \in Nat \ {0}
    PROVE  (a \div b) * b <= a
OBVIOUS

LEMMA PollerInitInv == PollerInit => PollerInv
<1> SUFFICES ASSUME PollerInit PROVE PollerInv OBVIOUS
<1>1. /\ NoCounters \in Page
      /\ [count |-> MaxCount, us |-> MaxUs] \in Page
      /\ 0 \in 0..MaxUs
  BY UnitsAssumption DEF Page, NoCounters
<1> QED BY <1>1 DEF PollerInit, PollerInv, CountersOK, Accounted

LEMMA PollerNextInv == PollerInv /\ [PollerNext]_allVars => PollerInv'
<1> SUFFICES ASSUME PollerInv, [PollerNext]_allVars PROVE PollerInv'
  OBVIOUS
<1> USE DEF PollerInv, CountersOK, Accounted, Page, NoCounters
<1> USE UnitsAssumption
<1>1. CASE Sessions
  BY <1>1 DEF Sessions, pollVars
<1>2. ASSUME NEW page \in Page, PollAnswered(page), misled' \in BOOLEAN,
             misled' \/ page = triton
      PROVE  PollerInv'
  <2>1. triton' = triton /\ last' = page /\ primed' = TRUE /\ unread' = 0
    BY <1>2 DEF PollAnswered
  <2>2. CountersOK'
    BY <1>2, <2>1
  <2>3. Accounted'
    BY <1>2, <2>1
  <2> QED BY <2>2, <2>3
<1>3. triton \in Page /\ NoCounters \in Page
  OBVIOUS
<1>4. CASE PollAnswered(triton) /\ misled' = FALSE
  BY <1>2, <1>3, <1>4, Zenon
<1>5. CASE PollAnswered(NoCounters) /\ misled' = TRUE
  BY <1>2, <1>3, <1>5, Zenon
<1>6. CASE PollFails
  BY <1>6 DEF PollFails, allVars, pollVars
<1>7. CASE StartBatch \/ EndBatch
  BY <1>7 DEF StartBatch, EndBatch
<1>8. ASSUME NEW w \in 0..MaxWait, Serve(w) PROVE PollerInv'
  BY <1>8 DEF Serve, AtBound
<1>9. CASE RestartTriton
  BY <1>9 DEF RestartTriton
<1>10. CASE UNCHANGED allVars
  BY <1>10 DEF allVars, pollVars
<1> QED BY <1>1, <1>4, <1>5, <1>6, <1>7, <1>8, <1>9, <1>10 DEF PollerNext, Poll

\* An answered scrape reports a depth of the right range and nothing else.
LEMMA AnsweredStep ==
    ASSUME CountersOK, NEW page \in Page, PollAnswered(page)
    PROVE  \/ UNCHANGED vars
           \/ /\ primed
              /\ page.us - last.us \in 1..MaxUs
              /\ ObserveQueueDepth((page.us - last.us) \div UsPerSlot)
BY UnitsAssumption DEF CountersOK, Page, PollAnswered

LEMMA StepImplements == CountersOK /\ [PollerNext]_allVars => [Next]_vars
<1> SUFFICES ASSUME CountersOK, [PollerNext]_allVars PROVE [Next]_vars
  OBVIOUS
<1>1. ASSUME NEW page \in Page, PollAnswered(page) PROVE [Next]_vars
  <2>1. CASE UNCHANGED vars BY <2>1
  <2>2. CASE ~UNCHANGED vars
    <3>1. PICK us \in 1..MaxUs : ObserveQueueDepth(us \div UsPerSlot)
      BY <1>1, <2>2, AnsweredStep
    <3>2. us \in 0..MaxUs BY UnitsAssumption
    <3>3. us \div UsPerSlot \in QueueDepths BY <3>2, DepthsReportable, Zenon
    <3> QED BY <3>1, <3>3 DEF Next
  <2> QED BY <2>1, <2>2
<1>2. triton \in Page /\ NoCounters \in Page
  BY UnitsAssumption DEF CountersOK, Page, NoCounters
<1>3. CASE Poll
  BY <1>1, <1>2, <1>3 DEF Poll, PollFails, allVars, vars
<1>4. CASE Sessions
  BY <1>4 DEF Sessions, Next
<1>5. CASE StartBatch \/ EndBatch \/ RestartTriton
  BY <1>5 DEF StartBatch, EndBatch, RestartTriton
<1>6. ASSUME NEW w \in 0..MaxWait, Serve(w) PROVE [Next]_vars
  BY <1>6 DEF Serve
<1>7. CASE UNCHANGED allVars
  BY <1>7 DEF allVars
<1> QED BY <1>3, <1>4, <1>5, <1>6, <1>7 DEF PollerNext

\* With the poller, the restarts of Triton and the batch route around it, the
\* controller behaves as Admission says.
THEOREM Implements == PollerSpec => ImplementsAdmission
<1>1. PollerInit => Init BY DEF PollerInit
<1>2. PollerInv => CountersOK BY DEF PollerInv
<1> QED BY <1>1, <1>2, PollerInitInv, PollerNextInv, StepImplements, PTL
        DEF PollerSpec, ImplementsAdmission, Spec

\* So every slot the controller counts is held by a session, here too.
THEOREM PollerSlotsExact == PollerSpec => []InFlightExact
BY Implements, SlotsExact, PTL DEF ImplementsAdmission

\* Whether a batch request is running stays a flag whatever the poller does.
BatchOK == batch \in BOOLEAN

LEMMA BatchStep == BatchOK /\ [PollerNext]_allVars => BatchOK'
BY Zenon DEF BatchOK, PollerNext, Poll, PollFails, PollAnswered, StartBatch, EndBatch, Serve,
       RestartTriton, Sessions, allVars, pollVars

\* Every variable keeps its type: those of the controller because it still is
\* Admission's, the counters and the ghosts by PollerInv.
THEOREM PollerTypeCorrect == PollerSpec => []PollerTypeOK
<1>1. PollerInit => BatchOK BY DEF PollerInit, BatchOK
<1>2. TypeOK /\ PollerInv /\ BatchOK => PollerTypeOK
  BY DEF BatchOK, PollerTypeOK, PollerInv, CountersOK
<1>3. Spec => []TypeOK BY TypeCorrect
<1> QED BY <1>1, <1>2, <1>3, Implements, BatchStep, PollerInitInv, PollerNextInv, PTL
        DEF PollerSpec, ImplementsAdmission

LEMMA StepNoPhantom ==
    PollerInv /\ [PollerNext]_allVars =>
      [queueDepth' # queueDepth => queueDepth' * UsPerSlot <= unread \/ misled]_allVars
<1> SUFFICES ASSUME PollerInv, PollerNext, queueDepth' # queueDepth, ~misled
             PROVE  queueDepth' * UsPerSlot <= unread
  BY DEF allVars, vars
<1>1. CASE PollAnswered(triton)
  <2>1. /\ primed
        /\ triton.us - last.us \in Nat
        /\ queueDepth' = (triton.us - last.us) \div UsPerSlot
    BY <1>1, AnsweredStep DEF PollerInv, CountersOK, vars, ObserveQueueDepth
  <2>2. triton.us - last.us <= unread /\ unread \in Nat
    BY <2>1 DEF PollerInv, Accounted, CountersOK
  <2>3. queueDepth' * UsPerSlot <= triton.us - last.us
    BY <2>1, DivBound, UnitsAssumption
  <2>4. queueDepth' * UsPerSlot \in Int
    BY <2>1, UnitsAssumption
  <2> QED BY <2>1, <2>2, <2>3, <2>4
<1>2. ASSUME NEW c \in Clients, TryAdmit(c) \/ Release(c) PROVE FALSE
  BY <1>2 DEF TryAdmit, PassGate, RejectCooling, CheckInFlight, CheckQueue,
              AddInFlight, Trip, Release, vars
<1>3. ~(Sessions \/ PollFails \/ StartBatch \/ EndBatch \/ RestartTriton)
  BY <1>2 DEF Sessions, Tick, PollFails, StartBatch, EndBatch, RestartTriton, allVars, vars
<1>4. ASSUME NEW w \in 0..MaxWait, Serve(w) PROVE FALSE
  BY <1>4 DEF Serve, vars
<1>5. ~PollAnswered(NoCounters)
  \* A page without counters shows no growth.
  BY UnitsAssumption DEF PollAnswered, NoCounters, PollerInv, CountersOK, Page, vars
<1> QED BY <1>1, <1>3, <1>4, <1>5 DEF PollerNext, Poll

\* No phantom depth: what is reported was really spent in Triton's queues
\* since the previous answer, if that answer carried the counters.
THEOREM NoPhantom == PollerSpec => NoPhantomDepth
<1>1. PollerInv /\ [PollerNext]_allVars =>
        [queueDepth' # queueDepth => queueDepth' * UsPerSlot <= unread \/ misled]_allVars
  BY StepNoPhantom
<1> QED BY <1>1, PollerInitInv, PollerNextInv, PTL
        DEF PollerSpec, NoPhantomDepth
------------------------------------------------------------------------------
(* The handlers (Gateway). *)

BatchPhases == {"out", "acquire", "frontend", "latents", "stream", "release", "uncount"}

\* Where a handler of a live session is counted, by which counter.
Gauged == Phases \ {"out", "upgrade", "count", "return"}
Sessioned == Gauged \ {"enter", "uncount"}
Busy == Phases \ {"out"}

\* The members of G that are in one of the phases of T.
In(G, T) == {g \in G : phase[g] \in T}

LeasesOf(e) == {h \in Handlers : phase[h] \in Leased /\ lease[h] = e}

\* Where the handlers are.
Places ==
    /\ phase \in [Handlers -> Phases]
    /\ \A b \in Batches : phase[b] \in BatchPhases
    /\ \A c \in Clients : pc[c] = "held" <=> phase[c] # "out"

\* The counters that no lock ties to the controller's.
Counts ==
    /\ sessions = Cardinality(In(Clients, Sessioned))
    /\ gauge = [stream |-> Cardinality(In(Clients, Gauged)),
                batch |-> Cardinality(In(Batches, Busy))]

\* The leases that are out.
Leases ==
    /\ lease \in [Handlers -> Endpoints \cup {none}]
    /\ load \in [Endpoints -> Nat]
    /\ \A h \in Handlers : phase[h] \in Leased => lease[h] \in Endpoints
    /\ \A e \in Endpoints : load[e] = Cardinality(LeasesOf(e))

Accounts == Places /\ Counts /\ Leases

LEMMA HandlersFinite == IsFiniteSet(Handlers)
BY RoutesAssumption, ClientsAssumption, FS_Union DEF Handlers

LEMMA Finite ==
    ASSUME NEW S \in SUBSET Handlers
    PROVE  IsFiniteSet(S) /\ Cardinality(S) \in Nat
BY HandlersFinite, FS_Subset, FS_CardinalityType

\* A scrape changes nothing of what it reads.
LEMMA OnRoutes == [GatewayNext]_gvars => [RoutesNext]_routes
BY DEF GatewayNext, ReadSlots, ReadSessions, gvars

\* Every step of the gateway is one of the controller, or leaves it alone.
LEMMA Controller == [RoutesNext]_routes => [Next]_vars
<1> SUFFICES ASSUME [RoutesNext]_routes PROVE Next \/ UNCHANGED vars
  BY DEF Next
<1>1. ASSUME NEW c \in Clients, Admit(c) PROVE Next
  BY <1>1 DEF Admit, Next
<1>2. ASSUME NEW c \in Clients, Return(c) PROVE Next
  BY <1>2 DEF Return, Next
<1>3. ASSUME NEW h \in Handlers, Hops(h) PROVE UNCHANGED vars
  BY <1>3 DEF Hops, Acquire, Frontend, Latents, CallFails, ReleaseLease
<1>4. ASSUME NEW c \in Clients, HandleStream(c), ~Return(c) PROVE UNCHANGED vars
  BY <1>3, <1>4 DEF HandleStream, Handlers, Upgrade, CountGauge, CountSession, ReadFails, Refuse,
     Begin, Chunk, SayDone, Report, Leave, UncountGauge
<1>5. ASSUME NEW b \in Batches, HandleBatch(b) PROVE UNCHANGED vars
  BY <1>3, <1>5 DEF HandleBatch, Handlers, BatchStarts, BatchYields, BatchChunk, BatchAnswers,
     BatchReturns, routes
<1>6. ASSUME NEW c \in Clients, Ask(c) \/ HangUp(c) \/ Expire(c) PROVE UNCHANGED vars
  BY <1>6 DEF Ask, HangUp, Expire
<1>7. CASE Around
  BY <1>7 DEF Around, Next
<1>8. CASE UNCHANGED routes
  BY <1>8 DEF routes
<1> QED BY <1>1, <1>2, <1>4, <1>5, <1>6, <1>7, <1>8 DEF RoutesNext

\* How a population changes when one handler moves.
LEMMA Moves ==
    ASSUME phase \in [Handlers -> Phases], NEW h \in Handlers, NEW l \in Phases, Go(h, l),
           NEW G \in SUBSET Handlers, NEW T
    PROVE  /\ phase' \in [Handlers -> Phases]
           /\ Cardinality(In(G, T))' =
                IF h \in G /\ l \in T /\ phase[h] \notin T THEN Cardinality(In(G, T)) + 1
                ELSE IF h \in G /\ l \notin T /\ phase[h] \in T THEN Cardinality(In(G, T)) - 1
                ELSE Cardinality(In(G, T))
<1>1. IsFiniteSet(In(G, T))
  BY Finite DEF In
<1>2. In(G, T)' = IF h \in G /\ l \in T THEN In(G, T) \cup {h} ELSE In(G, T) \ {h}
  BY DEF Go, In
<1>3. h \in In(G, T) <=> h \in G /\ phase[h] \in T
  BY DEF In
<1>4. phase' \in [Handlers -> Phases]
  BY DEF Go
<1>5. /\ Cardinality(In(G, T) \cup {h}) =
           IF h \in In(G, T) THEN Cardinality(In(G, T)) ELSE Cardinality(In(G, T)) + 1
      /\ Cardinality(In(G, T) \ {h}) =
           IF h \in In(G, T) THEN Cardinality(In(G, T)) - 1 ELSE Cardinality(In(G, T))
  BY <1>1, FS_AddElement, FS_RemoveElement, Zenon
<1>6. Cardinality(In(G, T))' = Cardinality(In(G, T)')
  OBVIOUS
<1> QED BY <1>2, <1>3, <1>4, <1>5, <1>6

\* A handler moves, and the counters with it: one conjunct per counter.
Move(h, l) ==
    LET change(G, T) == IF h \in G /\ l \in T /\ phase[h] \notin T THEN 1
                        ELSE IF h \in G /\ l \notin T /\ phase[h] \in T THEN -1 ELSE 0
    IN  /\ Go(h, l)
        /\ h \in Batches => l \in BatchPhases
        /\ sessions' = sessions + change(Clients, Sessioned)
        /\ gauge' = [stream |-> gauge.stream + change(Clients, Gauged),
                     batch |-> gauge.batch + change(Batches, Busy)]

LEMMA MoveCounts ==
    ASSUME Places, Counts, NEW h \in Handlers, NEW l \in Phases, Move(h, l)
    PROVE  Counts'
<1>1. phase \in [Handlers -> Phases] /\ Go(h, l) /\ Clients \in SUBSET Handlers /\ Batches \in SUBSET Handlers
  BY DEF Places, Move, Handlers
<1>2. /\ Cardinality(In(Clients, Sessioned)) \in Int
      /\ Cardinality(In(Clients, Gauged)) \in Int
      /\ Cardinality(In(Batches, Busy)) \in Int
  BY <1>1, Finite DEF In
<1>3. sessions' = Cardinality(In(Clients, Sessioned))'
  <2>1. Cardinality(In(Clients, Sessioned))' =
          IF h \in Clients /\ l \in Sessioned /\ phase[h] \notin Sessioned
            THEN Cardinality(In(Clients, Sessioned)) + 1
          ELSE IF h \in Clients /\ l \notin Sessioned /\ phase[h] \in Sessioned
            THEN Cardinality(In(Clients, Sessioned)) - 1
          ELSE Cardinality(In(Clients, Sessioned))
    BY <1>1, Moves, ZenonT(60)
  <2> QED BY <1>2, <2>1 DEF Move, Counts
<1>4. gauge'.stream = Cardinality(In(Clients, Gauged))'
  <2>1. Cardinality(In(Clients, Gauged))' =
          IF h \in Clients /\ l \in Gauged /\ phase[h] \notin Gauged
            THEN Cardinality(In(Clients, Gauged)) + 1
          ELSE IF h \in Clients /\ l \notin Gauged /\ phase[h] \in Gauged
            THEN Cardinality(In(Clients, Gauged)) - 1
          ELSE Cardinality(In(Clients, Gauged))
    BY <1>1, Moves, ZenonT(60)
  <2> QED BY <1>2, <2>1 DEF Move, Counts
<1>5. gauge'.batch = Cardinality(In(Batches, Busy))'
  <2>1. Cardinality(In(Batches, Busy))' =
          IF h \in Batches /\ l \in Busy /\ phase[h] \notin Busy
            THEN Cardinality(In(Batches, Busy)) + 1
          ELSE IF h \in Batches /\ l \notin Busy /\ phase[h] \in Busy
            THEN Cardinality(In(Batches, Busy)) - 1
          ELSE Cardinality(In(Batches, Busy))
    BY <1>1, Moves, ZenonT(60)
  <2> QED BY <1>2, <2>1 DEF Move, Counts
<1>6. gauge' = [stream |-> gauge'.stream, batch |-> gauge'.batch]
  BY DEF Move
<1> QED BY <1>3, <1>4, <1>5, <1>6 DEF Counts

\* A move between the two places that a lease can be in, or outside them.
LEMMA MoveLeases ==
    ASSUME Places, Leases, NEW h \in Handlers, NEW l \in Phases, Go(h, l),
           l \in Leased <=> phase[h] \in Leased,
           UNCHANGED <<lease, load>>
    PROVE  Leases'
<1>1. \A e \in Endpoints : LeasesOf(e)' = LeasesOf(e)
  BY DEF LeasesOf, Go, Places
<1>2. \A g \in Handlers : phase'[g] \in Leased => phase[g] \in Leased
  BY DEF Go, Places
<1> QED BY <1>1, <1>2 DEF Leases

LEMMA LeaseTaken ==
    ASSUME Places, Leases, NEW h \in Handlers, NEW l \in Leased, Go(h, l),
           phase[h] \notin Leased, NEW e \in Endpoints,
           lease' = [lease EXCEPT ![h] = e], load' = [load EXCEPT ![e] = @ + 1]
    PROVE  Leases'
<1>1. \A f \in Endpoints :
        LeasesOf(f)' = IF f = e THEN LeasesOf(f) \cup {h} ELSE LeasesOf(f)
  BY DEF LeasesOf, Go, Places, Leases
<1>2. IsFiniteSet(LeasesOf(e)) /\ h \notin LeasesOf(e)
  BY Finite DEF LeasesOf
<1>3. Cardinality(LeasesOf(e) \cup {h}) = Cardinality(LeasesOf(e)) + 1
  BY <1>2, FS_AddElement
<1>4. \A f \in Endpoints : load'[f] = Cardinality(LeasesOf(f))'
  BY <1>1, <1>3 DEF Leases
<1>5. \A g \in Handlers : phase'[g] \in Leased => lease'[g] \in Endpoints
  BY DEF Go, Places, Leases
<1> QED BY <1>4, <1>5 DEF Leases

LEMMA LeaseGiven ==
    ASSUME Places, Leases, NEW h \in Handlers, NEW l \in Phases \ Leased, Go(h, l),
           phase[h] \in Leased,
           lease' = [lease EXCEPT ![h] = none],
           load' = [load EXCEPT ![lease[h]] = @ - 1]
    PROVE  Leases'
<1> DEFINE e == lease[h]
<1>1. e \in Endpoints /\ none \notin Endpoints
  BY RoutesAssumption DEF Leases
<1>2. \A f \in Endpoints :
        LeasesOf(f)' = IF f = e THEN LeasesOf(f) \ {h} ELSE LeasesOf(f)
  BY <1>1 DEF LeasesOf, Go, Places, Leases
<1>3. IsFiniteSet(LeasesOf(e)) /\ h \in LeasesOf(e)
  BY Finite DEF LeasesOf
<1>4. Cardinality(LeasesOf(e) \ {h}) = Cardinality(LeasesOf(e)) - 1
      /\ Cardinality(LeasesOf(e) \ {h}) \in Nat
  BY <1>3, FS_RemoveElement, Finite DEF LeasesOf
<1>5. load' \in [Endpoints -> Nat] /\ \A f \in Endpoints : load'[f] = Cardinality(LeasesOf(f))'
  BY <1>1, <1>2, <1>4 DEF Leases
<1>6. \A g \in Handlers : phase'[g] \in Leased => lease'[g] \in Endpoints
  BY DEF Go, Places, Leases
<1>7. lease' \in [Handlers -> Endpoints \cup {none}]
  BY DEF Leases
<1> QED BY <1>5, <1>6, <1>7 DEF Leases

LEMMA MovePlaces ==
    ASSUME Places, NEW h \in Handlers, NEW l \in Phases, Move(h, l), UNCHANGED vars,
           h \in Clients => phase[h] # "out" /\ l # "out"
    PROVE  Places'
BY DEF Places, Move, Go, vars, Handlers, BatchPhases, Phases

LEMMA InitAccounts == GatewayInit => Accounts
<1> SUFFICES ASSUME GatewayInit PROVE Accounts
  OBVIOUS
<1>1. Places
  BY DEF GatewayInit, Init, Places, Phases, BatchPhases, Handlers
<1>2. /\ In(Clients, Sessioned) = {} /\ In(Clients, Gauged) = {} /\ In(Batches, Busy) = {}
      /\ \A e \in Endpoints : LeasesOf(e) = {}
  BY DEF GatewayInit, In, LeasesOf, Sessioned, Gauged, Busy, Leased, Handlers
<1>3. Counts
  BY <1>2, FS_EmptySet DEF GatewayInit, Counts
<1>4. Leases
  BY <1>2, FS_EmptySet DEF GatewayInit, Leases, Leased
<1> QED BY <1>1, <1>3, <1>4 DEF Accounts

\* What is counted where, as the actions name it.
LEMMA Ints ==
    ASSUME Accounts
    PROVE  /\ Clients \cap Batches = {}
           /\ \A h \in Handlers : phase[h] \in Phases
           /\ gauge = [stream |-> gauge.stream, batch |-> gauge.batch]
           /\ sessions \in Nat /\ gauge.stream \in Nat /\ gauge.batch \in Nat
BY RoutesAssumption, Finite DEF Accounts, Places, Counts, In, Handlers

LEMMA HopsAccounts ==
    ASSUME Accounts, NEW h \in Handlers, Hops(h)
    PROVE  Accounts'
<1> USE DEF Accounts, Phases, BatchPhases, Gauged, Sessioned, Busy, Leased
<1>0. /\ Clients \cap Batches = {} /\ phase[h] \in Phases
      /\ gauge = [stream |-> gauge.stream, batch |-> gauge.batch]
      /\ sessions \in Nat /\ gauge.stream \in Nat /\ gauge.batch \in Nat
  BY Ints
<1>1. CASE Acquire(h)
  <2>1. Move(h, "frontend") /\ phase[h] = "acquire" /\ UNCHANGED vars
    BY <1>0, <1>1 DEF Acquire, Move
  <2>2. Places' /\ Counts'
    BY <2>1, MovePlaces, MoveCounts
  <2>3. Leases'
    BY <1>1, LeaseTaken DEF Acquire
  <2> QED BY <2>2, <2>3
<1>2. CASE Frontend(h)
  <2>1. Move(h, "latents") /\ phase[h] = "frontend" /\ UNCHANGED <<vars, lease, load>>
    BY <1>0, <1>2 DEF Frontend, Move, work
  <2>2. Places' /\ Counts' /\ Leases'
    BY <2>1, MovePlaces, MoveCounts, MoveLeases DEF Move
  <2> QED BY <2>2
<1>3. CASE Latents(h)
  <2>1. Move(h, "stream") /\ phase[h] = "latents" /\ UNCHANGED <<vars, lease, load>>
    BY <1>0, <1>3 DEF Latents, Move
  <2>2. Places' /\ Counts' /\ Leases'
    BY <2>1, MovePlaces, MoveCounts, MoveLeases DEF Move
  <2> QED BY <2>2
<1>4. CASE CallFails(h)
  <2>1. Move(h, "release") /\ phase[h] \in {"frontend", "latents", "stream"}
        /\ UNCHANGED <<vars, lease, load>>
    BY <1>0, <1>4 DEF CallFails, GiveUp, Move
  <2>2. Places' /\ Counts' /\ Leases'
    BY <2>1, MovePlaces, MoveCounts, MoveLeases DEF Move
  <2> QED BY <2>2
<1>5. CASE ReleaseLease(h)
  <2> DEFINE l == IF h \in Batches THEN "uncount" ELSE IF failed[h] THEN "report" ELSE "read"
  <2>1. Move(h, l) /\ phase[h] = "release" /\ UNCHANGED vars
    BY <1>0, <1>5 DEF ReleaseLease, Move, Handlers
  <2>2. l \in Phases \ Leased /\ l # "out"
    OBVIOUS
  <2> HIDE DEF l
  <2>3. Places' /\ Counts'
    BY <2>1, <2>2, MovePlaces, MoveCounts
  <2>4. Leases'
    BY <1>5, <2>1, <2>2, LeaseGiven DEF ReleaseLease, Move
  <2> QED BY <2>3, <2>4
<1> QED BY <1>1, <1>2, <1>3, <1>4, <1>5 DEF Hops

\* A step that moves no handler and no counter.
LEMMA StillAccounts ==
    ASSUME Accounts, UNCHANGED <<phase, sessions, gauge, lease, load, pc>>
    PROVE  Accounts'
BY DEF Accounts, Places, Counts, Leases, In, LeasesOf

LEMMA StreamAccounts ==
    ASSUME Accounts, NEW h \in Clients, HandleStream(h), ~Return(h), ~Hops(h)
    PROVE  Accounts'
<1> USE DEF Accounts, Phases, BatchPhases, Gauged, Sessioned, Busy, Leased
<1>0. /\ Clients \cap Batches = {} /\ h \in Handlers /\ phase[h] \in Phases
      /\ gauge = [stream |-> gauge.stream, batch |-> gauge.batch]
      /\ sessions \in Nat /\ gauge.stream \in Nat /\ gauge.batch \in Nat
  BY Ints DEF Handlers
<1>1. CASE Upgrade(h)
  <2>1. PICK l \in {"count", "return"} : Go(h, l)
    BY <1>1 DEF Upgrade
  <2>2. Move(h, l) /\ phase[h] = "upgrade" /\ UNCHANGED <<vars, lease, load>>
    BY <1>0, <1>1, <2>1 DEF Upgrade, Move, work
  <2> QED BY <1>0, <2>1, <2>2, MovePlaces, MoveCounts, MoveLeases DEF Move
<1>2. CASE CountGauge(h)
  <2>1. Move(h, "enter") /\ phase[h] = "count" /\ UNCHANGED <<vars, lease, load>>
    BY <1>0, <1>2 DEF CountGauge, work, Move
  <2> QED BY <1>0, <2>1, MovePlaces, MoveCounts, MoveLeases DEF Move
<1>3. CASE CountSession(h)
  <2>1. Move(h, "read") /\ phase[h] = "enter" /\ UNCHANGED <<vars, lease, load>>
    BY <1>0, <1>3 DEF CountSession, work, Move
  <2> QED BY <1>0, <2>1, MovePlaces, MoveCounts, MoveLeases DEF Move
<1>4. CASE ReadFails(h)
  <2>1. Move(h, "leave") /\ phase[h] = "read" /\ UNCHANGED <<vars, lease, load>>
    BY <1>0, <1>4 DEF ReadFails, work, Move
  <2> QED BY <1>0, <2>1, MovePlaces, MoveCounts, MoveLeases DEF Move
<1>5. CASE Refuse(h)
  BY <1>5, StillAccounts DEF Refuse, vars, work
<1>6. CASE Begin(h)
  <2>1. Move(h, "acquire") /\ phase[h] = "read" /\ UNCHANGED <<vars, lease, load>>
    BY <1>0, <1>6 DEF Begin, Take, work, Move
  <2> QED BY <1>0, <2>1, MovePlaces, MoveCounts, MoveLeases DEF Move
<1>7. CASE Chunk(h)
  <2>1. CASE phase' = phase
    BY <1>7, <2>1, StillAccounts DEF Chunk, vars
  <2>2. CASE phase' # phase
    <3>1. Move(h, "release") /\ phase[h] = "stream" /\ UNCHANGED <<vars, lease, load>>
      BY <1>0, <1>7, <2>2 DEF Chunk, GiveUp, Move
    <3> QED BY <1>0, <3>1, MovePlaces, MoveCounts, MoveLeases DEF Move
  <2> QED BY <2>1, <2>2
<1>8. CASE SayDone(h)
  <2>1. Move(h, "release") /\ phase[h] = "stream" /\ UNCHANGED <<vars, lease, load>>
    BY <1>0, <1>8 DEF SayDone, Move
  <2> QED BY <1>0, <2>1, MovePlaces, MoveCounts, MoveLeases DEF Move
<1>9. CASE Report(h)
  <2>1. Move(h, "leave") /\ phase[h] = "report" /\ UNCHANGED <<vars, lease, load>>
    BY <1>0, <1>9 DEF Report, work, Move
  <2> QED BY <1>0, <2>1, MovePlaces, MoveCounts, MoveLeases DEF Move
<1>10. CASE Leave(h)
  <2>1. Move(h, "uncount") /\ phase[h] = "leave" /\ UNCHANGED <<vars, lease, load>>
    BY <1>0, <1>10 DEF Leave, work, Move
  <2> QED BY <1>0, <2>1, MovePlaces, MoveCounts, MoveLeases DEF Move
<1>11. CASE UncountGauge(h)
  <2>1. Move(h, "return") /\ phase[h] = "uncount" /\ UNCHANGED <<vars, lease, load>>
    BY <1>0, <1>11 DEF UncountGauge, work, Move
  <2> QED BY <1>0, <2>1, MovePlaces, MoveCounts, MoveLeases DEF Move
<1> QED BY <1>1, <1>2, <1>3, <1>4, <1>5, <1>6, <1>7, <1>8, <1>9, <1>10, <1>11 DEF HandleStream

\* The first and the last step of a live session, with the controller.
LEMMA AdmitAccounts ==
    ASSUME Accounts, TypeOK, NEW h \in Clients, Admit(h)
    PROVE  Accounts'
<1> USE DEF Accounts, Phases, BatchPhases, Gauged, Sessioned, Busy, Leased
<1>0. /\ Clients \cap Batches = {} /\ h \in Handlers /\ phase[h] \in Phases
      /\ gauge = [stream |-> gauge.stream, batch |-> gauge.batch]
      /\ sessions \in Nat /\ gauge.stream \in Nat /\ gauge.batch \in Nat
  BY Ints DEF Handlers
<1>1. /\ pc[h] # "held" /\ phase[h] = "out"
      /\ \A c \in Clients : c # h => pc'[c] = pc[c]
  BY <1>0 DEF Admit, TryAdmit, PassGate, RejectCooling, CheckInFlight, CheckQueue, AddInFlight,
     Trip, GoTo, TypeOK, vars, Places
<1>2. CASE pc'[h] = "held"
  <2>1. Move(h, "upgrade") /\ UNCHANGED <<lease, load>>
    BY <1>0, <1>1, <1>2 DEF Admit, Move, work
  <2>2. Counts' /\ Leases'
    BY <1>0, <1>1, <2>1, MoveCounts, MoveLeases DEF Move
  <2>3. Places'
    BY <1>0, <1>1, <1>2, <2>1 DEF Places, Move, Go, Handlers
  <2> QED BY <2>2, <2>3
<1>3. CASE pc'[h] # "held"
  <2>1. UNCHANGED <<phase, sessions, gauge, lease, load>>
    BY <1>3 DEF Admit, work
  <2>2. Places'
    BY <1>1, <1>3, <2>1 DEF Places
  <2>3. Counts' /\ Leases'
    BY <2>1 DEF Counts, Leases, In, LeasesOf
  <2> QED BY <2>2, <2>3
<1> QED BY <1>2, <1>3

LEMMA ReturnAccounts ==
    ASSUME Accounts, TypeOK, NEW h \in Clients, Return(h)
    PROVE  Accounts'
<1> USE DEF Accounts, Phases, BatchPhases, Gauged, Sessioned, Busy, Leased
<1>0. /\ Clients \cap Batches = {} /\ h \in Handlers /\ phase[h] \in Phases
      /\ gauge = [stream |-> gauge.stream, batch |-> gauge.batch]
      /\ sessions \in Nat /\ gauge.stream \in Nat /\ gauge.batch \in Nat
  BY Ints DEF Handlers
<1>1. /\ phase[h] = "return" /\ pc'[h] = "idle"
      /\ \A c \in Clients : c # h => pc'[c] = pc[c]
  BY DEF Return, Release, GoTo, TypeOK
<1>2. Move(h, "out") /\ UNCHANGED <<lease, load>>
  BY <1>0, <1>1 DEF Return, Move
<1>3. Counts' /\ Leases'
  BY <1>0, <1>1, <1>2, MoveCounts, MoveLeases DEF Move
<1>4. Places'
  BY <1>0, <1>1, <1>2 DEF Places, Move, Go, Handlers
<1> QED BY <1>3, <1>4

LEMMA BatchAccounts ==
    ASSUME Accounts, NEW h \in Batches, HandleBatch(h), ~Hops(h)
    PROVE  Accounts'
<1> USE DEF Accounts, Phases, BatchPhases, Gauged, Sessioned, Busy, Leased
<1>0. /\ Clients \cap Batches = {} /\ h \in Handlers /\ phase[h] \in Phases
      /\ gauge = [stream |-> gauge.stream, batch |-> gauge.batch]
      /\ sessions \in Nat /\ gauge.stream \in Nat /\ gauge.batch \in Nat
  BY Ints DEF Handlers
<1>1. CASE BatchStarts(h)
  <2>1. Move(h, "acquire") /\ phase[h] = "out" /\ UNCHANGED <<vars, lease, load>>
    BY <1>0, <1>1 DEF BatchStarts, work, Move
  <2> QED BY <1>0, <2>1, MovePlaces, MoveCounts, MoveLeases DEF Move
<1>2. CASE BatchYields(h) \/ BatchChunk(h)
  BY <1>2, StillAccounts DEF BatchYields, BatchChunk, routes, vars, work
<1>3. CASE BatchAnswers(h)
  <2>1. Move(h, "release") /\ phase[h] = "stream" /\ UNCHANGED <<vars, lease, load>>
    BY <1>0, <1>3 DEF BatchAnswers, work, Move
  <2> QED BY <1>0, <2>1, MovePlaces, MoveCounts, MoveLeases DEF Move
<1>4. CASE BatchReturns(h)
  <2>1. Move(h, "out") /\ phase[h] = "uncount" /\ UNCHANGED <<vars, lease, load>>
    BY <1>0, <1>4 DEF BatchReturns, Move
  <2> QED BY <1>0, <2>1, MovePlaces, MoveCounts, MoveLeases DEF Move
<1> QED BY <1>1, <1>2, <1>3, <1>4 DEF HandleBatch

LEMMA NextAccounts == TypeOK /\ Accounts /\ [RoutesNext]_routes => Accounts'
<1> SUFFICES ASSUME TypeOK, Accounts, [RoutesNext]_routes PROVE Accounts'
  OBVIOUS
<1>1. ASSUME NEW c \in Clients, Admit(c) \/ HandleStream(c) PROVE Accounts'
  BY <1>1, AdmitAccounts, StreamAccounts, ReturnAccounts, HopsAccounts DEF Handlers
<1>2. ASSUME NEW c \in Clients, Ask(c) \/ HangUp(c) \/ Expire(c) PROVE Accounts'
  BY <1>2, StillAccounts DEF Ask, HangUp, Expire, vars, work
<1>3. ASSUME NEW b \in Batches, HandleBatch(b) PROVE Accounts'
  BY <1>3, BatchAccounts, HopsAccounts DEF Handlers
<1>4. CASE Around
  BY <1>4, StillAccounts DEF Around, ObserveQueueDepth, Tick, work
<1>5. CASE UNCHANGED routes
  BY <1>5, StillAccounts DEF routes, vars, work
<1> QED BY <1>1, <1>2, <1>3, <1>4, <1>5 DEF RoutesNext

\* The controller is the one of Admission, whatever the handlers do besides.
LEMMA Admits == GatewaySpec => []IInv
<1>1. GatewayInit => Init
  BY DEF GatewayInit
<1> QED BY <1>1, InitInv, NextInv, OnRoutes, Controller, PTL DEF GatewaySpec

LEMMA AccountsKept == GatewaySpec => []Accounts
<1>1. IInv => TypeOK
  BY DEF IInv
<1> QED BY <1>1, InitAccounts, OnRoutes, NextAccounts, Admits, PTL DEF GatewaySpec

LEMMA NoLeak == IInv /\ Accounts => NothingLeaks
<1> SUFFICES ASSUME IInv, Accounts PROVE NothingLeaks
  OBVIOUS
<1>1. inFlight = Cardinality({c \in Clients : phase[c] # "out"})
  <2>1. Holders = {c \in Clients : phase[c] # "out"}
    BY DEF Accounts, Places, Holders, At
  <2> QED BY <2>1 DEF IInv, InFlightExact
<1>2. \A e \in Endpoints :
        load[e] = Cardinality({h \in Handlers : phase[h] \in Leased /\ lease[h] = e})
  BY DEF Accounts, Leases, LeasesOf
<1>3. gauge.batch = Cardinality({b \in Batches : phase[b] # "out"})
  <2>1. In(Batches, Busy) = {b \in Batches : phase[b] # "out"}
    BY DEF In, Busy, Accounts, Places, Handlers
  <2> QED BY <2>1 DEF Accounts, Counts
<1>4. gauge.stream =
        Cardinality({c \in Clients : phase[c] \notin {"out", "upgrade", "count", "return"}})
  <2>1. In(Clients, Gauged)
          = {c \in Clients : phase[c] \notin {"out", "upgrade", "count", "return"}}
    BY DEF In, Gauged, Accounts, Places, Handlers
  <2> QED BY <2>1 DEF Accounts, Counts
<1> QED BY <1>1, <1>2, <1>3, <1>4 DEF NothingLeaks

\* Whatever path a handler returns by, what it took is given back once: the
\* slot, the endpoint's load and the gauges are what the handlers on their way
\* account for (NothingLeaks), for any number of them.
THEOREM GivenBack == GatewaySpec => []NothingLeaks
BY Admits, AccountsKept, NoLeak, PTL
-----------------------------------------------------------------------------
(* Types. *)

WorkTypes ==
    /\ leaseErr \in [Handlers -> BOOLEAN]
    /\ streak \in [Endpoints -> 0..UnhealthyAfterFailures]
    /\ atFault \in [Endpoints -> BOOLEAN]
    /\ total \in [Handlers -> 0..MaxChunks] /\ sent \in [Handlers -> 0..MaxChunks]
    /\ failed \in [Clients -> BOOLEAN]

ConnTypes ==
    /\ inbox \in [Clients -> Seq(Requests)] /\ taken \in [Clients -> Seq(Requests)]
    /\ asked \in [Clients -> 0..MaxRequests]
    /\ heard \in [Clients -> Seq(Messages)]
    /\ gone \in [Clients -> BOOLEAN] /\ writable \in [Clients -> BOOLEAN]
    /\ deadline \in [Clients -> {"none", "ahead", "past"}]

LEMMA InitTypes == GatewayInit => WorkTypes /\ ConnTypes
BY RoutesAssumption DEF GatewayInit, WorkTypes, ConnTypes

LEMMA HopsTypes ==
    ASSUME WorkTypes, NEW h \in Handlers, Hops(h)
    PROVE  WorkTypes'
<1>0. MaxChunks \in Nat /\ UnhealthyAfterFailures \in Nat
  BY RoutesAssumption
<1>1. CASE Acquire(h)
  BY <1>0, <1>1 DEF Acquire, WorkTypes
<1>2. CASE Frontend(h)
  BY <1>2 DEF Frontend, work, WorkTypes
<1>3. CASE Latents(h)
  BY <1>0, <1>3 DEF Latents, WorkTypes
<1>4. CASE CallFails(h)
  <2>1. PICK v \in BOOLEAN : atFault' = [atFault EXCEPT ![lease[h]] = @ \/ v]
    BY <1>4 DEF CallFails
  <2>2. atFault' \in [Endpoints -> BOOLEAN]
    BY <2>1 DEF WorkTypes
  <2> QED BY <1>4, <2>2 DEF CallFails, GiveUp, WorkTypes
<1>5. CASE ReleaseLease(h)
  <2>1. streak' \in [Endpoints -> 0..UnhealthyAfterFailures]
    <3> DEFINE e == lease[h]
               v == IF ~leaseErr[h] THEN 0
                    ELSE IF streak[e] < UnhealthyAfterFailures THEN streak[e] + 1 ELSE streak[e]
    <3>1. streak' = [streak EXCEPT ![e] = v]
      BY <1>5 DEF ReleaseLease
    <3>2. e \in Endpoints => v \in 0..UnhealthyAfterFailures
      BY <1>0 DEF WorkTypes
    <3> HIDE DEF e, v
    <3> QED BY <3>1, <3>2 DEF WorkTypes
  <2>2. atFault' \in [Endpoints -> BOOLEAN]
    BY <1>5 DEF ReleaseLease, WorkTypes
  <2> QED BY <1>5, <2>1, <2>2 DEF ReleaseLease, WorkTypes
<1> QED BY <1>1, <1>2, <1>3, <1>4, <1>5 DEF Hops

LEMMA StreamTypes ==
    ASSUME WorkTypes, NEW c \in Clients, HandleStream(c), ~Hops(c)
    PROVE  WorkTypes'
<1>0. MaxChunks \in Nat /\ c \in Handlers
  BY RoutesAssumption DEF Handlers
<1>1. CASE Chunk(c)
  <2>1. UNCHANGED <<streak, atFault, total>>
    BY <1>1 DEF Chunk
  <2>2. CASE sent' = [sent EXCEPT ![c] = @ + 1] /\ UNCHANGED <<leaseErr, failed>>
    <3>1. sent[c] + 1 \in 0..MaxChunks
      BY <1>0, <1>1 DEF Chunk, WorkTypes
    <3>2. sent' \in [Handlers -> 0..MaxChunks]
      BY <2>2, <3>1 DEF WorkTypes
    <3> QED BY <2>1, <2>2, <3>2 DEF WorkTypes
  <2>3. CASE GiveUp(c) /\ UNCHANGED sent
    BY <2>1, <2>3 DEF GiveUp, WorkTypes
  <2> QED BY <1>1, <2>2, <2>3 DEF Chunk
<1>2. CASE SayDone(c)
  BY <1>2 DEF SayDone, WorkTypes
<1>3. CASE Return(c)
  BY <1>0, <1>3 DEF Return, WorkTypes
<1>4. CASE UNCHANGED work
  BY <1>4 DEF work, WorkTypes
<1> QED BY <1>1, <1>2, <1>3, <1>4
        DEF HandleStream, Upgrade, CountGauge, CountSession, ReadFails, Refuse, Begin, Report,
            Leave, UncountGauge

LEMMA BatchTypes ==
    ASSUME WorkTypes, NEW b \in Batches, HandleBatch(b), ~Hops(b)
    PROVE  WorkTypes'
<1>0. MaxChunks \in Nat /\ b \in Handlers
  BY RoutesAssumption DEF Handlers
<1>1. CASE BatchChunk(b)
  BY <1>0, <1>1 DEF BatchChunk, WorkTypes
<1>2. CASE BatchReturns(b)
  BY <1>0, <1>2 DEF BatchReturns, WorkTypes
<1>3. CASE UNCHANGED work
  BY <1>3 DEF work, WorkTypes
<1> QED BY <1>1, <1>2, <1>3 DEF HandleBatch, BatchStarts, BatchYields, BatchAnswers, routes

\* What a handler says to its client.
LEMMA SaysTypes ==
    ASSUME ConnTypes, NEW c \in Clients, NEW m \in Messages,
           Written(c, m) \/ WriteFails(c)
    PROVE  /\ heard' \in [Clients -> Seq(Messages)]
           /\ writable' \in [Clients -> BOOLEAN]
<1>1. CASE Written(c, m)
  <2>1. (IF gone[c] THEN heard[c] ELSE Append(heard[c], m)) \in Seq(Messages)
    BY DEF ConnTypes
  <2> QED BY <1>1, <2>1 DEF Written, ConnTypes
<1>2. CASE WriteFails(c)
  BY <1>2 DEF WriteFails, ConnTypes
<1> QED BY <1>1, <1>2

LEMMA SpeechTypes ==
    ASSUME WorkTypes, ConnTypes, NEW c \in Clients, HandleStream(c)
    PROVE  ConnTypes'
<1>0. /\ <<"audio", 0>> \in Messages /\ <<"refused", 0>> \in Messages
      /\ <<"failed", 0>> \in Messages /\ <<"done", sent[c]>> \in Messages
  BY DEF Messages, WorkTypes, Handlers
<1>1. CASE Refuse(c)
  <2>1. /\ heard' \in [Clients -> Seq(Messages)] /\ writable' \in [Clients -> BOOLEAN]
        /\ deadline' = deadline
    BY <1>0, <1>1, SaysTypes DEF Refuse, WriteIgnored
  <2>2. inbox' \in [Clients -> Seq(Requests)] /\ taken' \in [Clients -> Seq(Requests)]
    BY <1>1 DEF Refuse, Take, ConnTypes
  <2> QED BY <1>1, <2>1, <2>2 DEF Refuse, ConnTypes
<1>2. CASE Begin(c)
  <2>1. inbox' \in [Clients -> Seq(Requests)] /\ taken' \in [Clients -> Seq(Requests)]
    BY <1>2 DEF Begin, Take, ConnTypes
  <2> QED BY <1>2, <2>1 DEF Begin, ConnTypes
<1>3. CASE Chunk(c)
  <2>1. heard' \in [Clients -> Seq(Messages)] /\ writable' \in [Clients -> BOOLEAN]
    BY <1>0, <1>3, SaysTypes DEF Chunk
  <2> QED BY <1>3, <2>1 DEF Chunk, SetDeadline, ConnTypes
<1>4. CASE SayDone(c)
  <2>1. heard' \in [Clients -> Seq(Messages)] /\ writable' \in [Clients -> BOOLEAN]
    BY <1>0, <1>4, SaysTypes DEF SayDone
  <2> QED BY <1>4, <2>1 DEF SayDone, SetDeadline, ConnTypes
<1>5. CASE Report(c)
  <2>1. /\ heard' \in [Clients -> Seq(Messages)] /\ writable' \in [Clients -> BOOLEAN]
        /\ deadline' = deadline
    BY <1>0, <1>5, SaysTypes DEF Report, WriteIgnored
  <2> QED BY <1>5, <2>1 DEF Report, ConnTypes
<1>6. CASE Return(c)
  BY <1>6, RoutesAssumption DEF Return, ConnTypes
<1>7. CASE UNCHANGED conns
  BY <1>7 DEF conns, ConnTypes
<1> QED BY <1>1, <1>2, <1>3, <1>4, <1>5, <1>6, <1>7
        DEF HandleStream, Hops, Acquire, Frontend, Latents, CallFails, ReleaseLease,
            Upgrade, CountGauge, CountSession, ReadFails, Leave, UncountGauge

LEMMA NextTypes == WorkTypes /\ ConnTypes /\ [RoutesNext]_routes => (WorkTypes /\ ConnTypes)'
<1> SUFFICES ASSUME WorkTypes, ConnTypes, [RoutesNext]_routes PROVE WorkTypes' /\ ConnTypes'
  OBVIOUS
<1>1. ASSUME NEW c \in Clients, HandleStream(c) PROVE WorkTypes' /\ ConnTypes'
  BY <1>1, HopsTypes, StreamTypes, SpeechTypes DEF Handlers
<1>2. ASSUME NEW b \in Batches, HandleBatch(b) PROVE WorkTypes' /\ ConnTypes'
  <2>1. UNCHANGED conns
    <3>1. CASE Hops(b)
      BY <3>1 DEF Hops, Acquire, Frontend, Latents, CallFails, ReleaseLease
    <3> QED BY <1>2, <3>1 DEF HandleBatch, BatchStarts, BatchYields, BatchChunk, BatchAnswers,
               BatchReturns, routes
  <2>2. ConnTypes'
    BY <2>1 DEF conns, ConnTypes
  <2>3. b \in Handlers
    BY DEF Handlers
  <2>4. WorkTypes'
    BY <1>2, <2>3, HopsTypes, BatchTypes
  <2> QED BY <2>2, <2>4
<1>3. ASSUME NEW c \in Clients, Ask(c) PROVE WorkTypes' /\ ConnTypes'
  <2>1. inbox' \in [Clients -> Seq(Requests)]
    <3>1. PICK r \in Requests : inbox' = [inbox EXCEPT ![c] = Append(@, r)]
      BY <1>3 DEF Ask, Requests
    <3> QED BY <3>1 DEF ConnTypes
  <2>2. asked' \in [Clients -> 0..MaxRequests]
    BY <1>3, RoutesAssumption DEF Ask, ConnTypes
  <2> QED BY <1>3, <2>1, <2>2 DEF Ask, work, WorkTypes, ConnTypes
<1>4. ASSUME NEW c \in Clients, HangUp(c) \/ Expire(c) PROVE WorkTypes' /\ ConnTypes'
  BY <1>4 DEF HangUp, Expire, work, WorkTypes, ConnTypes
<1>5. CASE Around \/ UNCHANGED routes \/ (\E c \in Clients : Admit(c))
  BY <1>5 DEF Around, Admit, routes, work, conns, WorkTypes, ConnTypes
<1> QED BY <1>1, <1>2, <1>3, <1>4, <1>5 DEF RoutesNext

LEMMA TypesKept == GatewaySpec => [](WorkTypes /\ ConnTypes)
BY InitTypes, OnRoutes, NextTypes, PTL DEF GatewaySpec

\* Those that hold a slot though they were not let in since the scrape began held
\* one when it began.
ScrapeInv ==
    /\ scrape \in [open : BOOLEAN, slots : Nat, fresh : SUBSET Clients]
    /\ scrape.open => Cardinality(Holders \ scrape.fresh) <= scrape.slots

LEMMA InitScrape == GatewayInit => ScrapeInv
BY DEF GatewayInit, NoScrape, ScrapeInv

LEMMA NextScrape == IInv /\ Accounts /\ Accounts' /\ ScrapeInv /\ [GatewayNext]_gvars => ScrapeInv'
<1> SUFFICES ASSUME IInv, Accounts, Accounts', ScrapeInv, [GatewayNext]_gvars PROVE ScrapeInv'
  OBVIOUS
<1>1. /\ Holders = {c \in Clients : phase[c] # "out"}
      /\ Holders' = {c \in Clients : phase'[c] # "out"}
  BY DEF Accounts, Places, Holders, At
<1>2. CASE RoutesNext /\ Overtaken
  <2>1. /\ scrape' \in [open : BOOLEAN, slots : Nat, fresh : SUBSET Clients]
        /\ scrape'.open = scrape.open /\ scrape'.slots = scrape.slots
        /\ scrape.open => scrape'.fresh
             = scrape.fresh \cup {c \in Clients : phase[c] = "out" /\ phase'[c] # "out"}
    BY <1>2 DEF Overtaken, ScrapeInv
  <2>2. ASSUME scrape.open
        PROVE  Cardinality(Holders' \ scrape'.fresh) <= Cardinality(Holders \ scrape.fresh)
    <3>1. Holders' \ scrape'.fresh \in SUBSET (Holders \ scrape.fresh)
      BY <1>1, <2>1, <2>2
    <3>2. IsFiniteSet(Holders \ scrape.fresh)
      BY <1>1, Finite DEF Handlers
    <3> QED BY <3>1, <3>2, FS_Subset
  <2>3. ASSUME scrape.open
        PROVE  /\ Cardinality(Holders' \ scrape'.fresh) \in Nat
               /\ Cardinality(Holders \ scrape.fresh) \in Nat
    BY <1>1, Finite DEF Handlers
  <2> QED BY <2>1, <2>2, <2>3 DEF ScrapeInv
<1>3. CASE ReadSlots
  <2>1. scrape' = [open |-> TRUE, slots |-> inFlight, fresh |-> {}] /\ phase' = phase
    BY <1>3 DEF ReadSlots, routes
  <2>2. Holders' = Holders /\ Holders \ {} = Holders
    BY <1>1, <2>1
  <2>3. inFlight = Cardinality(Holders) /\ inFlight \in Nat
    BY DEF IInv, InFlightExact, TypeOK
  <2> QED BY <2>1, <2>2, <2>3 DEF ScrapeInv
<1>4. CASE ReadSessions
  BY <1>4 DEF ReadSessions, NoScrape, ScrapeInv
<1>5. CASE UNCHANGED gvars
  <2>1. scrape' = scrape /\ phase' = phase
    BY <1>5 DEF gvars, routes
  <2>2. Holders' = Holders
    BY <1>1, <2>1
  <2> QED BY <2>1, <2>2 DEF ScrapeInv
<1> QED BY <1>2, <1>3, <1>4, <1>5 DEF GatewayNext

LEMMA ScrapeKept == GatewaySpec => []ScrapeInv
BY InitScrape, NextScrape, Admits, AccountsKept, PTL DEF GatewaySpec

LEMMA TypesTogether == IInv /\ Accounts /\ WorkTypes /\ ConnTypes /\ ScrapeInv => GatewayTypeOK
<1> SUFFICES ASSUME IInv, Accounts, WorkTypes, ConnTypes, ScrapeInv PROVE GatewayTypeOK
  OBVIOUS
<1>1. sessions \in Nat /\ gauge \in [stream : Nat, batch : Nat]
  BY Ints
<1>2. TypeOK /\ phase \in [Handlers -> Phases]
      /\ lease \in [Handlers -> Endpoints \cup {none}] /\ load \in [Endpoints -> Nat]
  BY DEF IInv, Accounts, Places, Leases
<1> QED BY <1>1, <1>2 DEF GatewayTypeOK, WorkTypes, ConnTypes, ScrapeInv

LEMMA Nested == IInv /\ Accounts => sessions <= gauge.stream /\ gauge.stream <= inFlight
<1> SUFFICES ASSUME IInv, Accounts PROVE sessions <= gauge.stream /\ gauge.stream <= inFlight
  OBVIOUS
<1>1. /\ In(Clients, Sessioned) \in SUBSET In(Clients, Gauged)
      /\ In(Clients, Gauged) \in SUBSET Holders
  BY DEF In, Sessioned, Gauged, Holders, At, Accounts, Places
<1>2. IsFiniteSet(In(Clients, Gauged)) /\ IsFiniteSet(Holders)
  BY Finite, Populations, Sets DEF In, Handlers
<1>3. /\ Cardinality(In(Clients, Sessioned)) <= Cardinality(In(Clients, Gauged))
      /\ Cardinality(In(Clients, Gauged)) <= Cardinality(Holders)
  BY <1>1, <1>2, FS_Subset, Zenon
<1> QED BY <1>3 DEF Accounts, Counts, IInv, InFlightExact

\* Sessions are no more than slots at the moment of the second read, and those
\* slots no more than the ones shown and the ones taken since.
LEMMA Explained == IInv /\ Accounts /\ ScrapeInv /\ scrape.open
                      => sessions <= scrape.slots + Cardinality(scrape.fresh)
<1> SUFFICES ASSUME IInv, Accounts, ScrapeInv, scrape.open
             PROVE  sessions <= scrape.slots + Cardinality(scrape.fresh)
  OBVIOUS
<1>1. Holders \in SUBSET Handlers /\ scrape.fresh \in SUBSET Handlers
  BY DEF Holders, At, Handlers, ScrapeInv
<1> DEFINE Before == Holders \ scrape.fresh
<1>2. /\ IsFiniteSet(Before) /\ Cardinality(Before) \in Nat
      /\ IsFiniteSet(scrape.fresh) /\ Cardinality(scrape.fresh) \in Nat
      /\ IsFiniteSet(Holders) /\ Cardinality(Holders) \in Nat
  BY <1>1, Finite
<1>3. Cardinality(Before \cup scrape.fresh)
        = Cardinality(Before) + Cardinality(scrape.fresh)
  <2>1. Before \cap scrape.fresh = {}
    OBVIOUS
  <2> HIDE DEF Before
  <2>2. Cardinality(Before \cup scrape.fresh)
          = Cardinality(Before) + Cardinality(scrape.fresh)
              - Cardinality(Before \cap scrape.fresh)
    BY <1>2, FS_Union
  <2> QED BY <1>2, <2>1, <2>2, FS_EmptySet
<1>4. Cardinality(Holders) <= Cardinality(Before \cup scrape.fresh)
  <2>1. Holders \in SUBSET (Before \cup scrape.fresh)
    OBVIOUS
  <2> HIDE DEF Before
  <2>2. IsFiniteSet(Before \cup scrape.fresh)
    BY <1>2, FS_Union
  <2> QED BY <2>1, <2>2, FS_Subset
<1>5. sessions <= Cardinality(Holders)
  <2>1. inFlight = Cardinality(Holders)
    BY DEF IInv, InFlightExact
  <2>2. sessions \in Nat /\ gauge.stream \in Nat
    BY Ints
  <2> QED BY <1>2, <2>1, <2>2, Nested
<1>6. Cardinality(Before) <= scrape.slots /\ scrape.slots \in Nat
  BY DEF ScrapeInv
<1>7. sessions \in Nat
  BY Ints
<1> HIDE DEF Before
<1> QED BY <1>2, <1>3, <1>4, <1>5, <1>6, <1>7

\* Every variable of the gateway stays in its type (GatewayTypeOK).
THEOREM GatewayTypeCorrect == GatewaySpec => []GatewayTypeOK
BY Admits, AccountsKept, TypesKept, ScrapeKept, TypesTogether, PTL

\* A scrape of handleHealth that shows more sessions than slots was overtaken by
\* as many clients between its two reads (ScrapeExplained), though every handler
\* updates the counters one by one.
THEOREM ScrapeTells == GatewaySpec => []ScrapeExplained
<1>1. IInv /\ Accounts /\ WorkTypes /\ ConnTypes /\ ScrapeInv => ScrapeExplained
  BY TypesTogether, Explained DEF ScrapeExplained
<1> QED BY <1>1, Admits, AccountsKept, TypesKept, ScrapeKept, PTL
-----------------------------------------------------------------------------
(* What a client hears. *)

\* The answers said so far, and the audio that belongs to none of them yet.
Given(said) == Answered(said, Len(said))
Pending(said) == AudioBefore(said, Len(said) + 1)

\* A request has been read and not answered.
Answering == {"acquire", "frontend", "latents", "stream", "release", "report"}

Quiet(said) == \A k \in 1..Len(said) : said[k][1] # "failed"

\* How far the answer to the last request is, while the connection carries it.
Progress(c) ==
    /\ phase[c] \in {"read", "acquire", "frontend", "latents"} => Pending(heard[c]) = 0
    /\ phase[c] \in {"acquire", "frontend", "latents", "stream", "report"} =>
         Given(heard[c]) = Len(taken[c]) - 1
    /\ phase[c] = "read" => Given(heard[c]) = Len(taken[c])
    /\ phase[c] = "stream" => Pending(heard[c]) = sent[c]
    /\ phase[c] = "release" =>
         IF failed[c] THEN Given(heard[c]) = Len(taken[c]) - 1
                      ELSE Given(heard[c]) = Len(taken[c]) /\ Pending(heard[c]) = 0

Dialogue(c) ==
    /\ InOrder(heard[c], taken[c])
    /\ phase[c] \in {"out", "upgrade", "count", "enter"} => heard[c] = <<>> /\ taken[c] = <<>>
    /\ phase[c] \in Answering \cup {"read"} => Quiet(heard[c])
    /\ phase[c] \in Answering =>
         /\ Len(taken[c]) > 0 /\ taken[c][Len(taken[c])] = "good"
    /\ phase[c] \in {"frontend", "latents"} => sent[c] = 0
    /\ phase[c] \in {"frontend", "latents", "stream"} => ~failed[c]
    /\ phase[c] = "stream" => total[c] > 0
    /\ Carried(c) => Progress(c)

DialogueInv == \A c \in Clients : Dialogue(c)

LEMMA Silence ==
    /\ Given(<<>>) = 0 /\ Pending(<<>>) = 0
    /\ Quiet(<<>>) /\ InOrder(<<>>, <<>>)
<1>1. Ends(<<>>) = {}
  BY DEF Ends
<1>2. {j \in Ends(<<>>) : j <= 0} = {}
  BY <1>1
<1>3. Answered(<<>>, 0) = 0
  BY <1>2, FS_EmptySet DEF Answered
<1>4. Given(<<>>) = 0
  BY <1>3 DEF Given
<1>5. Pending(<<>>) = 0
  <2>1. {j \in 1..0 : \A x \in j..0 : <<>>[x][1] = "audio"} = {}
    OBVIOUS
  <2>2. Len(<<>>) + 1 = 1 /\ 1 - 1 = 0
    OBVIOUS
  <2> QED BY <2>1, <2>2, FS_EmptySet DEF Pending, AudioBefore
<1>6. Len(<<>>) = 0
  OBVIOUS
<1> QED BY <1>1, <1>3, <1>4, <1>5, <1>6 DEF InOrder, Quiet

\* One more message: what it adds to the answers, and to the audio that waits.
LEMMA OneMore ==
    ASSUME NEW said \in Seq(Messages), NEW m \in Messages, NEW t, t = Append(said, m),
           NEW n, n = Len(said)
    PROVE  /\ t \in Seq(Messages) /\ Len(t) = n + 1 /\ n \in Nat
           /\ \A k \in 1..n : t[k] = said[k]
           /\ t[n + 1] = m
BY DEF Messages

LEMMA EndsOneMore ==
    ASSUME NEW said \in Seq(Messages), NEW m \in Messages, NEW t, t = Append(said, m),
           NEW n, n = Len(said)
    PROVE  Ends(t) = Ends(said) \cup (IF m[1] = "audio" THEN {} ELSE {n + 1})
<1>1. /\ Len(t) = n + 1 /\ n \in Nat
      /\ \A k \in 1..n : t[k] = said[k]
      /\ t[n + 1] = m
  BY OneMore
<1>2. 1..(n + 1) = 1..n \cup {n + 1}
  BY <1>1
<1> QED BY <1>1, <1>2 DEF Ends

LEMMA Few ==
    ASSUME NEW said \in Seq(Messages), NEW k \in Nat
    PROVE  /\ IsFiniteSet({j \in Ends(said) : j <= k})
           /\ Answered(said, k) \in Nat
           /\ AudioBefore(said, k + 1) \in Nat
           /\ IsFiniteSet({j \in 1..k : \A x \in j..k : said[x][1] = "audio"})
<1>1. IsFiniteSet(1..Len(said)) /\ IsFiniteSet(1..k)
  BY FS_Interval
<1>2. {j \in Ends(said) : j <= k} \in SUBSET (1..Len(said))
  BY DEF Ends
<1>3. (k + 1) - 1 = k
  OBVIOUS
<1>4. {j \in 1..k : \A x \in j..k : said[x][1] = "audio"} \in SUBSET (1..k)
  OBVIOUS
<1> QED BY <1>1, <1>2, <1>3, <1>4, FS_Subset, FS_CardinalityType DEF Answered, AudioBefore

LEMMA AnsweredOneMore ==
    ASSUME NEW said \in Seq(Messages), NEW m \in Messages, NEW t, t = Append(said, m),
           NEW n \in Nat, n = Len(said)
    PROVE  /\ \A k \in 0..n : Answered(t, k) = Answered(said, k)
           /\ m[1] = "audio" => Answered(t, n + 1) = Given(said)
           /\ m[1] # "audio" => Answered(t, n + 1) = Given(said) + 1
<1>0. n \in Nat
  BY OneMore
<1>1. Ends(said) \subseteq 1..n
  BY DEF Ends
<1>e. /\ m[1] = "audio" => Ends(t) = Ends(said)
      /\ m[1] # "audio" => Ends(t) = Ends(said) \cup {n + 1}
  <2>1. Ends(t) = Ends(said) \cup (IF m[1] = "audio" THEN {} ELSE {n + 1})
    BY EndsOneMore
  <2> QED BY <2>1
<1>n. \A k \in 0..n : ~(n + 1 <= k)
  BY <1>0
<1>2. \A k \in 0..n : {j \in Ends(t) : j <= k} = {j \in Ends(said) : j <= k}
  BY <1>e, <1>n
<1>3. \A k \in 0..n : Answered(t, k) = Answered(said, k)
  BY <1>2 DEF Answered
<1>4. {j \in Ends(said) : j <= n} = Ends(said) /\ {j \in Ends(t) : j <= n + 1} = Ends(t)
  <2>1. Ends(t) \subseteq 1..(n + 1)
    BY <1>0, <1>1, <1>e
  <2>2. \A j \in 1..n : j <= n
    BY <1>0
  <2>3. \A j \in 1..(n + 1) : j <= n + 1
    BY <1>0
  <2> QED BY <1>1, <2>1, <2>2, <2>3, Zenon
<1>5. Given(said) = Cardinality(Ends(said)) /\ Answered(t, n + 1) = Cardinality(Ends(t))
  BY <1>4, Zenon DEF Given, Answered
<1>6. IsFiniteSet(Ends(said)) /\ Cardinality(Ends(said)) \in Nat
  <2>1. IsFiniteSet(Ends(said))
    BY <1>0, <1>4, Few
  <2> QED BY <2>1, FS_CardinalityType
<1>7. CASE m[1] = "audio"
  <2>1. Ends(t) = Ends(said)
    BY <1>7, <1>e
  <2> QED BY <1>3, <1>5, <1>6, <1>7, <2>1
<1>8. CASE m[1] # "audio"
  <2>1. Ends(t) = Ends(said) \cup {n + 1} /\ n + 1 \notin Ends(said)
    BY <1>0, <1>1, <1>8, <1>e
  <2>2. Cardinality(Ends(t)) = Cardinality(Ends(said)) + 1
    BY <1>6, <2>1, FS_AddElement
  <2> QED BY <1>3, <1>5, <1>8, <2>2
<1> QED BY <1>7, <1>8

LEMMA AudioOneMore ==
    ASSUME NEW said \in Seq(Messages), NEW m \in Messages, NEW t, t = Append(said, m),
           NEW n \in Nat, n = Len(said)
    PROVE  /\ \A k \in 1..(n + 1) : AudioBefore(t, k) = AudioBefore(said, k)
           /\ m[1] = "audio" => Pending(t) = Pending(said) + 1
           /\ m[1] # "audio" => Pending(t) = 0
<1> DEFINE Run(s, k) == {j \in 1..k : \A x \in j..k : s[x][1] = "audio"}
<1>0. /\ n \in Nat /\ Len(t) = n + 1
      /\ \A k \in 1..n : t[k] = said[k]
      /\ t[n + 1] = m
  BY OneMore
<1>1. \A s : \A k \in Nat : AudioBefore(s, k + 1) = Cardinality(Run(s, k))
  <2>1. \A k \in Nat : (k + 1) - 1 = k
    OBVIOUS
  <2> QED BY <2>1 DEF AudioBefore
<1>2. \A k \in 0..n : Run(t, k) = Run(said, k)
  BY <1>0
<1>3. /\ \A k \in 1..(n + 1) : k - 1 \in 0..n /\ k - 1 \in Nat /\ (k - 1) + 1 = k
      /\ n \in 0..n
  BY <1>0
<1>4. Run(t, n + 1) = IF m[1] = "audio" THEN Run(said, n) \cup {n + 1} ELSE {}
  <2>1. \A j \in 1..(n + 1) :
          (\A x \in j..(n + 1) : t[x][1] = "audio")
            <=> m[1] = "audio" /\ \A x \in j..n : said[x][1] = "audio"
    BY <1>0
  <2>2. 1..(n + 1) = 1..n \cup {n + 1} /\ (n + 1)..n = {}
    BY <1>0
  <2> QED BY <2>1, <2>2
<1>5. IsFiniteSet(Run(said, n)) /\ n + 1 \notin Run(said, n)
  <2>1. IsFiniteSet(Run(said, n))
    BY <1>0, Few
  <2>2. n + 1 \notin 1..n
    BY <1>0
  <2> QED BY <2>1, <2>2
<1> HIDE DEF Run
<1>6. Pending(said) = Cardinality(Run(said, n)) /\ Pending(t) = Cardinality(Run(t, n + 1))
  <2>1. n + 1 \in Nat
    BY <1>0
  <2> QED BY <1>0, <1>1, <2>1 DEF Pending
<1>7. \A k \in 1..(n + 1) : AudioBefore(t, k) = AudioBefore(said, k)
  <2> TAKE k \in 1..(n + 1)
  <2>1. AudioBefore(t, k) = Cardinality(Run(t, k - 1))
        /\ AudioBefore(said, k) = Cardinality(Run(said, k - 1))
    BY <1>1, <1>3
  <2> QED BY <1>2, <1>3, <2>1
<1>8. /\ m[1] = "audio" => Pending(t) = Pending(said) + 1
      /\ m[1] # "audio" => Pending(t) = 0
  BY <1>4, <1>5, <1>6, FS_AddElement, FS_EmptySet
<1> QED BY <1>7, <1>8

\* A request that is read changes nothing of what was answered.
LEMMA OneMoreRequest ==
    ASSUME NEW said \in Seq(Messages), NEW requests \in Seq(Requests), NEW r \in Requests,
           InOrder(said, requests)
    PROVE  InOrder(said, Append(requests, r))
<1> DEFINE t == Append(requests, r)
<1>1. /\ Len(t) = Len(requests) + 1 /\ Len(requests) \in Nat
      /\ \A k \in 1..Len(requests) : t[k] = requests[k]
  BY DEF Requests
<1> HIDE DEF t
<1>2. \A k \in Ends(said) : Answered(said, k) \in 1..Len(requests)
  <2> TAKE k \in Ends(said)
  <2> DEFINE n == Len(said)
             A == {j \in Ends(said) : j <= k}
             B == {j \in Ends(said) : j <= n}
  <2>n. n \in Nat
    OBVIOUS
  <2>1. k \in Nat /\ k <= n
    BY DEF Ends
  <2> HIDE DEF n
  <2>2. IsFiniteSet(A) /\ IsFiniteSet(B)
    <3>1. \A x \in Nat : IsFiniteSet({j \in Ends(said) : j <= x})
      BY Few
    <3> QED BY <2>n, <2>1, <3>1
  <2>3. A \in SUBSET B /\ k \in A
    <3>1. \A j \in Ends(said) : j \in Nat
      BY DEF Ends
    <3>2. \A j \in Ends(said) : j <= k => j <= n
      BY <2>n, <2>1, <3>1
    <3>3. k <= k
      BY <2>1
    <3>4. A \in SUBSET B
      BY <3>2
    <3>5. k \in A
      BY <3>3
    <3> QED BY <3>4, <3>5
  <2> HIDE DEF A, B
  <2>4. Cardinality(A) <= Cardinality(B) /\ Cardinality(A) # 0
    BY <2>2, <2>3, FS_Subset, FS_EmptySet
  <2>5. Cardinality(A) \in Nat /\ Cardinality(B) \in Nat
    BY <2>2, FS_CardinalityType
  <2>6. Cardinality(B) <= Len(requests)
    BY DEF B, n, InOrder, Answered
  <2>7. Cardinality(A) \in 1..Len(requests)
    BY <1>1, <2>4, <2>5, <2>6
  <2> QED BY <2>7 DEF A, Answered
<1>3. Answered(said, Len(said)) <= Len(t)
  <2>1. Len(said) \in Nat
    OBVIOUS
  <2>2. Answered(said, Len(said)) \in Nat
    BY <2>1, Few
  <2> QED BY <1>1, <2>2 DEF InOrder
<1>4. \A k \in Ends(said) : (said[k][1] = "refused") <=> (t[Answered(said, k)] = "bad")
  BY <1>1, <1>2 DEF InOrder
<1> QED BY <1>3, <1>4 DEF InOrder, t

\* More audio of the answer under way.
LEMMA OneMoreChunk ==
    ASSUME NEW said \in Seq(Messages), NEW requests \in Seq(Requests),
           NEW m \in Messages, m[1] = "audio", NEW t, t = Append(said, m),
           InOrder(said, requests), Quiet(said)
    PROVE  /\ InOrder(t, requests) /\ Quiet(t)
           /\ Given(t) = Given(said) /\ Pending(t) = Pending(said) + 1
<1> DEFINE n == Len(said)
<1>l. n \in Nat /\ n = Len(said)
  OBVIOUS
<1> HIDE DEF n
<1>0. /\ n \in Nat /\ Len(t) = n + 1
      /\ \A k \in 1..n : t[k] = said[k]
      /\ t[n + 1] = m
  BY <1>l, OneMore
<1>1. Ends(t) = Ends(said) /\ Ends(said) \subseteq 1..n
  <2>1. Ends(said) \subseteq 1..n
    BY DEF Ends, n
  <2>2. Ends(t) = Ends(said) \cup (IF m[1] = "audio" THEN {} ELSE {n + 1})
    BY <1>l, EndsOneMore
  <2> QED BY <2>1, <2>2
<1>2. /\ \A k \in 0..n : Answered(t, k) = Answered(said, k)
      /\ Answered(t, n + 1) = Given(said)
  <2>1. m[1] = "audio"
    OBVIOUS
  <2> QED BY <1>l, <2>1, AnsweredOneMore, ZenonT(60)
<1>3. /\ \A k \in 1..(n + 1) : AudioBefore(t, k) = AudioBefore(said, k)
      /\ Pending(t) = Pending(said) + 1
  BY <1>l, AudioOneMore
<1>4. Quiet(t)
  <2>1. \A k \in 1..n : said[k][1] # "failed"
    BY DEF Quiet, n
  <2> QED BY <1>0, <2>1 DEF Quiet
<1>5. Given(t) = Given(said)
  BY <1>0, <1>2 DEF Given
<1>6. Given(t) <= Len(requests)
  BY <1>5 DEF InOrder, Given
<1>7. \A k \in Ends(t) : (t[k][1] = "refused") <=> (requests[Answered(t, k)] = "bad")
  <2>1. \A k \in 1..n : k \in 0..n
    BY <1>0
  <2> QED BY <1>0, <1>1, <1>2, <2>1 DEF InOrder
<1>8. \A k \in 1..Len(t) :
        /\ t[k][1] = "refused" => AudioBefore(t, k) = 0
        /\ t[k][1] = "done" => AudioBefore(t, k) = t[k][2] /\ t[k][2] > 0
        /\ t[k][1] = "failed" => k = Len(t)
  <2> SUFFICES ASSUME NEW k \in 1..Len(t), t[k][1] # "audio"
               PROVE  /\ t[k][1] = "refused" => AudioBefore(t, k) = 0
                      /\ t[k][1] = "done" => AudioBefore(t, k) = t[k][2] /\ t[k][2] > 0
                      /\ t[k][1] = "failed" => k = Len(t)
    OBVIOUS
  <2>1. k \in 1..n /\ t[k] = said[k] /\ AudioBefore(t, k) = AudioBefore(said, k)
    BY <1>0, <1>3
  <2>2. t[k][1] # "failed"
    BY <1>4 DEF Quiet
  <2> QED BY <2>1, <2>2 DEF InOrder, n
<1> QED BY <1>3, <1>4, <1>5, <1>6, <1>7, <1>8 DEF InOrder, Given

\* An answer ends.
LEMMA OneMoreAnswer ==
    ASSUME NEW said \in Seq(Messages), NEW requests \in Seq(Requests),
           NEW m \in Messages, m[1] # "audio", NEW t, t = Append(said, m),
           InOrder(said, requests), Quiet(said),
           Given(said) = Len(requests) - 1,
           (m[1] = "refused") <=> (requests[Len(requests)] = "bad"),
           m[1] = "refused" => Pending(said) = 0,
           m[1] = "done" => Pending(said) = m[2] /\ m[2] > 0
    PROVE  /\ InOrder(t, requests)
           /\ m[1] # "failed" => Quiet(t)
           /\ Given(t) = Len(requests) /\ Pending(t) = 0
<1> DEFINE n == Len(said)
<1>l. n \in Nat /\ n = Len(said)
  OBVIOUS
<1> HIDE DEF n
<1>0. /\ n \in Nat /\ Len(t) = n + 1
      /\ \A k \in 1..n : t[k] = said[k]
      /\ t[n + 1] = m
  BY <1>l, OneMore
<1>1. Ends(t) = Ends(said) \cup {n + 1} /\ Ends(said) \subseteq 1..n
  <2>1. Ends(said) \subseteq 1..n
    BY DEF Ends, n
  <2>2. Ends(t) = Ends(said) \cup (IF m[1] = "audio" THEN {} ELSE {n + 1})
    BY <1>l, EndsOneMore
  <2> QED BY <2>1, <2>2
<1>2. /\ \A k \in 0..n : Answered(t, k) = Answered(said, k)
      /\ Answered(t, n + 1) = Len(requests)
  <2>1. Answered(t, n + 1) = Given(said) + 1
    BY <1>l, AnsweredOneMore
  <2>2. Len(requests) \in Nat
    OBVIOUS
  <2>3. \A k \in 0..n : Answered(t, k) = Answered(said, k)
    BY <1>l, AnsweredOneMore
  <2> QED BY <2>1, <2>2, <2>3
<1>3. /\ \A k \in 1..(n + 1) : AudioBefore(t, k) = AudioBefore(said, k)
      /\ Pending(t) = 0
  BY <1>l, AudioOneMore
<1>4. AudioBefore(said, n + 1) = Pending(said)
  BY DEF Pending, n
<1>q. \A k \in 1..n : said[k][1] # "failed"
  BY DEF Quiet, n
<1>5. m[1] # "failed" => Quiet(t)
  BY <1>0, <1>q DEF Quiet
<1>6. Given(t) = Len(requests)
  BY <1>0, <1>2 DEF Given
<1>7. \A k \in Ends(t) : (t[k][1] = "refused") <=> (requests[Answered(t, k)] = "bad")
  <2>1. \A k \in 1..n : k \in 0..n
    BY <1>0
  <2>2. \A k \in Ends(said) : (t[k][1] = "refused") <=> (requests[Answered(t, k)] = "bad")
    BY <1>0, <1>1, <1>2, <2>1 DEF InOrder
  <2>3. (t[n + 1][1] = "refused") <=> (requests[Answered(t, n + 1)] = "bad")
    BY <1>0, <1>2
  <2> QED BY <1>1, <2>2, <2>3
<1>8. \A k \in 1..Len(t) :
        /\ t[k][1] = "refused" => AudioBefore(t, k) = 0
        /\ t[k][1] = "done" => AudioBefore(t, k) = t[k][2] /\ t[k][2] > 0
        /\ t[k][1] = "failed" => k = Len(t)
  <2> TAKE k \in 1..Len(t)
  <2>1. CASE k = n + 1
    <3>1. t[k] = m /\ AudioBefore(t, k) = Pending(said) /\ k = Len(t)
      BY <1>0, <1>3, <1>4, <2>1
    <3> QED BY <3>1
  <2>2. CASE k \in 1..n
    <3>1. t[k] = said[k] /\ AudioBefore(t, k) = AudioBefore(said, k) /\ t[k][1] # "failed"
      BY <1>0, <1>3, <1>q, <2>2
    <3> QED BY <2>2, <3>1 DEF InOrder, n
  <2>3. k = n + 1 \/ k \in 1..n
    BY <1>0
  <2> QED BY <2>1, <2>2, <2>3
<1>9. Given(t) <= Len(requests)
  BY <1>6
<1> QED BY <1>3, <1>5, <1>6, <1>7, <1>8, <1>9 DEF InOrder, Given

\* The dialogue with a client goes on where nothing of it changes.
LEMMA DialogueStays ==
    ASSUME NEW c \in Clients, Dialogue(c),
           phase'[c] = phase[c], heard'[c] = heard[c], taken'[c] = taken[c],
           sent'[c] = sent[c], total'[c] = total[c], failed'[c] = failed[c],
           Carried(c)' => Carried(c)
    PROVE  Dialogue(c)'
<1>1. Carried(c)' => Progress(c)'
  BY DEF Dialogue, Progress
<1> QED BY <1>1 DEF Dialogue

\* A request is read: refused at once, or begun.
LEMMA TakeDialogue ==
    ASSUME WorkTypes, ConnTypes, NEW c \in Clients, Dialogue(c), Refuse(c) \/ Begin(c),
           phase \in [Handlers -> Phases]
    PROVE  Dialogue(c)'
<1> DEFINE said == heard[c]
           requests == taken[c]
           r == Head(inbox[c])
           more == taken'[c]
<1>0. /\ said \in Seq(Messages) /\ requests \in Seq(Requests) /\ r \in Requests
      /\ more = Append(requests, r) /\ phase[c] = "read"
  <2>1. inbox[c] \in Seq(Requests) /\ inbox[c] # <<>>
    BY DEF Refuse, Begin, Take, ConnTypes
  <2>2. r \in Requests
    BY <2>1
  <2> QED BY <2>2 DEF Refuse, Begin, Take, ConnTypes
<1>1. Quiet(said) /\ InOrder(said, requests)
  BY <1>0 DEF Dialogue
<1>2. Carried(c) => Given(said) = Len(requests) /\ Pending(said) = 0
  BY <1>0 DEF Dialogue, Progress
<1> HIDE DEF said, requests, r, more
<1>3. /\ Len(more) = Len(requests) + 1 /\ Len(requests) \in Nat /\ more[Len(more)] = r
      /\ more \in Seq(Requests) /\ InOrder(said, more)
  BY <1>0, <1>1, OneMoreRequest
<1>4. CASE Begin(c)
  <2>1. /\ phase'[c] = "acquire" /\ heard'[c] = said /\ r = "good"
        /\ UNCHANGED <<sent, total, failed, writable, gone>>
    BY <1>4 DEF Begin, Go, work, said, r, Handlers
  <2>2. Carried(c)' => Given(said) = Len(more) - 1 /\ Pending(said) = 0
    BY <1>2, <1>3, <2>1 DEF Carried
  <2>3. Carried(c)' => Progress(c)'
    BY <2>1, <2>2 DEF Progress, more
  <2> QED BY <1>1, <1>3, <2>1, <2>3 DEF Dialogue, more, Answering
<1>5. CASE Refuse(c)
  <2> DEFINE m == <<"refused", 0>>
  <2>1. /\ phase' = phase /\ r = "bad" /\ UNCHANGED <<sent, total, failed, gone>>
        /\ \/ Written(c, m)
           \/ WriteFails(c)
    BY <1>5 DEF Refuse, WriteIgnored, work, r
  <2>2. CASE Written(c, m) /\ ~gone[c]
    <3>1. heard'[c] = Append(said, m) /\ writable' = writable /\ writable[c]
      BY <2>2 DEF Written, said, ConnTypes
    <3>2. Given(said) = Len(more) - 1 /\ Pending(said) = 0
      BY <1>2, <1>3, <2>2, <3>1 DEF Carried
    <3>3. /\ m \in Messages /\ m[1] = "refused"
          /\ m[1] # "audio" /\ m[1] # "done" /\ m[1] # "failed"
      BY DEF Messages
    <3>b. more[Len(more)] = "bad"
      BY <1>3, <2>1
    <3> HIDE DEF m
    <3>4. /\ InOrder(heard'[c], more) /\ Quiet(heard'[c])
          /\ Given(heard'[c]) = Len(more) /\ Pending(heard'[c]) = 0
      <4> DEFINE t == heard'[c]
      <4>1. t = Append(said, m)
        BY <3>1
      <4> HIDE DEF t
      <4>2. InOrder(t, more) /\ Quiet(t) /\ Given(t) = Len(more) /\ Pending(t) = 0
        <5>1. (m[1] = "refused") <=> (more[Len(more)] = "bad")
          BY <3>3, <3>b
        <5>2. m[1] = "refused" => Pending(said) = 0
          BY <3>2
        <5>3. m[1] = "done" => Pending(said) = m[2] /\ m[2] > 0
          BY <3>3
        <5> QED BY <1>0, <1>1, <1>3, <3>2, <3>3, <4>1, <5>1, <5>2, <5>3, OneMoreAnswer, Zenon
      <4> QED BY <4>2 DEF t
    <3>5. Progress(c)'
      BY <1>0, <2>1, <3>4 DEF Progress, more
    <3> QED BY <1>0, <2>1, <3>4, <3>5 DEF Dialogue, more, Answering
  <2>3. CASE ~Carried(c)' /\ heard'[c] = said
    BY <1>0, <1>1, <1>3, <2>1, <2>3 DEF Dialogue, more, Answering
  <2>4. \/ Written(c, m) /\ ~gone[c]
        \/ ~Carried(c)' /\ heard'[c] = said
    BY <2>1 DEF Written, WriteFails, Carried, said, ConnTypes
  <2> QED BY <2>2, <2>3, <2>4
<1> QED BY <1>4, <1>5

LEMMA Says ==
    ASSUME ConnTypes, NEW c \in Clients, NEW m, UNCHANGED gone
    PROVE  /\ WriteFails(c) => heard'[c] = heard[c] /\ ~Carried(c)'
           /\ Written(c, m) =>
                \/ heard'[c] = Append(heard[c], m) /\ Carried(c) /\ Carried(c)'
                \/ heard'[c] = heard[c] /\ ~Carried(c)'
BY DEF Written, WriteFails, Carried, ConnTypes

\* A chunk, the done message and the report of an error.
LEMMA SpeakDialogue ==
    ASSUME WorkTypes, ConnTypes, phase \in [Handlers -> Phases],
           NEW c \in Clients, Dialogue(c), Chunk(c) \/ SayDone(c) \/ Report(c)
    PROVE  Dialogue(c)'
<1> DEFINE said == heard[c]
           requests == taken[c]
           now == heard'[c]
<1>0. /\ said \in Seq(Messages) /\ requests \in Seq(Requests) /\ taken' = taken /\ gone' = gone
      /\ c \in Handlers /\ phase[c] \in {"stream", "report"}
  BY DEF ConnTypes, Chunk, SayDone, Report, Handlers
<1>1. /\ InOrder(said, requests) /\ Quiet(said)
      /\ Len(requests) \in Nat /\ Len(requests) > 0 /\ requests[Len(requests)] = "good"
      /\ Carried(c) => Given(said) = Len(requests) - 1
  BY <1>0 DEF Dialogue, Progress, Answering
<1>2. phase[c] = "stream" => /\ total[c] > 0 /\ ~failed[c]
                             /\ Carried(c) => Pending(said) = sent[c]
  BY <1>0 DEF Dialogue, Progress
<1> HIDE DEF said, requests, now
<1>e. ASSUME NEW m \in Messages, m[1] \in {"done", "failed"},
             m[1] = "done" => Pending(said) = m[2] /\ m[2] > 0,
             now = Append(said, m), Carried(c)
      PROVE  /\ InOrder(now, requests) /\ Given(now) = Len(requests) /\ Pending(now) = 0
             /\ m[1] = "done" => Quiet(now)
  <2>1. (m[1] = "refused") <=> (requests[Len(requests)] = "bad")
    BY <1>1, <1>e
  <2>2. m[1] = "refused" => Pending(said) = 0
    BY <1>e
  <2>3. m[1] # "audio" /\ Given(said) = Len(requests) - 1
    BY <1>1, <1>e
  <2>4. /\ InOrder(now, requests) /\ Given(now) = Len(requests) /\ Pending(now) = 0
        /\ m[1] # "failed" => Quiet(now)
    BY <1>0, <1>1, <1>e, <2>1, <2>2, <2>3, OneMoreAnswer, Zenon
  <2> QED BY <2>4
<1>3. CASE Chunk(c)
  <2> DEFINE m == <<"audio", 0>>
  <2>0. phase[c] = "stream" /\ total' = total /\ m \in Messages /\ m[1] = "audio"
    BY <1>3 DEF Chunk, Messages
  <2> HIDE DEF m
  <2>1. CASE /\ Written(c, m) /\ sent' = [sent EXCEPT ![c] = @ + 1]
             /\ UNCHANGED <<phase, leaseErr, failed>>
    <3>1. sent'[c] = sent[c] + 1 /\ phase'[c] = "stream" /\ failed'[c] = failed[c]
          /\ total'[c] = total[c]
      BY <1>0, <2>0, <2>1 DEF WorkTypes
    <3>2. CASE now = Append(said, m) /\ Carried(c)
      <4>1. /\ InOrder(now, requests) /\ Quiet(now)
            /\ Given(now) = Given(said) /\ Pending(now) = Pending(said) + 1
        BY <1>0, <1>1, <2>0, <3>2, OneMoreChunk
      <4>2. Given(now) = Len(requests) - 1 /\ Pending(now) = sent'[c]
        BY <1>1, <1>2, <2>0, <3>1, <3>2, <4>1
      <4>3. Progress(c)'
        BY <1>0, <3>1, <4>2 DEF Progress, now, requests
      <4> QED BY <1>0, <1>1, <1>2, <2>0, <3>1, <4>1, <4>3 DEF Dialogue, now, requests
    <3>3. CASE now = said /\ ~Carried(c)'
      BY <1>0, <1>1, <1>2, <2>0, <3>1, <3>3 DEF Dialogue, now, said, requests
    <3> QED BY <1>0, <2>1, <3>2, <3>3, Says DEF now, said
  <2>2. CASE WriteFails(c) /\ GiveUp(c) /\ UNCHANGED sent
    <3>1. phase'[c] = "release"
      BY <1>0, <2>2 DEF GiveUp, Go
    <3>2. now = said /\ ~Carried(c)'
      BY <1>0, <2>2, Says DEF now, said
    <3> QED BY <1>0, <1>1, <3>1, <3>2 DEF Dialogue, now, said, requests
  <2> QED BY <1>3, <2>1, <2>2 DEF Chunk, m
<1>4. CASE SayDone(c)
  <2> DEFINE m == <<"done", sent[c]>>
  <2>0. /\ phase[c] = "stream" /\ phase'[c] = "release" /\ sent[c] = total[c]
        /\ m \in Messages /\ m[1] = "done" /\ m[2] = sent[c]
    BY <1>0, <1>4 DEF SayDone, Go, Messages, WorkTypes
  <2> HIDE DEF m
  <2>1. CASE Written(c, m) /\ UNCHANGED failed
    <3>1. CASE now = Append(said, m) /\ Carried(c)
      <4>1. Pending(said) = m[2] /\ m[2] > 0
        BY <1>2, <2>0, <3>1
      <4>2. InOrder(now, requests) /\ Given(now) = Len(requests) /\ Pending(now) = 0 /\ Quiet(now)
        BY <1>e, <2>0, <3>1, <4>1
      <4>3. Progress(c)'
        BY <1>0, <1>2, <2>0, <2>1, <4>2 DEF Progress, now, requests
      <4> QED BY <1>0, <1>1, <2>0, <4>2, <4>3 DEF Dialogue, now, requests
    <3>2. CASE now = said /\ ~Carried(c)'
      BY <1>0, <1>1, <2>0, <3>2 DEF Dialogue, now, said, requests
    <3> QED BY <1>0, <2>1, <3>1, <3>2, Says DEF now, said
  <2>2. CASE WriteFails(c)
    <3>1. now = said /\ ~Carried(c)'
      BY <1>0, <2>2, Says DEF now, said
    <3> QED BY <1>0, <1>1, <2>0, <3>1 DEF Dialogue, now, said, requests
  <2> QED BY <1>4, <2>1, <2>2 DEF SayDone, m
<1>5. CASE Report(c)
  <2> DEFINE m == <<"failed", 0>>
  <2>0. phase'[c] = "leave" /\ m \in Messages /\ m[1] = "failed"
    BY <1>0, <1>5 DEF Report, Go, Messages
  <2>1. Written(c, m) \/ WriteFails(c)
    BY <1>5 DEF Report, WriteIgnored
  <2> HIDE DEF m
  <2>2. InOrder(now, requests)
    <3>1. CASE now = Append(said, m) /\ Carried(c)
      BY <1>e, <2>0, <3>1
    <3>2. CASE now = said
      BY <1>1, <3>2
    <3> QED BY <1>0, <2>1, <3>1, <3>2, Says DEF now, said
  <2> QED BY <1>0, <2>0, <2>2 DEF Dialogue, Progress, Answering, now, requests
<1> QED BY <1>3, <1>4, <1>5

\* What a handler does without a word to its client.
LEMMA SilentDialogue ==
    ASSUME WorkTypes, ConnTypes, phase \in [Handlers -> Phases],
           NEW c \in Clients, Dialogue(c), HandleStream(c),
           ~(Refuse(c) \/ Begin(c) \/ Chunk(c) \/ SayDone(c) \/ Report(c))
    PROVE  Dialogue(c)'
<1>0. c \in Handlers /\ c \notin Batches
  BY RoutesAssumption DEF Handlers
<1>1. CASE Return(c)
  <2>1. phase'[c] = "out" /\ heard'[c] = <<>> /\ taken'[c] = <<>>
    BY <1>0, <1>1 DEF Return, Go, ConnTypes
  <2> QED BY <2>1, Silence DEF Dialogue, Progress, Answering
<1> SUFFICES ASSUME ~Return(c) PROVE Dialogue(c)'
  BY <1>1
<1>2. UNCHANGED conns /\ (Carried(c)' <=> Carried(c))
  BY DEF HandleStream, Hops, Upgrade, CountGauge, CountSession, ReadFails, Acquire, Frontend,
         Latents, CallFails, ReleaseLease, Leave, UncountGauge, conns, Carried
<1>3. heard'[c] = heard[c] /\ taken'[c] = taken[c]
  BY <1>2 DEF conns
<1>4. InOrder(heard[c], taken[c])
  BY DEF Dialogue
<1>5. CASE phase'[c] \in {"leave", "uncount", "return"}
  BY <1>3, <1>4, <1>5 DEF Dialogue, Progress, Answering
<1>6. CASE Upgrade(c) \/ CountGauge(c)
  <2>1. phase'[c] \in {"count", "enter", "return"} /\ phase[c] \in {"upgrade", "count"}
    BY <1>0, <1>6 DEF Upgrade, CountGauge, Go
  <2> QED BY <1>3, <1>4, <1>5, <2>1 DEF Dialogue, Progress, Answering
<1>7. CASE CountSession(c)
  <2>1. phase'[c] = "read" /\ phase[c] = "enter"
    BY <1>0, <1>7 DEF CountSession, Go
  <2>2. heard'[c] = <<>> /\ taken'[c] = <<>>
    BY <1>3, <2>1 DEF Dialogue
  <2> QED BY <2>1, <2>2, Silence DEF Dialogue, Progress, Answering
<1>8. CASE ReadFails(c) \/ Leave(c) \/ UncountGauge(c)
  BY <1>0, <1>5, <1>8 DEF ReadFails, Leave, UncountGauge, Go
<1>9. CASE Acquire(c)
  <2>1. phase[c] = "acquire" /\ phase'[c] = "frontend" /\ sent'[c] = 0 /\ ~failed'[c]
    BY <1>0, <1>9 DEF Acquire, Go, WorkTypes
  <2> QED BY <1>2, <1>3, <2>1 DEF Dialogue, Progress, Answering
<1>10. CASE Frontend(c)
  <2>1. phase[c] = "frontend" /\ phase'[c] = "latents" /\ sent'[c] = sent[c] /\ failed'[c] = failed[c]
    BY <1>0, <1>10 DEF Frontend, Go, work
  <2> QED BY <1>2, <1>3, <2>1 DEF Dialogue, Progress, Answering
<1>11. CASE Latents(c)
  <2>1. /\ phase[c] = "latents" /\ phase'[c] = "stream" /\ sent'[c] = sent[c]
        /\ failed'[c] = failed[c] /\ total'[c] > 0
    BY <1>0, <1>11, RoutesAssumption DEF Latents, Go, WorkTypes
  <2> QED BY <1>2, <1>3, <2>1 DEF Dialogue, Progress, Answering
<1>12. CASE CallFails(c)
  <2>1. /\ phase[c] \in {"frontend", "latents", "stream"} /\ phase'[c] = "release" /\ failed'[c]
    BY <1>0, <1>12 DEF CallFails, GiveUp, Go, WorkTypes
  <2> QED BY <1>2, <1>3, <2>1 DEF Dialogue, Progress, Answering
<1>13. CASE ReleaseLease(c)
  <2>1. phase[c] = "release" /\ phase'[c] = IF failed[c] THEN "report" ELSE "read"
    BY <1>0, <1>13 DEF ReleaseLease, Go
  <2> QED BY <1>2, <1>3, <2>1 DEF Dialogue, Progress, Answering
<1> QED BY <1>6, <1>7, <1>8, <1>9, <1>10, <1>11, <1>12, <1>13 DEF HandleStream, Hops

\* What a handler does is nothing to the other clients.
LEMMA OthersStay ==
    ASSUME WorkTypes, ConnTypes, phase \in [Handlers -> Phases],
           NEW c \in Clients, NEW d \in Clients, c # d, HandleStream(d), Dialogue(c)
    PROVE  Dialogue(c)'
<1>0. c \in Handlers /\ d \in Handlers
  BY DEF Handlers
<1>1. phase'[c] = phase[c]
  BY <1>0 DEF HandleStream, Hops, Upgrade, CountGauge, CountSession, ReadFails, Refuse, Begin,
       Acquire, Frontend, Latents, CallFails, GiveUp, ReleaseLease, Chunk, SayDone, Report, Leave,
       UncountGauge, Return, Go
<1>2. sent'[c] = sent[c] /\ total'[c] = total[c] /\ failed'[c] = failed[c]
  BY <1>0 DEF HandleStream, Hops, Upgrade, CountGauge, CountSession, ReadFails, Refuse, Begin,
       Acquire, Frontend, Latents, CallFails, GiveUp, ReleaseLease, Chunk, SayDone, Report, Leave,
       UncountGauge, Return, work, WorkTypes
<1>3. /\ heard'[c] = heard[c] /\ taken'[c] = taken[c]
      /\ gone'[c] = gone[c] /\ writable'[c] = writable[c]
  BY DEF HandleStream, Hops, Upgrade, CountGauge, CountSession, ReadFails, Refuse, Begin, Take,
       Acquire, Frontend, Latents, CallFails, ReleaseLease, Chunk, SayDone, Report, Leave,
       UncountGauge, Return, Written, WriteFails, WriteIgnored, conns, ConnTypes
<1> QED BY <1>1, <1>2, <1>3, DialogueStays DEF Carried

LEMMA BatchDialogue ==
    ASSUME WorkTypes, NEW c \in Clients, NEW b \in Batches, HandleBatch(b), Dialogue(c),
           phase \in [Handlers -> Phases]
    PROVE  Dialogue(c)'
<1>0. c # b /\ c \in Handlers /\ b \in Handlers /\ b \notin Clients
  BY RoutesAssumption DEF Handlers
<1>1. UNCHANGED conns /\ failed' = failed
  BY <1>0 DEF HandleBatch, Hops, Acquire, Frontend, Latents, CallFails, GiveUp, ReleaseLease,
       BatchStarts, BatchYields, BatchChunk, BatchAnswers, BatchReturns, work, routes
<1>2. phase'[c] = phase[c] /\ sent'[c] = sent[c] /\ total'[c] = total[c]
  BY <1>0 DEF HandleBatch, Hops, Acquire, Frontend, Latents, CallFails, GiveUp, ReleaseLease,
       BatchStarts, BatchYields, BatchChunk, BatchAnswers, BatchReturns, Go, work, routes, WorkTypes
<1> QED BY <1>1, <1>2, DialogueStays DEF conns, Carried

LEMMA NextDialogue ==
    Places /\ WorkTypes /\ ConnTypes /\ DialogueInv /\ [RoutesNext]_routes => DialogueInv'
<1> SUFFICES ASSUME Places, WorkTypes, ConnTypes, DialogueInv, [RoutesNext]_routes,
                    NEW c \in Clients
             PROVE  Dialogue(c)'
  BY DEF DialogueInv
<1>0. phase \in [Handlers -> Phases] /\ c \in Handlers /\ Dialogue(c)
  BY DEF Places, Handlers, DialogueInv
<1>1. CASE HandleStream(c)
  BY <1>0, <1>1, TakeDialogue, SpeakDialogue, SilentDialogue
<1>2. ASSUME NEW d \in Clients, HandleStream(d), c # d PROVE Dialogue(c)'
  BY <1>0, <1>2, OthersStay
<1>3. ASSUME NEW b \in Batches, HandleBatch(b) PROVE Dialogue(c)'
  BY <1>0, <1>3, BatchDialogue
<1>4. ASSUME NEW d \in Clients, Admit(d) PROVE Dialogue(c)'
  <2>1. UNCHANGED <<work, conns>>
    BY <1>4 DEF Admit
  <2>2. CASE phase'[c] = phase[c]
    BY <1>0, <2>1, <2>2, DialogueStays DEF work, conns, Carried
  <2>3. CASE phase'[c] # phase[c]
    <3>1. phase[c] = "out" /\ phase'[c] = "upgrade"
      <4>1. c = d /\ phase'[c] = "upgrade"
        BY <1>0, <1>4, <2>3 DEF Admit, Go
      <4>2. pc[c] # "held"
        BY <1>4, <4>1 DEF Admit, TryAdmit, PassGate, RejectCooling, CheckInFlight, CheckQueue,
             AddInFlight, Trip
      <4> QED BY <4>1, <4>2 DEF Places
    <3> QED BY <1>0, <2>1, <3>1 DEF Dialogue, Progress, Answering, conns
  <2> QED BY <2>2, <2>3
<1>5. ASSUME NEW d \in Clients, Ask(d) \/ HangUp(d) \/ Expire(d) PROVE Dialogue(c)'
  <2>1. UNCHANGED <<phase, work, taken, heard, writable>>
    BY <1>5 DEF Ask, HangUp, Expire
  <2>2. gone[c] => gone'[c]
    BY <1>5 DEF Ask, HangUp, Expire, ConnTypes
  <2> QED BY <1>0, <2>1, <2>2, DialogueStays DEF work, Carried
<1>6. CASE Around \/ UNCHANGED routes
  <2>1. UNCHANGED <<phase, work, conns>>
    BY <1>6 DEF Around, routes
  <2> QED BY <1>0, <2>1, DialogueStays DEF work, conns, Carried
<1> QED BY <1>1, <1>2, <1>3, <1>4, <1>5, <1>6 DEF RoutesNext

LEMMA InitDialogue == GatewayInit => DialogueInv
BY Silence DEF GatewayInit, DialogueInv, Dialogue, Progress, Answering, Handlers

\* A client hears answers to its requests, in their order, a done message with
\* the chunks it has heard, and none is left out while the connection carries
\* them (AnswersInOrder), however many clients, requests ahead and chunks.
THEOREM AnswersKeepOrder == GatewaySpec => []AnswersInOrder
<1>1. DialogueInv => AnswersInOrder
  BY DEF DialogueInv, Dialogue, Progress, AnswersInOrder, Given
<1>2. GatewaySpec => [](Places /\ WorkTypes /\ ConnTypes)
  <2>1. Accounts => Places
    BY DEF Accounts
  <2> QED BY <2>1, AccountsKept, TypesKept, PTL
<1> QED BY <1>1, <1>2, InitDialogue, OnRoutes, NextDialogue, PTL DEF GatewaySpec
==============================================================================
