------------------------------ MODULE Admission ------------------------------
(***************************************************************************)
(* The admission controller of the gateway                                 *)
(* (gateway/internal/admission/admission.go).                              *)
(*                                                                         *)
(* One Controller is shared by every session goroutine.  Its two counters  *)
(* are lone atomics and only trippedAt is guarded by the mutex, so         *)
(* TryAdmit is not one step: the cooldown is checked under the lock, then  *)
(* inFlight and queueDepth are loaded, then inFlight is incremented, each  *)
(* in an atomic operation of its own, with the other goroutines running in *)
(* between.  Each of these operations is an action here.                   *)
(*                                                                         *)
(* The wall clock is abstracted to the age of the latest trip in ticks,    *)
(* capped at Cooldown, from which on the controller no longer looks at it. *)
(* The reason a rejection carries is wording and is left out.              *)
(***************************************************************************)
EXTENDS Integers, FiniteSets

CONSTANTS
    Clients,         \* the session goroutines
    MaxInFlight,     \* Config.MaxInFlight
    MaxQueueDepth,   \* Config.MaxQueueDepth; 0 or less disables the check
    Cooldown,        \* Config.CooldownAfterTrip, in ticks of the clock
    QueueDepths      \* the depths the poller may report

ASSUME ClientsAssumption   == IsFiniteSet(Clients)
ASSUME LimitsAssumption    == MaxInFlight \in Int /\ MaxQueueDepth \in Int
ASSUME CooldownAssumption  == Cooldown \in Nat
ASSUME QueueDepthsAssumption == QueueDepths \subseteq Int /\ 0 \in QueueDepths

VARIABLES
    inFlight,     \* Controller.inFlight
    queueDepth,   \* Controller.queueDepth
    sinceTrip,    \* time.Since(trippedAt), capped; Cooldown if never tripped
    pc,           \* where each goroutine is in TryAdmit, or that it is "held"
    peakRacers,   \* history: most goroutines ever between check and Add at once
    stragglers    \* history: goroutines that were past the gate at the latest trip

vars == <<inFlight, queueDepth, sinceTrip, pc, peakRacers, stragglers>>

Labels == {"idle", "check_in_flight", "check_queue", "add", "trip", "held"}

At(labels) == {c \in Clients : pc[c] \in labels}

\* Admitted sessions: TryAdmit has counted them and Release has not run yet.
Holders == At({"held"})

\* Goroutines that have seen room below the ceiling and not yet taken it.
Racers == At({"check_queue", "add"})

\* Goroutines that passed the cooldown check and have not returned.
PastGate == At({"check_in_flight", "check_queue", "add", "trip"})

Cooling == sinceTrip < Cooldown

\* s.cfg.maxQueueDepth/4, rounded towards zero: the depth up to which the gateway
\* accepts batch requests.
Quarter == IF MaxQueueDepth >= 0 THEN MaxQueueDepth \div 4 ELSE -((-MaxQueueDepth) \div 4)

Init ==
    /\ inFlight = 0
    /\ queueDepth = 0
    /\ sinceTrip = Cooldown
    /\ pc = [c \in Clients |-> "idle"]
    /\ peakRacers = 0
    /\ stragglers = {}

GoTo(c, label) == pc' = [pc EXCEPT ![c] = label]
-----------------------------------------------------------------------------
(* TryAdmit. *)

\* Faulty PassGate: the cooldown is never looked at.
PassGateOpen(c) ==
    /\ pc[c] = "idle"
    /\ GoTo(c, "check_in_flight")
    /\ UNCHANGED <<inFlight, queueDepth, sinceTrip, peakRacers, stragglers>>

\* The cooldown check, under the mutex: rejected while cooling.  A rejection
\* returns at once and leaves the controller as it was.
PassGate(c) ==
    /\ pc[c] = "idle"
    /\ ~Cooling
    /\ GoTo(c, "check_in_flight")
    /\ UNCHANGED <<inFlight, queueDepth, sinceTrip, peakRacers, stragglers>>

\* Faulty RejectCooling: a call turned away while cooling trips again.
RejectRetrips(c) ==
    /\ pc[c] = "idle"
    /\ Cooling
    /\ sinceTrip' = 0
    /\ UNCHANGED <<inFlight, queueDepth, pc, peakRacers, stragglers>>

RejectCooling(c) ==
    /\ pc[c] = "idle"
    /\ Cooling
    /\ UNCHANGED vars

\* Faulty CheckInFlight: > for >=.
CheckInFlightOffByOne(c) ==
    /\ pc[c] = "check_in_flight"
    /\ GoTo(c, IF inFlight > MaxInFlight THEN "trip" ELSE "check_queue")
    /\ peakRacers' = IF Cardinality(Racers') > peakRacers
                       THEN Cardinality(Racers') ELSE peakRacers
    /\ UNCHANGED <<inFlight, queueDepth, sinceTrip, stragglers>>

\* inFlight.Load() >= cfg.MaxInFlight
CheckInFlight(c) ==
    /\ pc[c] = "check_in_flight"
    /\ GoTo(c, IF inFlight >= MaxInFlight THEN "trip" ELSE "check_queue")
    /\ peakRacers' = IF Cardinality(Racers') > peakRacers
                       THEN Cardinality(Racers') ELSE peakRacers
    /\ UNCHANGED <<inFlight, queueDepth, sinceTrip, stragglers>>

\* cfg.MaxQueueDepth > 0 && queueDepth.Load() >= cfg.MaxQueueDepth
CheckQueue(c) ==
    /\ pc[c] = "check_queue"
    /\ GoTo(c, IF MaxQueueDepth > 0 /\ queueDepth >= MaxQueueDepth
                 THEN "trip" ELSE "add")
    /\ UNCHANGED <<inFlight, queueDepth, sinceTrip, peakRacers, stragglers>>

\* inFlight.Add(1): the session is admitted.
AddInFlight(c) ==
    /\ pc[c] = "add"
    /\ inFlight' = inFlight + 1
    /\ GoTo(c, "held")
    /\ stragglers' = stragglers \ {c}
    /\ UNCHANGED <<queueDepth, sinceTrip, peakRacers>>

\* Faulty Trip: the handler defers Release before it looks at the decision.
TripReleases(c) ==
    /\ pc[c] = "trip"
    /\ sinceTrip' = 0
    /\ inFlight' = IF inFlight > 0 THEN inFlight - 1 ELSE 0
    /\ GoTo(c, "idle")
    /\ stragglers' = PastGate \ {c}
    /\ UNCHANGED <<queueDepth, peakRacers>>

\* trip(reason), under the mutex, then the rejection.
Trip(c) ==
    /\ pc[c] = "trip"
    /\ sinceTrip' = 0
    /\ GoTo(c, "idle")
    /\ stragglers' = PastGate \ {c}
    /\ UNCHANGED <<inFlight, queueDepth, peakRacers>>

\* Faulty Release: called by the handler and deferred as well, without the clamp.
ReleaseTwice(c) ==
    /\ pc[c] = "held"
    /\ inFlight' = inFlight - 2
    /\ GoTo(c, "idle")
    /\ UNCHANGED <<queueDepth, sinceTrip, peakRacers, stragglers>>

\* Release, which the handler defers once it is admitted.  The code's Store(0)
\* after an Add(-1) that went negative is the second branch; InFlightExact
\* says that it is never taken.
Release(c) ==
    /\ pc[c] = "held"
    /\ inFlight' = IF inFlight - 1 < 0 THEN 0 ELSE inFlight - 1
    /\ GoTo(c, "idle")
    /\ UNCHANGED <<queueDepth, sinceTrip, peakRacers, stragglers>>

TryAdmit(c) ==
    \/ PassGate(c)
    \/ RejectCooling(c)
    \/ CheckInFlight(c)
    \/ CheckQueue(c)
    \/ AddInFlight(c)
    \/ Trip(c)
-----------------------------------------------------------------------------
(* The poller goroutine and the clock. *)

ObserveQueueDepth(d) ==
    /\ queueDepth' = d
    /\ UNCHANGED <<inFlight, sinceTrip, pc, peakRacers, stragglers>>

Tick ==
    /\ Cooling
    /\ sinceTrip' = sinceTrip + 1
    /\ UNCHANGED <<inFlight, queueDepth, pc, peakRacers, stragglers>>

Next ==
    \/ \E c \in Clients : TryAdmit(c) \/ Release(c)
    \/ \E d \in QueueDepths : ObserveQueueDepth(d)
    \/ Tick

Spec == Init /\ [][Next]_vars

\* Time passes whatever the goroutines do; nothing else is assumed of them.
FairSpec == Spec /\ WF_vars(Tick)
-----------------------------------------------------------------------------
(* Properties. *)

\* Every variable stays in its type; the counters never go negative.
TypeOK ==
    /\ inFlight \in Nat
    /\ queueDepth \in QueueDepths
    /\ sinceTrip \in 0..Cooldown
    /\ pc \in [Clients -> Labels]
    /\ peakRacers \in Nat
    /\ stragglers \in SUBSET Clients

\* The counter is exactly the number of sessions that hold a slot, in every
\* interleaving of TryAdmit and Release: no slot leaks, none is returned twice,
\* and the clamp in Release (admission.go:84) has nothing to repair.
InFlightExact == inFlight = Cardinality(Holders)

\* The ceiling can be passed, because the check (line 70) and the Add (line 79)
\* are two steps, but never by more than the goroutines that raced: with at
\* most k goroutines between the two at once, at most MaxInFlight + k - 1 are
\* admitted.  When calls do not overlap (k = 1) the ceiling is exact.
OvershootBounded == Holders = {} \/ inFlight < MaxInFlight + peakRacers

\* While the controller cools down, the only goroutines still on their way to
\* an admission are those that were already past the gate when it tripped, so
\* a trip is followed by at most that many admissions before it reopens.
ClosedExceptStragglers == Cooling => PastGate \subseteq stragglers

\* The controller reopens again and again: the traffic rejected while it is
\* closed cannot keep it closed (a goroutine turned away by the gate never
\* trips), however many goroutines call and however often.
CooldownEnds == []<>(~Cooling)
=============================================================================
