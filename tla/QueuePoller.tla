----------------------------- MODULE QueuePoller -----------------------------
(***************************************************************************)
(* The goroutine that feeds the admission controller from Triton's metrics *)
(* (pollQueueDepth, gateway/cmd/gateway/main.go), composed with the        *)
(* controller (Admission) and with the traffic the controller lets through.*)
(*                                                                         *)
(* Triton's two cumulative counters are external: they grow when requests  *)
(* are served and start again from zero when Triton restarts.  Queue time  *)
(* is counted in units of which UsPerSlot are what one request spends when *)
(* it waits for a whole poll period; then dUs \div UsPerSlot is the code's *)
(* int64((dNs / dCount) / 1e6 * (dCount / 0.5)), from which dCount cancels.*)
(***************************************************************************)
EXTENDS Admission

CONSTANTS
    UsPerSlot,    \* queue time of one request waiting for one poll period
    MaxUs,        \* bound on the queue-time counter
    MaxCount,     \* bound on the request counter
    MaxWait       \* bound on the queue time added by one served request

ASSUME UnitsAssumption ==
    /\ UsPerSlot \in Nat \ {0}
    /\ MaxUs \in Nat /\ MaxCount \in Nat /\ MaxWait \in Nat
ASSUME DepthsReportable == \A us \in 0..MaxUs : us \div UsPerSlot \in QueueDepths

VARIABLES
    triton,      \* external: the cumulative counters, [count, us]
    last,        \* lastCount and lastNs
    primed,      \* primed
    batch,       \* external to the controller: is a batch request running?
    unread,      \* history: queue time accrued since the last answered scrape
    misled       \* history: was that scrape answered by another page?

pollVars == <<triton, last, primed, batch, unread, misled>>
allVars  == <<vars, pollVars>>

Page == [count : 0..MaxCount, us : 0..MaxUs]
NoCounters == [count |-> 0, us |-> 0]

PollerInit ==
    /\ Init
    /\ triton \in {NoCounters, [count |-> MaxCount, us |-> MaxUs]}
    /\ last = NoCounters
    /\ primed = FALSE
    /\ batch = FALSE
    /\ unread = 0
    /\ misled = FALSE
-----------------------------------------------------------------------------
(* The poller.  One tick of its ticker is one action. *)

\* Faulty PollAnswered: the first answer is reported too.
PollAnsweredUnprimed(page) ==
    LET dCount == page.count - last.count
        dUs    == page.us - last.us
    IN  /\ last' = page
        /\ primed' = TRUE
        /\ IF dCount > 0 /\ dUs > 0
             THEN ObserveQueueDepth(dUs \div UsPerSlot)
             ELSE UNCHANGED vars
        /\ unread' = 0
        /\ UNCHANGED <<triton, batch>>

\* Faulty PollAnswered: a restarted counter is not noticed.
PollAnsweredBackwards(page) ==
    LET dCount == page.count - last.count
        dUs    == page.us - last.us
    IN  /\ last' = page
        /\ primed' = TRUE
        /\ IF primed /\ dCount # 0
             THEN ObserveQueueDepth(dUs \div UsPerSlot)
             ELSE UNCHANGED vars
        /\ unread' = 0
        /\ UNCHANGED <<triton, batch>>

\* The scrape is answered with the given page.  The first answer only primes;
\* later ones are reported when both counters grew.
PollAnswered(page) ==
    LET dCount == page.count - last.count
        dUs    == page.us - last.us
    IN  /\ last' = page
        /\ primed' = TRUE
        /\ IF primed /\ dCount > 0 /\ dUs > 0
             THEN ObserveQueueDepth(dUs \div UsPerSlot)
             ELSE UNCHANGED vars
        /\ unread' = 0
        /\ UNCHANGED <<triton, batch>>

\* The request or the read of its body fails, or times out after 2 s, through
\* which the ticker drops its ticks: nothing is updated.
PollFails ==
    /\ UNCHANGED allVars

\* The answer's status is not looked at: a page that is not the metrics has no
\* line with either prefix and reads as two zero counters.
Poll ==
    \/ PollAnswered(triton) /\ misled' = FALSE
    \/ PollAnswered(NoCounters) /\ misled' = TRUE
    \/ PollFails
-----------------------------------------------------------------------------
(* The traffic Triton serves, all of it admitted by the gateway. *)

\* handleBatch takes no slot of the controller: it looks at the depth alone.
StartBatch ==
    /\ ~batch
    /\ queueDepth <= Quarter
    /\ batch' = TRUE
    /\ UNCHANGED <<vars, triton, last, primed, unread, misled>>

EndBatch ==
    /\ batch
    /\ batch' = FALSE
    /\ UNCHANGED <<vars, triton, last, primed, unread, misled>>

AtBound ==
    \/ triton.count >= MaxCount
    \/ triton.us + MaxWait > MaxUs
    \/ unread + MaxWait > MaxUs

\* Triton serves a request of an admitted session that waited w in its queue.
Serve(w) ==
    /\ batch \/ Holders # {}
    /\ ~AtBound
    /\ triton' = [count |-> triton.count + 1, us |-> triton.us + w]
    /\ unread' = unread + w
    /\ UNCHANGED <<vars, last, primed, batch, misled>>

RestartTriton ==
    /\ triton' = NoCounters
    /\ UNCHANGED <<vars, last, primed, batch, unread, misled>>

Sessions ==
    /\ \/ \E c \in Clients : TryAdmit(c) \/ Release(c)
       \/ Tick
    /\ UNCHANGED pollVars

PollerNext ==
    \/ Sessions
    \/ Poll
    \/ StartBatch
    \/ EndBatch
    \/ \E w \in 0..MaxWait : Serve(w)
    \/ RestartTriton

PollerSpec == PollerInit /\ [][PollerNext]_allVars

\* Time passes; nothing else is assumed.
TimedPoller == PollerSpec /\ WF_allVars(Tick /\ UNCHANGED pollVars)

\* Clients keep calling and keep finishing, the clock and the ticker keep
\* running, scrapes keep being answered and Triton keeps serving.
FairPoller ==
    /\ PollerSpec
    /\ WF_allVars(Tick /\ UNCHANGED pollVars)
    /\ WF_allVars(PollAnswered(triton) /\ misled' = FALSE)
    /\ WF_allVars(\E w \in 0..MaxWait : Serve(w))
    /\ WF_allVars(StartBatch)
    /\ \A c \in Clients :
         /\ SF_allVars(PassGate(c) /\ UNCHANGED pollVars)
         /\ WF_allVars(CheckInFlight(c) /\ UNCHANGED pollVars)
         /\ WF_allVars(CheckQueue(c) /\ UNCHANGED pollVars)
         /\ WF_allVars(AddInFlight(c) /\ UNCHANGED pollVars)
         /\ WF_allVars(Trip(c) /\ UNCHANGED pollVars)
         /\ WF_allVars(Release(c) /\ UNCHANGED pollVars)
-----------------------------------------------------------------------------
(* Properties. *)

\* Every variable stays in its type.
PollerTypeOK ==
    /\ TypeOK
    /\ triton \in Page /\ last \in Page
    /\ primed \in BOOLEAN /\ batch \in BOOLEAN
    /\ unread \in 0..MaxUs /\ misled \in BOOLEAN

\* A depth that is reported is accounted for by queue time spent since the
\* previous answered scrape, across gateway starts on an old Triton (the primed
\* flag), Triton restarts (counters that go backwards) and failed scrapes; the one
\* exception is the scrape after a page that was not the metrics, whose difference
\* is against zero.
NoPhantomDepth ==
    [][queueDepth' # queueDepth => queueDepth' * UsPerSlot <= unread \/ misled]_allVars

\* Fed by the poller, the controller still does only what Admission allows: in
\* particular a Triton restart never makes it see a depth out of range.
ImplementsAdmission == Spec

\* A trip closes the controller "briefly" (admission.go:28): a depth over the
\* threshold is eventually replaced by a fresh one and calls are admitted again.
\* Runs that hit the bounds on the counters are left out.
ClosedBriefly ==
    [](~AtBound) =>
      ((queueDepth >= MaxQueueDepth) ~> (queueDepth < MaxQueueDepth))
=============================================================================
