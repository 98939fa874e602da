------------------------------ MODULE TritonPool ------------------------------
(***************************************************************************)
(* The pool of Triton endpoints                                            *)
(* (gateway/internal/tritonclient/pool.go).                                *)
(*                                                                         *)
(* Session goroutines (Workers) acquire an endpoint, use it for one        *)
(* request and release it with the outcome; /healthz handlers (Probers)    *)
(* run Ready over all endpoints.  Each endpoint keeps three atomics,       *)
(* inFlight, healthy and failures, that no lock ties together: every       *)
(* atomic operation is an action of its own.                               *)
(*                                                                         *)
(* Whether an endpoint answers is up to its environment (up).              *)
(***************************************************************************)
EXTENDS Integers, FiniteSets

CONSTANTS
    N,                       \* number of endpoints
    Workers,                 \* session goroutines
    Probers,                 \* health handlers
    UnhealthyAfterFailures,  \* unhealthyAfterFailures
    MaxFailures              \* where the model stops counting failures

ASSUME EndpointsAssumption == N \in Nat \ {0}    \* DialPool refuses none
ASSUME ActorsAssumption == IsFiniteSet(Workers) /\ Workers \cap Probers = {}
ASSUME FailuresAssumption ==
    /\ UnhealthyAfterFailures \in Nat \ {0}
    /\ MaxFailures \in Nat /\ MaxFailures >= UnhealthyAfterFailures

Endpoints == 1..N
nil == 0

VARIABLES
    inFlight, healthy, failures,  \* the atomics of each poolEntry
    up,        \* external: does the endpoint answer?
    expired,   \* is the context of a health handler's Ready over?
    pc,        \* where each goroutine is
    idx,       \* the endpoint its loop is at
    best,      \* the endpoint a worker has picked so far, then leased
    bestLoad,  \* the load it was picked for
    watch      \* history: what has been true since a worker's scan began

atomics == <<inFlight, healthy, failures>>
picks   == <<best, bestLoad>>
vars    == <<inFlight, healthy, failures, up, expired, pc, idx, best, bestLoad,
             watch>>

Scanning == {"health", "load", "fallback", "add"}
Counted  == {"leased"}   \* between the two Adds on inFlight
WorkerLabels == Scanning \cup Counted \cup
                {"idle", "failed", "evict", "clear", "restore"}
ProberLabels == {"off", "ask", "mark", "forget", "unmark"}

\* Nothing observed yet.
Unwatched == [ever |-> {}, always |-> Endpoints, peak |-> [e \in Endpoints |-> 0]]

Init ==
    /\ inFlight = [e \in Endpoints |-> 0]
    /\ healthy = [e \in Endpoints |-> TRUE]
    /\ failures = [e \in Endpoints |-> 0]
    /\ up \in [Endpoints -> BOOLEAN]
    /\ expired = [p \in Probers |-> FALSE]
    /\ pc = [a \in Workers \cup Probers |-> IF a \in Workers THEN "idle" ELSE "off"]
    /\ idx = [a \in Workers \cup Probers |-> 1]
    /\ best = [w \in Workers |-> nil]
    /\ bestLoad = [w \in Workers |-> 0]
    /\ watch = [w \in Workers |-> Unwatched]

GoTo(a, label) == pc' = [pc EXCEPT ![a] = label]
-----------------------------------------------------------------------------
(* Acquire. *)

StartAcquire(w) ==
    /\ pc[w] = "idle"
    /\ GoTo(w, "health")
    /\ idx' = [idx EXCEPT ![w] = 1]
    /\ best' = [best EXCEPT ![w] = nil]
    /\ bestLoad' = [bestLoad EXCEPT ![w] = 0]
    /\ UNCHANGED <<atomics, up, expired>>

\* The end of one iteration of the first loop, with the pick b so far: the
\* next endpoint, or after the last one the fallback loop when there is none.
NextHealth(w, b) ==
    IF idx[w] < N
      THEN GoTo(w, "health") /\ idx' = [idx EXCEPT ![w] = @ + 1]
      ELSE /\ GoTo(w, IF b = nil THEN "fallback" ELSE "add")
           /\ idx' = [idx EXCEPT ![w] = 1]

\* Faulty LoadHealthy: health is ignored.
LoadHealthyBlind(w) ==
    /\ pc[w] = "health"
    /\ GoTo(w, "load")
    /\ UNCHANGED <<atomics, up, expired, idx, picks>>

\* e.healthy.Load(): an unhealthy endpoint is skipped.
LoadHealthy(w) ==
    /\ pc[w] = "health"
    /\ IF healthy[idx[w]]
         THEN GoTo(w, "load") /\ UNCHANGED idx
         ELSE NextHealth(w, best[w])
    /\ UNCHANGED <<atomics, up, expired, picks>>

\* best == nil || load < bestLoad, for the load just read.
Keep(w, load) ==
    IF best[w] = nil \/ load < bestLoad[w]
      THEN /\ best' = [best EXCEPT ![w] = idx[w]]
           /\ bestLoad' = [bestLoad EXCEPT ![w] = load]
      ELSE UNCHANGED picks

\* e.inFlight.Load() in the first loop.
LoadInFlight(w) ==
    /\ pc[w] = "load"
    /\ Keep(w, inFlight[idx[w]])
    /\ NextHealth(w, idx[w])
    /\ UNCHANGED <<atomics, up, expired>>

\* e.inFlight.Load() in the fallback loop, which ignores health.
LoadFallback(w) ==
    /\ pc[w] = "fallback"
    /\ Keep(w, inFlight[idx[w]])
    /\ IF idx[w] < N
         THEN UNCHANGED pc /\ idx' = [idx EXCEPT ![w] = @ + 1]
         ELSE GoTo(w, "add") /\ idx' = [idx EXCEPT ![w] = 1]
    /\ UNCHANGED <<atomics, up, expired>>

\* best.inFlight.Add(1): the lease.  The load it was picked for is forgotten.
AddInFlight(w) ==
    /\ pc[w] = "add"
    /\ inFlight' = [inFlight EXCEPT ![best[w]] = @ + 1]
    /\ bestLoad' = [bestLoad EXCEPT ![w] = 0]
    /\ GoTo(w, "leased")
    /\ UNCHANGED <<healthy, failures, up, expired, idx, best>>
-----------------------------------------------------------------------------
(* Release. *)

\* Faulty Release: a failed request does not give its load back.
ReleaseSuccessOnly(w) ==
    /\ pc[w] = "leased"
    /\ \/ GoTo(w, "failed") /\ UNCHANGED inFlight
       \/ /\ up[best[w]] /\ GoTo(w, "clear")
          /\ inFlight' = [inFlight EXCEPT ![best[w]] = @ - 1]
    /\ UNCHANGED <<healthy, failures, up, expired, idx, picks>>

\* Faulty Release: the load is given back twice.
ReleaseTwice(w) ==
    /\ pc[w] = "leased"
    /\ inFlight' = [inFlight EXCEPT ![best[w]] = @ - 2]
    /\ \/ GoTo(w, "failed")
       \/ up[best[w]] /\ GoTo(w, "clear")
    /\ UNCHANGED <<healthy, failures, up, expired, idx, picks>>

\* inFlight.Add(-1), with the outcome of the request.  Only an endpoint that
\* answers can succeed; a request can fail on any endpoint.
Release(w) ==
    /\ pc[w] = "leased"
    /\ inFlight' = [inFlight EXCEPT ![best[w]] = @ - 1]
    /\ \/ GoTo(w, "failed")
       \/ up[best[w]] /\ GoTo(w, "clear")
    /\ UNCHANGED <<healthy, failures, up, expired, idx, picks>>

\* failures.Add(1) >= unhealthyAfterFailures
CountFailure(w) ==
    LET count == failures[best[w]] + 1
    IN  /\ pc[w] = "failed"
        /\ failures' = [failures EXCEPT
                          ![best[w]] = IF count > MaxFailures THEN @ ELSE count]
        /\ GoTo(w, IF count >= UnhealthyAfterFailures THEN "evict" ELSE "idle")
        /\ UNCHANGED <<inFlight, healthy, up, expired, idx, picks>>

\* healthy.Store(false)
Evict(w) ==
    /\ pc[w] = "evict"
    /\ healthy' = [healthy EXCEPT ![best[w]] = FALSE]
    /\ GoTo(w, "idle")
    /\ UNCHANGED <<inFlight, failures, up, expired, idx, picks>>

\* failures.Store(0)
ClearFailures(w) ==
    /\ pc[w] = "clear"
    /\ failures' = [failures EXCEPT ![best[w]] = 0]
    /\ GoTo(w, "restore")
    /\ UNCHANGED <<inFlight, healthy, up, expired, idx, picks>>

\* healthy.Store(true)
Restore(w) ==
    /\ pc[w] = "restore"
    /\ healthy' = [healthy EXCEPT ![best[w]] = TRUE]
    /\ GoTo(w, "idle")
    /\ UNCHANGED <<inFlight, failures, up, expired, idx, picks>>
-----------------------------------------------------------------------------
(* Ready, run by the health handler: all probes of a run share the context    *)
(* that handleHealth gives 2 s, less than the 3 s each probe would wait.       *)

StartReady(p) ==
    /\ pc[p] = "off"
    /\ GoTo(p, "ask")
    /\ idx' = [idx EXCEPT ![p] = 1]
    /\ UNCHANGED <<atomics, up, expired, picks>>

\* e.client.Ready(c): an answer, or an error.  The context may be over by the end
\* of it, because the endpoint hangs, or because earlier answers were slow, or
\* because the caller of /healthz leaves; from then on every probe of the run
\* fails, whether its endpoint answers or not.
Ask(p) ==
    /\ pc[p] = "ask"
    /\ \E over \in BOOLEAN :
         /\ expired[p] => over
         /\ expired' = [expired EXCEPT ![p] = over]
         /\ GoTo(p, IF up[idx[p]] /\ ~over THEN "mark" ELSE "unmark")
    /\ UNCHANGED <<atomics, up, idx, picks>>

\* The next endpoint; after the last one the handler cancels its context.
NextProbe(p) ==
    IF idx[p] < N
      THEN GoTo(p, "ask") /\ idx' = [idx EXCEPT ![p] = @ + 1] /\ UNCHANGED expired
      ELSE /\ GoTo(p, "off") /\ idx' = [idx EXCEPT ![p] = 1]
           /\ expired' = [expired EXCEPT ![p] = FALSE]

\* Faulty Mark: an endpoint that answers is not put back.
MarkNothing(p) ==
    /\ pc[p] = "mark"
    /\ GoTo(p, "forget")
    /\ UNCHANGED <<atomics, up, expired, idx, picks>>

\* healthy.Store(true) ...
Mark(p) ==
    /\ pc[p] = "mark"
    /\ healthy' = [healthy EXCEPT ![idx[p]] = TRUE]
    /\ GoTo(p, "forget")
    /\ UNCHANGED <<inFlight, failures, up, expired, idx, picks>>

\* ... failures.Store(0)
Forget(p) ==
    /\ pc[p] = "forget"
    /\ failures' = [failures EXCEPT ![idx[p]] = 0]
    /\ NextProbe(p)
    /\ UNCHANGED <<inFlight, healthy, up, picks>>

\* Faulty Unmark: an endpoint that does not answer stays in rotation.
UnmarkNothing(p) ==
    /\ pc[p] = "unmark"
    /\ NextProbe(p)
    /\ UNCHANGED <<atomics, up, picks>>

\* healthy.Store(false)
Unmark(p) ==
    /\ pc[p] = "unmark"
    /\ healthy' = [healthy EXCEPT ![idx[p]] = FALSE]
    /\ NextProbe(p)
    /\ UNCHANGED <<inFlight, failures, up, picks>>
-----------------------------------------------------------------------------
\* An endpoint stops or starts answering.
Toggle(e) ==
    /\ up' = [up EXCEPT ![e] = ~@]
    /\ UNCHANGED <<atomics, expired, pc, idx, picks>>

\* The history of a scan: the endpoints that were healthy at some time in it,
\* those that were healthy all through it, and the highest load of each of these.
Seen(w) ==
    LET stayed == watch[w].always \cap {e \in Endpoints : healthy'[e]}
    IN  [ever   |-> watch[w].ever \cup {e \in Endpoints : healthy'[e]},
         always |-> stayed,
         peak   |-> [e \in Endpoints |->
                       IF e \notin stayed THEN 0
                       ELSE IF inFlight'[e] > watch[w].peak[e]
                         THEN inFlight'[e] ELSE watch[w].peak[e]]]

Watch == watch' = [w \in Workers |-> IF pc'[w] \in Scanning THEN Seen(w) ELSE Unwatched]

Acquire(w) ==
    \/ StartAcquire(w)
    \/ LoadHealthy(w)
    \/ LoadInFlight(w)
    \/ LoadFallback(w)
    \/ AddInFlight(w)

FinishRelease(w) ==
    \/ CountFailure(w)
    \/ Evict(w)
    \/ ClearFailures(w)
    \/ Restore(w)

Probe(p) == Ask(p) \/ Mark(p) \/ Forget(p) \/ Unmark(p)

Step ==
    \/ \E w \in Workers : Acquire(w) \/ Release(w) \/ FinishRelease(w)
    \/ \E p \in Probers : StartReady(p) \/ Probe(p)
    \/ \E e \in Endpoints : Toggle(e)

Next == Step /\ Watch

Spec == Init /\ [][Next]_vars

\* A health handler that has started is scheduled until it is done; that one
\* starts at all, or that requests come, is not the gateway's to promise.
FairSpec ==
    Spec /\ \A p \in Probers : WF_vars(Probe(p) /\ Watch)
-----------------------------------------------------------------------------
(* Properties. *)

Holding(e) == {w \in Workers : pc[w] \in Counted /\ best[w] = e}

\* Every variable stays in its type.
TypeOK ==
    /\ inFlight \in [Endpoints -> Nat]
    /\ healthy \in [Endpoints -> BOOLEAN]
    /\ failures \in [Endpoints -> 0..MaxFailures]
    /\ up \in [Endpoints -> BOOLEAN]
    /\ expired \in [Probers -> BOOLEAN]
    /\ pc \in [Workers \cup Probers -> WorkerLabels \cup ProberLabels]
    /\ \A a \in Workers : pc[a] \in WorkerLabels
    /\ \A a \in Probers : pc[a] \in ProberLabels
    /\ idx \in [Workers \cup Probers -> Endpoints]
    /\ best \in [Workers -> Endpoints \cup {nil}]
    /\ bestLoad \in [Workers -> Nat]
    /\ watch \in [Workers -> [ever : SUBSET Endpoints, always : SUBSET Endpoints,
                              peak : [Endpoints -> Nat]]]

\* An endpoint's load is the number of leases out on it: the counter routing
\* relies on neither drifts nor goes negative, whatever fails meanwhile, and
\* Acquire never comes back without an endpoint.
LeasesCounted ==
    /\ \A e \in Endpoints : inFlight[e] = Cardinality(Holding(e))
    /\ \A w \in Workers : pc[w] \in Counted \cup {"add"} => best[w] # nil

\* What Acquire settles on, although it reads the atomics one by one while
\* they change: an endpoint that was healthy at some time during the scan,
\* unless none stayed healthy all through it; and one read at a load no higher
\* than the highest load of any endpoint that did stay healthy.
ChoiceSound ==
    \A w \in Workers : pc[w] = "add" =>
      /\ best[w] \in watch[w].ever \/ watch[w].always = {}
      /\ \A e \in watch[w].always : bestLoad[w] <= watch[w].peak[e]

HealthIsPolled == \A p \in Probers : []<><<StartReady(p)>>_vars

\* A probe of an endpoint that answers, cut short.
CutShort(p) == pc[p] = "ask" /\ up[idx[p]] /\ ~expired[p] /\ expired'[p]

Unhurried == <>[][\A p \in Probers : ~CutShort(p)]_vars

\* As long as health is polled by callers that wait, an endpoint that answers for
\* good is put back into rotation again and again, whatever the requests on it
\* report, if those that Ready asks before it answer for good too: no
\* interleaving of Release and Ready leaves it out for ever.  The premise on the
\* endpoints before it is needed: one of them that hangs uses up the context
\* they share, and every run of Ready takes the endpoint that answers out.
Reinstated ==
    \A e \in Endpoints :
      HealthIsPolled /\ Unhurried /\ (\A d \in 1..e : <>[](up[d]))
        => []<>(healthy[e])

\* As long as health is polled, however hurried, an endpoint that stops answering
\* for good leaves the rotation for good: late reports of old successes run out.
DeadLeavesRotation ==
    \A e \in Endpoints :
      HealthIsPolled /\ <>[](~up[e]) => <>[](~healthy[e])

\* Nothing is half-way through a Release or a Ready on the endpoint.
Quiet(e) ==
    /\ \A w \in Workers :
         pc[w] \in {"failed", "evict", "clear", "restore"} => best[w] # e
    /\ \A p \in Probers : pc[p] \in {"mark", "forget", "unmark"} => idx[p] # e

\* pool.go:94-95: "Any success clears the streak: the counter tracks
\* *consecutive* failures, so a single recovery is enough to keep an endpoint in
\* rotation."  In a gateway whose health nobody polls, an endpoint whose streak is
\* clear is in rotation.
RecoveredIsHealthy ==
    \A e \in Endpoints : Quiet(e) /\ failures[e] = 0 => healthy[e]
=============================================================================
