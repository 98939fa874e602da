----------------------------- MODULE BaselineLoad -----------------------------
(***************************************************************************)
(* The load test of the baseline (baseline/loadtest.py), run against       *)
(* BaselineServer while another caller may use the server too.             *)
(*                                                                         *)
(* For each level it starts as many workers as the level says.  They first *)
(* ask for WarmUp ticks without being counted and, when the last of these  *)
(* requests is over, ask again until Duration ticks after the level began. *)
(* A request that has had no answer after Timeout ticks is an error.       *)
(*                                                                         *)
(* `now` is the time since the level began.  No request takes less than a  *)
(* tick, and workers do not dawdle: time passes only while every worker    *)
(* waits for an answer.  Latencies and their percentiles are left out.     *)
(***************************************************************************)
EXTENDS BaselineServer, Sequences, SequencesExt

CONSTANTS
    Levels,      \* --levels, the concurrency of each
    Duration,    \* --duration
    WarmUp,      \* the 3 seconds before recording
    Timeout      \* ClientTimeout

\* A level of no workers measures nothing.
ASSUME LevelsAssumption == Levels \in Seq(Nat \ {0}) /\ Levels # <<>>
ASSUME TimesAssumption == Duration \in Nat /\ WarmUp \in Nat /\ Timeout \in Nat \ {0}

VARIABLES
    main,      \* where main() is
    level,     \* number of the level, from 1
    now,       \* time since the level began
    began,     \* when its recording began
    worker,    \* the worker coroutines
    samples,   \* the recorded samples, counted
    results    \* a summary of each level that is over

loadVars == <<main, level, now, began, worker, samples, results>>
baselineVars == <<serverVars, loadVars>>

Workers == UNION {1..n : n \in ToSet(Levels)}
Active == 1..Levels[level]
Idle == [pc |-> "loop", born |-> 0, slot |-> 0]
NoSamples == [requests |-> 0, ok |-> 0]

LoadInit ==
    /\ ServerInit
    /\ main = "health" /\ level = 1 /\ now = 0 /\ began = 0
    /\ worker = [w \in Workers |-> Idle]
    /\ samples = NoSamples
    /\ results = <<>>

\* main() asks /healthz first, and ends with an exception when nothing answers.
Health ==
    /\ main = "health"
    /\ main' = IF up = "serving" THEN "warm" ELSE "raised"
    /\ UNCHANGED <<serverVars, level, now, began, worker, samples, results>>

\* The `until` of the phase.  stop_at is computed before the warm-up.
Until == IF main = "warm" THEN WarmUp ELSE Duration
-----------------------------------------------------------------------------
(* A worker: while time remains, one request after another. *)

Ask(w) ==
    /\ main \in {"warm", "record"} /\ w \in Active
    /\ worker[w].pc = "loop"
    /\ worker' = [worker EXCEPT ![w] =
                    IF now < Until THEN [pc |-> "asked", born |-> now, slot |-> 0]
                                   ELSE [Idle EXCEPT !.pc = "out"]]
    /\ UNCHANGED <<serverVars, main, level, now, began, samples, results>>

FreeSlot == CHOOSE s \in In({"free"}) : TRUE

\* The request reaches the server.
Arrive(w) ==
    /\ worker[w].pc = "asked" /\ worker[w].slot = 0
    /\ In({"free"}) # {}
    /\ Accept(FreeSlot, Default, w)
    /\ worker' = [worker EXCEPT ![w].slot = FreeSlot]
    /\ UNCHANGED <<main, level, now, began, samples, results>>

\* A request is over: record.append(s), into a list that is dropped if it was
\* made for the warm-up.
Over(w, ok) ==
    /\ worker' = [worker EXCEPT ![w] = Idle]
    /\ samples' = IF main = "record"
                    THEN [requests |-> samples.requests + 1,
                          ok |-> samples.ok + (IF ok THEN 1 ELSE 0)]
                    ELSE samples
    /\ UNCHANGED <<main, level, now, began, results>>

Expired(w) == worker[w].pc = "asked" /\ now - worker[w].born >= Timeout

Hear(w) ==
    /\ worker[w].pc = "asked" /\ worker[w].slot # 0 /\ now > worker[w].born
    /\ Deliver(worker[w].slot)
    /\ Over(w, job[worker[w].slot].stage = "ran")

\* Faulty GiveUp: no ClientTimeout.
GiveUpNever(w) == FALSE /\ UNCHANGED baselineVars

\* The timeout fires.  The server is not told.
GiveUp(w) ==
    /\ Expired(w)
    /\ Over(w, FALSE)
    /\ IF worker[w].slot = 0 THEN UNCHANGED serverVars ELSE Abandon(worker[w].slot)

\* The server is gone: the connection is reset, or refused.
Refused(w) ==
    /\ worker[w].pc = "asked" /\ up = "stopped" /\ now > worker[w].born
    /\ Over(w, FALSE)
    /\ UNCHANGED serverVars

AllOut == \A w \in Active : worker[w].pc = "out"

Tick ==
    /\ main \in {"warm", "record"}
    /\ ~AllOut
    /\ \A w \in Active : worker[w].pc # "loop" /\ ~Expired(w)
    /\ now' = now + 1
    /\ UNCHANGED <<serverVars, main, level, began, worker, samples, results>>
-----------------------------------------------------------------------------
(* A level, and the ramp. *)

\* Faulty WarmedUp: gather returns with the first worker that is done.
WarmedUpEarly ==
    /\ main = "warm" /\ \E w \in Active : worker[w].pc = "out"
    /\ main' = "record" /\ began' = now
    /\ worker' = [w \in Workers |-> IF worker[w].pc = "out" THEN Idle ELSE worker[w]]
    /\ UNCHANGED <<serverVars, level, now, samples, results>>

\* The first gather returns when every worker has.
WarmedUp ==
    /\ main = "warm" /\ AllOut
    /\ main' = "record" /\ began' = now
    /\ worker' = [w \in Workers |-> Idle]
    /\ UNCHANGED <<serverVars, level, now, samples, results>>

Errors(r) == r.requests - r.ok

\* Faulty Broken: only errors count, and no samples means no errors.
BrokenByErrors(r) == 5 * Errors(r) > r.requests

\* `collapsed`, or more than a fifth of the requests failed.
Broken(r) == r.ok = 0 \/ 5 * Errors(r) > r.requests

\* The second gather returns; the level is summarised and the ramp goes on, or
\* stops, and the results are written.
LevelOver ==
    /\ main = "record" /\ AllOut
    /\ results' = Append(results, samples)
    /\ samples' = NoSamples
    /\ now' = 0 /\ began' = 0
    /\ worker' = [w \in Workers |-> Idle]
    /\ IF Broken(samples) \/ level = Len(Levels)
         THEN main' = "written" /\ UNCHANGED level
         ELSE main' = "warm" /\ level' = level + 1
    /\ UNCHANGED serverVars
-----------------------------------------------------------------------------
(* The other caller, who sends any rate, and answers that nobody waits for. *)

Stranger ==
    /\ \E s \in Slots, r \in Rates :
         /\ s = Max(Slots)
         /\ Accept(s, r, nobody)
    /\ UNCHANGED loadVars

Unheard ==
    /\ \E s \in Slots : job[s].by = nobody /\ Deliver(s)
    /\ UNCHANGED loadVars

Server ==
    /\ Startup \/ Stop \/ \E s \in Slots : Serve(s)
    /\ UNCHANGED loadVars

Step(w) == Ask(w) \/ Hear(w) \/ GiveUp(w) \/ Refused(w)

LoadNext ==
    \/ Health \/ Tick \/ WarmedUp \/ LevelOver
    \/ \E w \in Workers : Step(w) \/ Arrive(w)
    \/ Server \/ Stranger \/ Unheard

LoadSpec == LoadInit /\ [][LoadNext]_baselineVars

\* Time passes and the load test's coroutines are scheduled.  Nothing is assumed
\* of the server.
FairLoad ==
    /\ LoadSpec
    /\ WF_baselineVars(Health \/ Tick \/ WarmedUp \/ LevelOver)
    /\ \A w \in Workers : WF_baselineVars(Step(w))
-----------------------------------------------------------------------------
(* Properties. *)

\* Every variable stays in its type, and every recorded request was asked when no
\* request of the warm-up was open any more, in a window that begins at least
\* WarmUp after its level and ends with it: "we do not measure the ramp"
\* (loadtest.py:94).  The window is that much shorter than the Duration by which
\* the throughput is divided.
SamplesFitTheWindow ==
    /\ ServerTypeOK
    /\ main \in {"health", "raised", "warm", "record", "written"}
    /\ worker \in [Workers -> [pc : {"loop", "asked", "out"}, born : Nat,
                               slot : Slots \cup {0}]]
    /\ samples.ok \in 0..samples.requests
    /\ main = "record" =>
         /\ began >= WarmUp
         /\ \A w \in Active : worker[w].pc = "asked" =>
              began <= worker[w].born /\ worker[w].born < Duration
         /\ samples.requests <= Levels[level] * (now - began)

\* The ramp never climbs past a level that is clearly broken, one in which no
\* request was recorded at all included.
RampStops ==
    \A i \in 1..Len(results) - 1 :
      results[i].ok > 0 /\ 5 * Errors(results[i]) <= results[i].requests

\* The load test ends, and has written its results if the server was there at
\* its start, even if the server hangs in the middle of a level.
RampEnds == <>(main \in {"raised", "written"})
=============================================================================
