---------------------------- MODULE BaselineProofs ----------------------------
(***************************************************************************)
(* Proofs, for any number of requests, threads and rates and any ramp, of  *)
(* what a request of the baseline's server speaks at.                      *)
(***************************************************************************)
EXTENDS BaselineLoad, FiniteSetTheorems, TLAPS

\* A caller's rate is one that SynthRequest accepted.
RatesValid == \A s \in Slots : job[s].rate \in Valid

\* Between its write and its forward pass, a handler's model has the rate that
\* it wrote, or one that was written since.
LastWritten ==
    \A s \in In({"set"}) : modelRate = job[s].rate \/ modelRate \in job[s].crossed

\* On the event loop a handler is alone, and nothing crosses it.
Alone ==
    mode = "async_blocking" =>
      /\ \A s, t \in Handlers : s = t
      /\ \A s \in Slots : job[s].crossed = {}

IInv == ServerTypeOK /\ RatesValid /\ RateOfTheMoment /\ LastWritten /\ Alone

USE RatesAssumption DEF Stages, Modes, nobody

LEMMA RoomMeansNobody ==
    ASSUME Room, mode = "async_blocking"
    PROVE  Handlers = {}
<1>1. IsFiniteSet(Handlers)
  BY SlotsAssumption, FS_Subset DEF Handlers, In
<1>2. Cardinality(Handlers) \in Nat /\ Cardinality(Handlers) < 1
  BY <1>1, FS_CardinalityType DEF Room
<1> QED BY <1>1, <1>2, FS_EmptySet

LEMMA FreeType ==
    ASSUME NEW c \in Nat
    PROVE  /\ [Free EXCEPT !.stage = "failed", !.by = c]
                \in [stage : Stages, rate : Valid, used : Valid, crossed : SUBSET Valid, by : Nat]
           /\ Free \in [stage : Stages, rate : Valid, used : Valid, crossed : SUBSET Valid, by : Nat]
BY DEF Free

LEMMA InitInv == ServerInit => IInv
<1> SUFFICES ASSUME ServerInit PROVE IInv
  OBVIOUS
<1>1. \A s \in Slots :
        job[s].stage = "free" /\ job[s].rate = Default /\ job[s].crossed = {}
  BY DEF ServerInit, Free
<1>2. ServerTypeOK
  BY FreeType, 0 \in Nat DEF ServerInit, ServerTypeOK
<1>3. In({"set"}) = {} /\ In({"ran"}) = {} /\ Handlers = {}
  BY <1>1 DEF In, Handlers
<1> QED BY <1>1, <1>2, <1>3 DEF IInv, RatesValid, RateOfTheMoment, LastWritten, Alone

\* A step that changes one request and neither the mode nor the model's rate.
LEMMA OneRequest ==
    ASSUME IInv, NEW s, NEW j \in [stage : Stages, rate : Valid, used : Valid,
                                   crossed : SUBSET Valid, by : Nat],
           job' = [job EXCEPT ![s] = j], UNCHANGED <<mode, up, modelRate>>,
           j.stage \notin {"set", "ran"},
           mode = "async_blocking" => /\ j.crossed = {}
                                      /\ j.stage = "begun" => Handlers = {}
    PROVE  IInv'
<1>1. ServerTypeOK'
  BY DEF IInv, ServerTypeOK
<1>2. \A t \in Slots : t # s => job'[t] = job[t]
  BY DEF IInv, ServerTypeOK
<1>3. s \in Slots => job'[s] = j
  BY DEF IInv, ServerTypeOK
<1>4. RatesValid'
  BY <1>2, <1>3 DEF IInv, RatesValid
<1>5. RateOfTheMoment'
  BY <1>2, <1>3 DEF IInv, RateOfTheMoment, In
<1>6. LastWritten'
  BY <1>2, <1>3 DEF IInv, LastWritten, In
<1>7. Alone'
  BY <1>2, <1>3 DEF IInv, Alone, In, Handlers
<1> QED BY <1>1, <1>4, <1>5, <1>6, <1>7 DEF IInv

LEMMA AcceptInv ==
    ASSUME IInv, NEW s, NEW q \in Rates, NEW c \in Nat, Accept(s, q, c)
    PROVE  IInv'
<1>1. CASE q \in Valid
  <2> DEFINE j == [Free EXCEPT !.stage = "waiting", !.rate = q, !.by = c]
  <2>1. /\ j \in [stage : Stages, rate : Valid, used : Valid, crossed : SUBSET Valid, by : Nat]
        /\ j.stage = "waiting" /\ j.crossed = {}
    BY <1>1 DEF Free
  <2>2. job' = [job EXCEPT ![s] = j] /\ UNCHANGED <<mode, up, modelRate>>
    BY <1>1 DEF Accept
  <2> HIDE DEF j
  <2> QED BY <2>1, <2>2, OneRequest
<1>2. CASE q \notin Valid
  <2> DEFINE j == [Free EXCEPT !.stage = "failed", !.by = c]
  <2>1. /\ j \in [stage : Stages, rate : Valid, used : Valid, crossed : SUBSET Valid, by : Nat]
        /\ j.stage = "failed" /\ j.crossed = {}
    BY DEF Free
  <2>2. job' = [job EXCEPT ![s] = j] /\ UNCHANGED <<mode, up, modelRate>>
    BY <1>2 DEF Accept
  <2> HIDE DEF j
  <2> QED BY <2>1, <2>2, OneRequest
<1> QED BY <1>1, <1>2

LEMMA BeginInv ==
    ASSUME IInv, NEW s \in Slots, Begin(s)
    PROVE  IInv'
<1> DEFINE j == [job[s] EXCEPT !.stage = "begun"]
<1>1. /\ j \in [stage : Stages, rate : Valid, used : Valid, crossed : SUBSET Valid, by : Nat]
      /\ j.stage = "begun" /\ j.crossed = job[s].crossed
  BY DEF IInv, ServerTypeOK, RatesValid
<1>2. job' = [job EXCEPT ![s] = j] /\ UNCHANGED <<mode, up, modelRate>>
  BY DEF Begin
<1>3. mode = "async_blocking" => Handlers = {} /\ job[s].crossed = {}
  BY RoomMeansNobody DEF Begin, IInv, Alone
<1> HIDE DEF j
<1> QED BY <1>1, <1>2, <1>3, OneRequest

LEMMA RaiseInv ==
    ASSUME IInv, NEW s \in Slots, Raise(s)
    PROVE  IInv'
<1> DEFINE j == [Free EXCEPT !.stage = "failed", !.by = job[s].by]
<1>1. /\ j \in [stage : Stages, rate : Valid, used : Valid, crossed : SUBSET Valid, by : Nat]
      /\ j.stage = "failed" /\ j.crossed = {}
  BY DEF Free, IInv, ServerTypeOK
<1>2. job' = [job EXCEPT ![s] = j] /\ UNCHANGED <<mode, up, modelRate>>
  BY DEF Raise
<1> HIDE DEF j
<1> QED BY <1>1, <1>2, OneRequest

LEMMA DeliverInv ==
    ASSUME IInv, NEW s, Deliver(s)
    PROVE  IInv'
<1>1. Free \in [stage : Stages, rate : Valid, used : Valid, crossed : SUBSET Valid, by : Nat]
      /\ Free.stage = "free" /\ Free.crossed = {}
  BY DEF Free
<1>2. job' = [job EXCEPT ![s] = Free] /\ UNCHANGED <<mode, up, modelRate>>
  BY DEF Deliver
<1> QED BY <1>1, <1>2, OneRequest

\* Where the rates of other handlers are written over this one's.
LEMMA SetRateInv ==
    ASSUME IInv, NEW s \in Slots, SetRate(s)
    PROVE  IInv'
<1>1. /\ job[s].stage = "begun" /\ modelRate' = job[s].rate /\ job[s].rate \in Valid
      /\ mode' = mode /\ up' = up
  BY DEF IInv, RatesValid, SetRate
<1>2. job'[s] = [job[s] EXCEPT !.stage = "set"]
  BY DEF SetRate
<1>3. \A t \in Slots : t # s =>
        job'[t] = IF job[t].stage = "set"
                    THEN [job[t] EXCEPT !.crossed = @ \cup {job[s].rate}] ELSE job[t]
  BY DEF SetRate
<1>4. \A t \in Slots :
        job'[t] \in [stage : Stages, rate : Rates, used : Valid, crossed : SUBSET Valid, by : Nat]
  <2> TAKE t \in Slots
  <2>1. job[t] \in [stage : Stages, rate : Rates, used : Valid, crossed : SUBSET Valid, by : Nat]
    BY DEF IInv, ServerTypeOK
  <2>2. job[t].crossed \cup {job[s].rate} \in SUBSET Valid
    BY <1>1, <2>1
  <2>3. CASE t = s
    BY <1>2, <2>1, <2>3
  <2>4. CASE t # s /\ job[t].stage # "set"
    BY <1>3, <2>1, <2>4
  <2>5. CASE t # s /\ job[t].stage = "set"
    <3>1. job'[t] = [job[t] EXCEPT !.crossed = job[t].crossed \cup {job[s].rate}]
      BY <1>3, <2>5
    <3> QED BY <2>1, <2>2, <3>1
  <2> QED BY <2>3, <2>4, <2>5
<1>5. ServerTypeOK'
  <2>1. job' = [t \in Slots |-> job'[t]]
    BY DEF SetRate
  <2> QED BY <1>1, <1>4, <2>1 DEF IInv, ServerTypeOK
<1>6. \A t \in Slots :
        /\ job'[t].rate = job[t].rate /\ job'[t].used = job[t].used
        /\ t # s => job'[t].stage = job[t].stage
        /\ t # s /\ job[t].stage # "set" => job'[t].crossed = job[t].crossed
        /\ t # s /\ job[t].stage = "set" => job[s].rate \in job'[t].crossed
  <2> TAKE t \in Slots
  <2>1. job[t] \in [stage : Stages, rate : Rates, used : Valid, crossed : SUBSET Valid, by : Nat]
    BY DEF IInv, ServerTypeOK
  <2>2. CASE t = s
    BY <1>2, <2>1, <2>2
  <2>3. CASE t # s
    BY <1>3, <2>1, <2>3
  <2> QED BY <2>2, <2>3
<1>7. job'[s].stage = "set" /\ job'[s].crossed = job[s].crossed
  BY <1>2 DEF IInv, ServerTypeOK
<1>8. RatesValid'
  BY <1>6 DEF IInv, RatesValid
<1>9. RateOfTheMoment'
  BY <1>1, <1>6, <1>7 DEF IInv, RateOfTheMoment, In
<1>10. LastWritten'
  BY <1>1, <1>6, <1>7 DEF LastWritten, In
<1>11. Alone'
  BY <1>1, <1>6, <1>7 DEF IInv, Alone, In, Handlers
<1> QED BY <1>5, <1>8, <1>9, <1>10, <1>11 DEF IInv

\* Where the model's rate is read.
LEMMA ForwardInv ==
    ASSUME IInv, NEW s \in Slots, Forward(s)
    PROVE  IInv'
<1> DEFINE Job == [stage : Stages, rate : Rates, used : Valid, crossed : SUBSET Valid, by : Nat]
<1>1. job[s].stage = "set" /\ job[s] \in Job /\ modelRate \in Valid
      /\ mode' = mode /\ up' = up /\ modelRate' = modelRate
  BY DEF IInv, ServerTypeOK, Forward
<1>2. job' = [job EXCEPT ![s] = [job[s] EXCEPT !.stage = "ran", !.used = modelRate]]
  BY DEF Forward
<1>3. [job[s] EXCEPT !.stage = "ran", !.used = modelRate] \in Job
  BY <1>1
<1>4. ServerTypeOK'
  BY <1>1, <1>2, <1>3 DEF IInv, ServerTypeOK
<1>5. \A t \in Slots : t # s => job'[t] = job[t]
  BY <1>2 DEF IInv, ServerTypeOK
<1>6. /\ job'[s].stage = "ran" /\ job'[s].used = modelRate
      /\ job'[s].rate = job[s].rate /\ job'[s].crossed = job[s].crossed
  BY <1>1, <1>2 DEF IInv, ServerTypeOK
<1>7. RatesValid'
  BY <1>5, <1>6 DEF IInv, RatesValid
<1>8. modelRate = job[s].rate \/ (mode = "threadpool" /\ modelRate \in job[s].crossed)
  <2>1. modelRate = job[s].rate \/ modelRate \in job[s].crossed
    BY <1>1 DEF IInv, LastWritten, In
  <2>2. mode = "async_blocking" => job[s].crossed = {}
    BY DEF IInv, Alone
  <2>3. mode = "async_blocking" \/ mode = "threadpool"
    BY DEF IInv, ServerTypeOK
  <2> QED BY <2>1, <2>2, <2>3
<1>9. RateOfTheMoment'
  BY <1>1, <1>5, <1>6, <1>8 DEF IInv, RateOfTheMoment, In
<1>10. LastWritten'
  BY <1>1, <1>5, <1>6 DEF IInv, LastWritten, In
<1>11. Alone'
  BY <1>1, <1>5, <1>6 DEF IInv, Alone, In, Handlers
<1> QED BY <1>4, <1>7, <1>9, <1>10, <1>11 DEF IInv

LEMMA AbandonInv ==
    ASSUME IInv, NEW s, Abandon(s)
    PROVE  IInv'
<1> DEFINE Job == [stage : Stages, rate : Rates, used : Valid, crossed : SUBSET Valid, by : Nat]
<1>1. mode' = mode /\ up' = up /\ modelRate' = modelRate
  BY DEF Abandon
<1>2. CASE s \notin Slots
  <2>1. job' = job
    BY <1>2 DEF Abandon, IInv, ServerTypeOK
  <2> QED BY <1>1, <2>1 DEF IInv, ServerTypeOK, RatesValid, RateOfTheMoment,
                            LastWritten, Alone, In, Handlers
<1>3. CASE s \in Slots
  <2>1. job[s] \in Job
    BY <1>3 DEF IInv, ServerTypeOK
  <2>2. job' = [job EXCEPT ![s] = [job[s] EXCEPT !.by = 0]]
    BY DEF Abandon
  <2>3. [job[s] EXCEPT !.by = 0] \in Job
    BY <2>1
  <2>4. ServerTypeOK'
    BY <1>1, <2>2, <2>3 DEF IInv, ServerTypeOK
  <2>5. \A t \in Slots :
          /\ job'[t].stage = job[t].stage /\ job'[t].rate = job[t].rate
          /\ job'[t].used = job[t].used /\ job'[t].crossed = job[t].crossed
    <3> TAKE t \in Slots
    <3>1. CASE t = s
      BY <1>3, <2>1, <2>2, <3>1 DEF IInv, ServerTypeOK
    <3>2. CASE t # s
      BY <2>2, <3>2 DEF IInv, ServerTypeOK
    <3> QED BY <3>1, <3>2
  <2> QED BY <1>1, <2>4, <2>5 DEF IInv, RatesValid, RateOfTheMoment, LastWritten,
                                  Alone, In, Handlers
<1> QED BY <1>2, <1>3

\* What moves neither a request nor the model's rate.
LEMMA LifespanInv ==
    ASSUME IInv, Startup \/ Stop
    PROVE  IInv'
<1>1. CASE Startup
  BY <1>1 DEF Startup, IInv, ServerTypeOK, RatesValid, RateOfTheMoment, LastWritten,
              Alone, In, Handlers
<1>2. CASE Stop
  <2>1. \A s \in Slots :
          job'[s].stage = "free" /\ job'[s].rate = Default /\ job'[s].crossed = {}
    BY <1>2 DEF Stop, Free
  <2>2. ServerTypeOK'
    BY <1>2, FreeType, 0 \in Nat DEF Stop, IInv, ServerTypeOK
  <2> QED BY <2>1, <2>2 DEF IInv, RatesValid, RateOfTheMoment, LastWritten,
                            Alone, In, Handlers
<1> QED BY <1>1, <1>2

LEMMA StepInv == IInv /\ [LoadNext]_baselineVars => IInv'
<1> SUFFICES ASSUME IInv, [LoadNext]_baselineVars PROVE IInv'
  OBVIOUS
<1>1. ASSUME UNCHANGED serverVars PROVE IInv'
  BY <1>1 DEF serverVars, IInv, ServerTypeOK, RatesValid, RateOfTheMoment, LastWritten,
              Alone, In, Handlers
<1>2. CASE Health \/ Tick \/ WarmedUp \/ LevelOver
  BY <1>1, <1>2 DEF Health, Tick, WarmedUp, LevelOver
<1>3. ASSUME NEW w \in Workers, Step(w) PROVE IInv'
  <2>1. CASE Ask(w) \/ Refused(w)
    BY <1>1, <2>1 DEF Ask, Refused
  <2>2. CASE Hear(w)
    BY <2>2, DeliverInv DEF Hear
  <2>3. CASE GiveUp(w)
    BY <1>1, <2>3, AbandonInv DEF GiveUp
  <2> QED BY <1>3, <2>1, <2>2, <2>3 DEF Step
<1>4. ASSUME NEW w \in Workers, Arrive(w) PROVE IInv'
  <2>1. w \in Nat
    BY DEF Workers
  <2> QED BY <1>4, <2>1, AcceptInv DEF Arrive
<1>5. CASE Server
  BY <1>5, LifespanInv, BeginInv, SetRateInv, ForwardInv, RaiseInv DEF Server, Serve
<1>6. CASE Stranger
  BY <1>6, 0 \in Nat, AcceptInv DEF Stranger
<1>7. CASE Unheard
  BY <1>7, DeliverInv DEF Unheard
<1>8. CASE UNCHANGED baselineVars
  BY <1>1, <1>8 DEF baselineVars
<1> QED BY <1>2, <1>3, <1>4, <1>5, <1>6, <1>7, <1>8 DEF LoadNext

\* The invariant holds in every run of the load test against the server.
THEOREM Inductive == LoadSpec => []IInv
<1>1. LoadInit => IInv
  BY InitInv DEF LoadInit
<1> QED BY <1>1, StepInv, PTL DEF LoadSpec

\* The shared model never speaks at a rate that an earlier request left in it
\* (_synthesize in baseline/server.py), for any number of requests and threads.
THEOREM RateIsOfTheMoment == LoadSpec => []RateOfTheMoment
<1>1. IInv => RateOfTheMoment
  BY DEF IInv
<1> QED BY <1>1, Inductive, PTL

\* The server's variables stay in their types.
THEOREM TypeCorrect == LoadSpec => []ServerTypeOK
<1>1. IInv => ServerTypeOK
  BY DEF IInv
<1> QED BY <1>1, Inductive, PTL
------------------------------------------------------------------------------
(* The ramp. *)

Summary == [requests : Nat, ok : Nat]

\* A level that is broken is the last: while the ramp goes on none is.
RampInv ==
    /\ samples \in Summary
    /\ results \in Seq(Summary)
    /\ \A i \in 1..Len(results) - 1 : ~Broken(results[i])
    /\ main # "written" => \A i \in 1..Len(results) : ~Broken(results[i])

LEMMA RampInit == LoadInit => RampInv
BY DEF LoadInit, RampInv, NoSamples, Summary

\* A level that is over is summarised behind the others.
LEMMA RampLevel == ASSUME RampInv, LevelOver PROVE RampInv'
<1>1. /\ main = "record" /\ samples \in Summary /\ results \in Seq(Summary)
      /\ results' = Append(results, samples)
      /\ \A i \in 1..Len(results) : ~Broken(results[i])
  BY DEF RampInv, LevelOver
<1>2. /\ results' \in Seq(Summary)
      /\ Len(results') = Len(results) + 1
      /\ \A i \in 1..Len(results) : results'[i] = results[i]
      /\ results'[Len(results) + 1] = samples
  BY <1>1
<1>3. Len(results) \in Nat
  BY <1>1
<1>4. \A i \in 1..Len(results') - 1 : ~Broken(results'[i])
  BY <1>1, <1>2, <1>3
<1>5. ASSUME main' # "written"
      PROVE  \A i \in 1..Len(results') : ~Broken(results'[i])
  <2>1. ~Broken(samples)
    BY <1>5 DEF LevelOver
  <2>2. \A i \in 1..Len(results') : i \in 1..Len(results) \/ i = Len(results) + 1
    BY <1>2, <1>3
  <2> QED BY <1>1, <1>2, <2>1, <2>2
<1>6. samples' \in Summary
  BY DEF LevelOver, NoSamples, Summary
<1> QED BY <1>2, <1>4, <1>5, <1>6 DEF RampInv

LEMMA RampOver ==
    ASSUME RampInv, NEW w, NEW ok, Over(w, ok)
    PROVE  RampInv'
<1>1. samples' \in Summary /\ UNCHANGED <<main, results>>
  BY DEF Over, RampInv, Summary
<1> QED BY <1>1 DEF RampInv

LEMMA RampStep == RampInv /\ [LoadNext]_baselineVars => RampInv'
<1> SUFFICES ASSUME RampInv, [LoadNext]_baselineVars PROVE RampInv'
  OBVIOUS
<1>1. ASSUME UNCHANGED <<samples, results>>, main' = main \/ main # "written"
      PROVE  RampInv'
  BY <1>1 DEF RampInv
<1>2. CASE Health
  BY <1>1, <1>2 DEF Health
<1>3. CASE Tick
  BY <1>1, <1>3 DEF Tick
<1>4. CASE WarmedUp
  BY <1>1, <1>4 DEF WarmedUp
<1>5. CASE LevelOver
  BY <1>5, RampLevel
<1>6. ASSUME NEW w \in Workers, Step(w) PROVE RampInv'
  <2>1. CASE Ask(w)
    BY <1>1, <2>1 DEF Ask
  <2>2. CASE Hear(w)
    BY <2>2, RampOver DEF Hear
  <2>3. CASE GiveUp(w)
    BY <2>3, RampOver DEF GiveUp
  <2>4. CASE Refused(w)
    BY <2>4, RampOver DEF Refused
  <2> QED BY <1>6, <2>1, <2>2, <2>3, <2>4 DEF Step
<1>7. ASSUME NEW w \in Workers, Arrive(w) PROVE RampInv'
  BY <1>1, <1>7 DEF Arrive
<1>8. CASE Server \/ Stranger \/ Unheard \/ UNCHANGED baselineVars
  BY <1>1, <1>8 DEF Server, Stranger, Unheard, baselineVars, loadVars
<1> QED BY <1>2, <1>3, <1>4, <1>5, <1>6, <1>7, <1>8 DEF LoadNext

\* The ramp (main in baseline/loadtest.py) never climbs past a level in which no
\* request was served or more than a fifth failed, whatever the levels and
\* however the server fails (RampStops).
THEOREM NoClimb == LoadSpec => []RampStops
<1>1. RampInv => RampStops
  <2> SUFFICES ASSUME RampInv, NEW i \in 1..Len(results) - 1
               PROVE  results[i].ok > 0 /\ 5 * Errors(results[i]) <= results[i].requests
    BY DEF RampStops
  <2>1. results[i] \in Summary /\ ~Broken(results[i])
    BY DEF RampInv
  <2> QED BY <2>1 DEF Broken, Errors, Summary
<1> QED BY <1>1, RampInit, RampStep, PTL DEF LoadSpec
------------------------------------------------------------------------------
(* What is recorded. *)

Asking == [pc : {"loop", "asked", "out"}, born : Nat, slot : Slots \cup {0}]

\* Up to when a worker's time since the recording began is accounted for.
Reached(w) == IF worker[w].pc = "asked" THEN worker[w].born ELSE now

\* The ticks, of every worker, that requests may have been recorded for: each
\* took one at least.
Spent == {p \in Active \X Nat : began <= p[2] /\ p[2] < Reached(p[1])}

WorkersOK ==
    /\ worker \in [Workers -> Asking]
    /\ \A w \in Workers :
         worker[w].pc # "loop" => w \in Active /\ main \in {"warm", "record"}
    /\ \A w \in Workers :
         worker[w].pc = "asked" =>
           /\ worker[w].born <= now
           /\ main = "record" => began <= worker[w].born /\ worker[w].born < Duration
    /\ main = "warm" => \A w \in Workers : worker[w].pc = "out" => WarmUp <= now

WindowInv ==
    /\ main \in {"health", "raised", "warm", "record", "written"}
    /\ level \in 1..Len(Levels) /\ now \in Nat /\ began \in Nat
    /\ WorkersOK
    /\ samples \in Summary /\ samples.ok <= samples.requests
    /\ main # "record" => samples = NoSamples
    /\ main = "record" =>
         /\ WarmUp <= began /\ began <= now
         /\ samples.requests <= Cardinality(Spent)

LEMMA Interval ==
    ASSUME NEW a \in Int, NEW b \in Int
    PROVE  /\ IsFiniteSet(a..b)
           /\ Cardinality(a..b) = IF a > b THEN 0 ELSE b - a + 1
BY FS_Interval

LEMMA ActiveWorkers ==
    ASSUME level \in 1..Len(Levels)
    PROVE  /\ Levels[level] \in Nat /\ 1 \in Active /\ Active \subseteq Workers
           /\ IsFiniteSet(Active) /\ Cardinality(Active) = Levels[level]
<1>1. Levels[level] \in Nat \ {0} /\ Levels[level] \in ToSet(Levels)
  BY LevelsAssumption DEF ToSet
<1>2. Active = 1..Levels[level]
  BY DEF Active
<1>3. 1 \in Active /\ Active \subseteq Workers
  BY <1>1, <1>2 DEF Workers
<1>4. IsFiniteSet(1..Levels[level]) /\ Cardinality(1..Levels[level]) = Levels[level]
  <2>1. ASSUME NEW n \in Nat \ {0}
        PROVE  IsFiniteSet(1..n) /\ Cardinality(1..n) = n
    BY Interval
  <2> QED BY <1>1, <2>1
<1> QED BY <1>1, <1>2, <1>3, <1>4

\* All the ticks there were.
LEMMA Ticks ==
    ASSUME NEW A, IsFiniteSet(A), NEW b \in Nat, NEW n \in Nat, b <= n,
           NEW S, S \subseteq A \X (b..(n - 1))
    PROVE  /\ IsFiniteSet(S) /\ Cardinality(S) \in Nat
           /\ Cardinality(S) <= Cardinality(A) * (n - b)
<1> DEFINE T == b..(n - 1)
<1>1. IsFiniteSet(T) /\ Cardinality(T) = n - b
  <2>1. n - 1 \in Int /\ b \in Int
    OBVIOUS
  <2>2. IsFiniteSet(T) /\ Cardinality(T) = IF b > n - 1 THEN 0 ELSE (n - 1) - b + 1
    BY <2>1, Interval
  <2> QED BY <2>2
<1> HIDE DEF T
<1>2. IsFiniteSet(A \X T) /\ Cardinality(A \X T) = Cardinality(A) * Cardinality(T)
  BY <1>1, FS_Product
<1>3. S \in SUBSET (A \X T)
  BY DEF T
<1> QED BY <1>1, <1>2, <1>3, FS_Subset, FS_CardinalityType

LEMMA SpentBound ==
    ASSUME level \in 1..Len(Levels), now \in Nat, began \in Nat, began <= now,
           WorkersOK
    PROVE  /\ IsFiniteSet(Spent) /\ Cardinality(Spent) \in Nat
           /\ Cardinality(Spent) <= Levels[level] * (now - began)
<1>1. ASSUME NEW p \in Spent PROVE p \in Active \X (began..(now - 1))
  <2>1. p \in Active \X Nat /\ began <= p[2] /\ p[2] < Reached(p[1]) /\ p[1] \in Workers
    BY <1>1, ActiveWorkers DEF Spent
  <2>2. Reached(p[1]) <= now /\ Reached(p[1]) \in Nat
    BY <2>1 DEF Reached, WorkersOK, Asking
  <2>3. p[2] \in began..(now - 1)
    BY <2>1, <2>2
  <2> QED BY <2>1, <2>3
<1>2. Spent \subseteq Active \X (began..(now - 1))
  BY <1>1
<1> QED BY <1>2, ActiveWorkers, Ticks

LEMMA InitWindow == LoadInit => WindowInv
<1> SUFFICES ASSUME LoadInit PROVE WindowInv
  OBVIOUS
<1>1. Len(Levels) \in Nat \ {0}
  BY LevelsAssumption
<1>2. WorkersOK
  BY DEF LoadInit, WorkersOK, Idle, Asking
<1> QED BY <1>1, <1>2 DEF LoadInit, WindowInv, NoSamples, Summary

\* A request that is over took a tick of its worker's that was not spent before.
LEMMA OverWindow ==
    ASSUME WindowInv, NEW w \in Workers, NEW ok \in BOOLEAN, Over(w, ok),
           worker[w].pc = "asked", worker[w].born < now
    PROVE  WindowInv'
<1>1. /\ UNCHANGED <<main, level, now, began>>
      /\ worker' = [worker EXCEPT ![w] = Idle]
      /\ w \in Active
  BY DEF Over, WindowInv, WorkersOK
<1>2. worker'[w] = Idle /\ \A v \in Workers : v # w => worker'[v] = worker[v]
  BY <1>1 DEF WindowInv, WorkersOK
<1>3. WorkersOK'
  <2>1. worker' \in [Workers -> Asking]
    BY <1>1 DEF WindowInv, WorkersOK, Idle, Asking
  <2>2. worker'[w].pc = "loop"
    BY <1>2 DEF Idle
  <2> QED BY <1>1, <1>2, <2>1, <2>2 DEF WindowInv, WorkersOK, Active
<1>4. samples' \in Summary /\ samples'.ok <= samples'.requests
      /\ (main # "record" => samples' = NoSamples)
      /\ (main = "record" => samples'.requests = samples.requests + 1)
  BY DEF Over, WindowInv, Summary
<1>5. ASSUME main = "record"
      PROVE  samples'.requests <= Cardinality(Spent')
  <2> DEFINE p == <<w, worker[w].born>>
  <2>1. began <= worker[w].born /\ worker[w].born \in Nat /\ began \in Nat /\ now \in Nat
    BY <1>5 DEF WindowInv, WorkersOK, Asking
  <2>2. p \notin Spent
    BY <2>1 DEF Spent, Reached
  <2>3. \A v \in Active : Reached(v)' = IF v = w THEN now ELSE Reached(v)
    <3>1. Active \subseteq Workers
      BY ActiveWorkers DEF WindowInv
    <3> QED BY <1>1, <1>2, <3>1 DEF Reached, Idle
  <2>4. Active' = Active
    BY <1>1 DEF Active
  <2>5. Spent \cup {p} \in SUBSET (Spent')
    <3>1. Reached(w) = worker[w].born
      BY DEF Reached
    <3>2. \A q \in Spent : q \in Active \X Nat /\ began <= q[2] /\ q[2] < Reached(q[1])
      BY DEF Spent
    <3>3. \A q \in Spent : q[2] < Reached(q[1])'
      BY <2>1, <2>3, <3>1, <3>2
    <3>4. \A q \in Spent : q \in Spent'
      BY <1>1, <2>4, <3>2, <3>3 DEF Spent
    <3>5. p \in Spent'
      BY <1>1, <2>1, <2>3, <2>4 DEF Spent
    <3> QED BY <3>4, <3>5
  <2> HIDE DEF p
  <2>6. IsFiniteSet(Spent) /\ Cardinality(Spent) \in Nat
    BY <1>5, SpentBound DEF WindowInv
  <2>7. Cardinality(Spent \cup {p}) = Cardinality(Spent) + 1
    BY <2>2, <2>6, FS_AddElement
  <2>8. IsFiniteSet(Spent') /\ Cardinality(Spent') \in Nat
    <3>1. ASSUME NEW q \in Spent' PROVE q \in Active \X (began..(now - 1))
      <4>1. q \in Active \X Nat /\ began <= q[2] /\ q[2] < Reached(q[1])'
        BY <1>1, <2>4, <3>1 DEF Spent
      <4>2. q[1] \in Workers
        BY <4>1, ActiveWorkers DEF WindowInv
      <4>3. Reached(q[1])' <= now /\ Reached(q[1])' \in Nat
        BY <1>1, <1>3, <2>1, <4>2 DEF Reached, WorkersOK, Asking
      <4>4. q[2] \in began..(now - 1)
        BY <2>1, <4>1, <4>3
      <4> QED BY <4>1, <4>4
    <3>2. Spent' \subseteq Active \X (began..(now - 1))
      BY <3>1
    <3>3. IsFiniteSet(Active) /\ began <= now
      BY <1>5, ActiveWorkers DEF WindowInv
    <3> QED BY <2>1, <3>2, <3>3, Ticks
  <2>9. Cardinality(Spent \cup {p}) <= Cardinality(Spent')
    BY <2>5, <2>8, FS_Subset
  <2> QED BY <1>4, <1>5, <2>6, <2>7, <2>8, <2>9 DEF WindowInv, Summary
<1> QED BY <1>1, <1>3, <1>4, <1>5 DEF WindowInv

\* A step that leaves alone up to when each worker is accounted for.
LEMMA SameSpent ==
    ASSUME WindowInv, UNCHANGED <<main, level, now, began, samples>>, WorkersOK',
           \A v \in Workers : Reached(v)' = Reached(v)
    PROVE  WindowInv'
<1>1. Active' = Active
  BY DEF Active
<1>2. Active \subseteq Workers
  BY ActiveWorkers DEF WindowInv
<1>3. Spent' = Spent
  BY <1>1, <1>2 DEF Spent
<1> QED BY <1>3 DEF WindowInv

LEMMA AskWindow ==
    ASSUME WindowInv, NEW w \in Workers, Ask(w)
    PROVE  WindowInv'
<1> DEFINE new == IF now < Until THEN [pc |-> "asked", born |-> now, slot |-> 0]
                                 ELSE [Idle EXCEPT !.pc = "out"]
<1>1. /\ UNCHANGED <<main, level, now, began, samples>>
      /\ worker' = [worker EXCEPT ![w] = new]
      /\ main \in {"warm", "record"} /\ w \in Active /\ worker[w].pc = "loop"
      /\ now \in Nat
  BY DEF Ask, WindowInv
<1>2. new \in Asking /\ (new.pc = "asked" => new.born = now /\ now < Until)
      /\ new.pc \in {"asked", "out"} /\ (new.pc = "out" => ~(now < Until))
  BY <1>1 DEF Asking, Idle
<1> HIDE DEF new
<1>3. worker'[w] = new /\ \A v \in Workers : v # w => worker'[v] = worker[v]
  BY <1>1 DEF WindowInv, WorkersOK
<1>4. Until \in Nat /\ (main = "warm" => Until = WarmUp)
      /\ (main = "record" => Until = Duration /\ began <= now)
  BY TimesAssumption DEF Until, WindowInv
<1>5. WorkersOK'
  <2>1. worker' \in [Workers -> Asking]
    BY <1>1, <1>2 DEF WindowInv, WorkersOK
  <2>2. \A v \in Workers : worker'[v].pc # "loop" => v \in Active /\ main \in {"warm", "record"}
    BY <1>1, <1>3 DEF WindowInv, WorkersOK
  <2>3. \A v \in Workers : worker'[v].pc = "asked" =>
           /\ worker'[v].born <= now
           /\ main = "record" => began <= worker'[v].born /\ worker'[v].born < Duration
    <3> SUFFICES ASSUME NEW v \in Workers, worker'[v].pc = "asked"
                 PROVE  /\ worker'[v].born <= now
                        /\ main = "record" => began <= worker'[v].born /\ worker'[v].born < Duration
      OBVIOUS
    <3>1. CASE v = w
      BY <1>1, <1>2, <1>3, <1>4, <3>1
    <3>2. CASE v # w
      BY <1>3, <3>2 DEF WindowInv, WorkersOK
    <3> QED BY <3>1, <3>2
  <2>4. main = "warm" => \A v \in Workers : worker'[v].pc = "out" => WarmUp <= now
    BY <1>1, <1>2, <1>3, <1>4, TimesAssumption DEF WindowInv, WorkersOK
  <2>5. Active' = Active
    BY <1>1 DEF Active
  <2> QED BY <1>1, <2>1, <2>2, <2>3, <2>4, <2>5 DEF WorkersOK
<1>6. \A v \in Workers : Reached(v)' = Reached(v)
  BY <1>1, <1>2, <1>3 DEF Reached
<1> QED BY <1>1, <1>5, <1>6, SameSpent

LEMMA ArriveWindow ==
    ASSUME WindowInv, NEW w \in Workers, Arrive(w)
    PROVE  WindowInv'
<1>1. FreeSlot \in Slots
  BY DEF Arrive, FreeSlot, In
<1>2. /\ UNCHANGED <<main, level, now, began, samples>>
      /\ worker' = [worker EXCEPT ![w].slot = FreeSlot]
  BY DEF Arrive
<1>3. \A v \in Workers : worker'[v].pc = worker[v].pc /\ worker'[v].born = worker[v].born
  BY <1>2 DEF WindowInv, WorkersOK, Asking
<1>4. worker' \in [Workers -> Asking]
  BY <1>1, <1>2 DEF WindowInv, WorkersOK, Asking
<1>5. Active' = Active
  BY <1>2 DEF Active
<1>6. WorkersOK'
  BY <1>2, <1>3, <1>4, <1>5 DEF WindowInv, WorkersOK
<1>7. \A v \in Workers : Reached(v)' = Reached(v)
  BY <1>2, <1>3 DEF Reached
<1> QED BY <1>2, <1>6, <1>7, SameSpent

LEMMA TickWindow ==
    ASSUME WindowInv, Tick
    PROVE  WindowInv'
<1>1. /\ UNCHANGED <<main, level, began, worker, samples>>
      /\ now' = now + 1 /\ now \in Nat /\ began \in Nat /\ Active' = Active
  BY DEF Tick, WindowInv, Active
<1>2. WorkersOK'
  <2>1. \A w \in Workers : worker[w].pc = "asked" => worker[w].born <= now + 1
    BY <1>1 DEF WindowInv, WorkersOK, Asking
  <2>2. main = "warm" => \A w \in Workers : worker[w].pc = "out" => WarmUp <= now + 1
    BY <1>1, TimesAssumption DEF WindowInv, WorkersOK
  <2> QED BY <1>1, <2>1, <2>2 DEF WindowInv, WorkersOK
<1>3. ASSUME main = "record"
      PROVE  samples.requests <= Cardinality(Spent')
  <2>1. began <= now /\ samples.requests \in Nat /\ samples.requests <= Cardinality(Spent)
    BY <1>3 DEF WindowInv, Summary
  <2>2. Active \subseteq Workers /\ IsFiniteSet(Active)
    BY ActiveWorkers DEF WindowInv
  <2>3. \A v \in Workers : /\ Reached(v) \in Nat /\ Reached(v)' \in Nat
                           /\ Reached(v) <= Reached(v)' /\ Reached(v)' <= now + 1
    BY <1>1 DEF Reached, WindowInv, WorkersOK, Asking
  <2>4. Spent \in SUBSET (Spent')
    <3> SUFFICES ASSUME NEW q \in Spent PROVE q \in Spent'
      OBVIOUS
    <3>1. q \in Active \X Nat /\ began <= q[2] /\ q[2] < Reached(q[1]) /\ q[1] \in Workers
      BY <2>2 DEF Spent
    <3>2. q[2] < Reached(q[1])'
      BY <2>3, <3>1
    <3> QED BY <1>1, <3>1, <3>2 DEF Spent
  <2>5. Spent' \subseteq Active \X (began..((now + 1) - 1))
    <3> SUFFICES ASSUME NEW q \in Spent' PROVE q \in Active \X (began..((now + 1) - 1))
      OBVIOUS
    <3>1. q \in Active \X Nat /\ began <= q[2] /\ q[2] < Reached(q[1])' /\ q[1] \in Workers
      BY <1>1, <2>2 DEF Spent
    <3>2. q[2] \in began..((now + 1) - 1)
      BY <1>1, <2>3, <3>1
    <3> QED BY <3>1, <3>2
  <2>6. IsFiniteSet(Spent') /\ Cardinality(Spent') \in Nat
    <3>1. now + 1 \in Nat /\ began <= now + 1
      BY <1>1, <2>1
    <3> QED BY <1>1, <2>2, <2>5, <3>1, Ticks
  <2>7. Cardinality(Spent) <= Cardinality(Spent') /\ IsFiniteSet(Spent)
    BY <2>4, <2>6, FS_Subset
  <2>8. Cardinality(Spent) \in Nat
    BY <2>7, FS_CardinalityType
  <2> QED BY <2>1, <2>6, <2>7, <2>8
<1> QED BY <1>1, <1>2, <1>3 DEF WindowInv

LEMMA PhaseWindow ==
    ASSUME WindowInv, Health \/ WarmedUp \/ LevelOver
    PROVE  WindowInv'
<1>1. CASE Health
  <2>1. \A w \in Workers : worker[w].pc = "loop"
    BY <1>1 DEF Health, WindowInv, WorkersOK
  <2>2. WorkersOK'
    BY <1>1, <2>1 DEF Health, WindowInv, WorkersOK
  <2> QED BY <1>1, <2>2 DEF Health, WindowInv
<1>2. CASE WarmedUp
  <2>1. /\ main = "warm" /\ main' = "record" /\ began' = now
        /\ worker' = [w \in Workers |-> Idle] /\ UNCHANGED <<level, now, samples>>
    BY <1>2 DEF WarmedUp
  <2>2. WarmUp <= now
    BY <1>2, ActiveWorkers DEF WarmedUp, AllOut, WindowInv, WorkersOK
  <2>3. WorkersOK'
    BY <2>1 DEF WorkersOK, Asking, Idle
  <2>4. Spent' = {}
    <3>1. Active' = Active /\ Active \subseteq Workers
      BY <2>1, ActiveWorkers DEF Active, WindowInv
    <3>2. \A v \in Workers : Reached(v)' = now
      BY <2>1 DEF Reached, Idle
    <3> QED BY <2>1, <3>1, <3>2 DEF Spent, WindowInv
  <2>5. samples' = NoSamples
    BY <2>1 DEF WindowInv
  <2>6. samples'.requests <= Cardinality(Spent')
    BY <2>4, <2>5, FS_EmptySet DEF NoSamples
  <2> QED BY <2>1, <2>2, <2>3, <2>5, <2>6 DEF WindowInv
<1>3. CASE LevelOver
  <2>1. /\ main' \in {"warm", "written"} /\ level' \in 1..Len(Levels)
        /\ samples' = NoSamples /\ now' = 0 /\ began' = 0
        /\ worker' = [w \in Workers |-> Idle]
    <3>1. Len(Levels) \in Nat
      BY LevelsAssumption
    <3> QED BY <1>3, <3>1 DEF LevelOver, WindowInv
  <2>2. WorkersOK'
    BY <2>1 DEF WorkersOK, Asking, Idle
  <2> QED BY <2>1, <2>2 DEF WindowInv, NoSamples, Summary
<1> QED BY <1>1, <1>2, <1>3

LEMMA NextWindow ==
    ASSUME WindowInv, [LoadNext]_baselineVars
    PROVE  WindowInv'
<1>1. CASE Health \/ WarmedUp \/ LevelOver
  BY <1>1, PhaseWindow
<1>2. CASE Tick
  BY <1>2, TickWindow
<1>3. ASSUME NEW w \in Workers, Step(w) PROVE WindowInv'
  <2>1. CASE Ask(w)
    BY <2>1, AskWindow
  <2>2. CASE Hear(w)
    <3>1. /\ (job[worker[w].slot].stage = "ran") \in BOOLEAN
          /\ Over(w, job[worker[w].slot].stage = "ran")
          /\ worker[w].pc = "asked" /\ worker[w].born < now
      BY <2>2 DEF Hear, WindowInv, WorkersOK, Asking
    <3> QED BY <3>1, OverWindow
  <2>3. CASE GiveUp(w)
    <3>1. worker[w].pc = "asked" /\ now - worker[w].born >= Timeout /\ Over(w, FALSE)
      BY <2>3 DEF GiveUp, Expired
    <3>2. worker[w].born < now
      BY <3>1, TimesAssumption DEF WindowInv, WorkersOK, Asking
    <3> QED BY <3>1, <3>2, OverWindow
  <2>4. CASE Refused(w)
    <3>1. worker[w].pc = "asked" /\ worker[w].born < now /\ Over(w, FALSE)
      BY <2>4 DEF Refused, WindowInv, WorkersOK, Asking
    <3> QED BY <3>1, OverWindow
  <2> QED BY <1>3, <2>1, <2>2, <2>3, <2>4 DEF Step
<1>4. ASSUME NEW w \in Workers, Arrive(w) PROVE WindowInv'
  BY <1>4, ArriveWindow
<1>5. CASE Server \/ Stranger \/ Unheard \/ UNCHANGED baselineVars
  <2>1. UNCHANGED loadVars
    BY <1>5 DEF Server, Stranger, Unheard, baselineVars
  <2>2. Active' = Active /\ Spent' = Spent /\ WorkersOK' = WorkersOK
    BY <2>1 DEF loadVars, Active, Spent, Reached, WorkersOK
  <2> QED BY <2>1, <2>2 DEF WindowInv, loadVars
<1> QED BY <1>1, <1>2, <1>3, <1>4, <1>5 DEF LoadNext

\* Whatever the levels, the times and the server's hangs and failures, a recorded
\* request was asked when no request of the warm-up was open any more, between
\* WarmUp and Duration, and there are at most as many as the level's workers had
\* ticks in that time (SamplesFitTheWindow; run_level in baseline/loadtest.py).
THEOREM WindowKept == LoadSpec => []SamplesFitTheWindow
<1>1. WindowInv /\ ServerTypeOK => SamplesFitTheWindow
  <2> SUFFICES ASSUME WindowInv, ServerTypeOK PROVE SamplesFitTheWindow
    OBVIOUS
  <2>1. samples.ok \in 0..samples.requests
    BY DEF WindowInv, Summary
  <2>2. ASSUME main = "record"
        PROVE  samples.requests <= Levels[level] * (now - began)
    <3>1. /\ Cardinality(Spent) \in Nat
          /\ Cardinality(Spent) <= Levels[level] * (now - began)
      BY <2>2, SpentBound DEF WindowInv
    <3>2. Levels[level] * (now - began) \in Int
      <4>1. Levels[level] \in Nat /\ now - began \in Int
        BY ActiveWorkers DEF WindowInv
      <4> QED BY <4>1
    <3> QED BY <2>2, <3>1, <3>2 DEF WindowInv, Summary
  <2>3. \A w \in Active : main = "record" /\ worker[w].pc = "asked" =>
            began <= worker[w].born /\ worker[w].born < Duration
    BY ActiveWorkers DEF WindowInv, WorkersOK
  <2>4. main = "record" => began >= WarmUp
    BY TimesAssumption DEF WindowInv
  <2> QED BY <2>1, <2>2, <2>3, <2>4 DEF SamplesFitTheWindow, WindowInv, WorkersOK, Asking
<1>2. LoadSpec => []ServerTypeOK
  BY TypeCorrect
<1>3. LoadSpec => []WindowInv
  BY InitWindow, NextWindow, PTL DEF LoadSpec
<1> QED BY <1>1, <1>2, <1>3, PTL

=============================================================================
