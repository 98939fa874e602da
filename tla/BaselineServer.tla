---------------------------- MODULE BaselineServer ----------------------------
(***************************************************************************)
(* The server that the rest of the system is compared with                 *)
(* (baseline/server.py): one model, one request per forward pass, a whole  *)
(* WAV as the answer.                                                      *)
(*                                                                         *)
(* The handlers share _state["model"], and each writes its own request's   *)
(* speaking rate into it before it calls the model, which reads it during  *)
(* the call.  In mode "async_blocking" a handler runs on the event loop    *)
(* and never awaits, so nothing else runs until it returns; in mode        *)
(* "threadpool" handlers run in as many threads as the framework has, and  *)
(* the write of one may fall between the write and the read of another.    *)
(*                                                                         *)
(* A request is a slot of the table job.  Audio and timings are left out.  *)
(***************************************************************************)
EXTENDS Integers, FiniteSets

CONSTANTS
    Slots,      \* numbers of requests the server can hold at once
    Threads,    \* external: size of the framework's thread pool
    Rates,      \* speaking rates that callers send
    Valid,      \* those of them that SynthRequest accepts
    Default     \* SynthRequest.speaking_rate when the caller sends none

ASSUME RatesAssumption == Valid \subseteq Rates /\ Default \in Valid
ASSUME SlotsAssumption == IsFiniteSet(Slots) /\ Threads \in Nat

VARIABLES
    mode,        \* MODE
    up,          \* where lifespan is
    modelRate,   \* _state["model"].speaking_rate
    job          \* the requests the server holds

serverVars == <<mode, up, modelRate, job>>

Modes == {"async_blocking", "threadpool"}
Stages == {"free", "waiting", "begun", "set", "ran", "failed"}
nobody == 0

\* `crossed` is history: the rates that other handlers wrote into the model
\* since this one wrote its own.
Free == [stage |-> "free", rate |-> Default, used |-> Default, crossed |-> {}, by |-> nobody]

ServerInit ==
    /\ mode \in Modes
    /\ up = "loading"
    /\ modelRate = Default
    /\ job = [s \in Slots |-> Free]

In(stages) == {s \in Slots : job[s].stage \in stages}
Handlers == In({"begun", "set"})
Finished == In({"ran", "failed"})

\* A coroutine that does not await keeps the loop; threads run side by side.
Room == Cardinality(Handlers) < (IF mode = "async_blocking" THEN 1 ELSE Threads)
-----------------------------------------------------------------------------
(* The lifespan. *)

\* The model is loaded and warmed up, and only then is the port open.
Startup ==
    /\ up = "loading"
    /\ up' = "serving"
    /\ UNCHANGED <<mode, modelRate, job>>

\* The process ends and its connections with it.
Stop ==
    /\ up = "serving"
    /\ up' = "stopped"
    /\ job' = [s \in Slots |-> Free]
    /\ UNCHANGED <<mode, modelRate>>
-----------------------------------------------------------------------------
(* POST /synthesize. *)

\* A request arrives; a body that SynthRequest does not accept is answered 422.
Accept(s, r, client) ==
    /\ up = "serving"
    /\ job[s].stage = "free"
    /\ job' = [job EXCEPT ![s] =
                IF r \in Valid
                  THEN [Free EXCEPT !.stage = "waiting", !.rate = r, !.by = client]
                  ELSE [Free EXCEPT !.stage = "failed", !.by = client]]
    /\ UNCHANGED <<mode, up, modelRate>>

\* The loop or a thread takes the request up and tokenizes its text.
Begin(s) ==
    /\ job[s].stage = "waiting"
    /\ Room
    /\ job' = [job EXCEPT ![s].stage = "begun"]
    /\ UNCHANGED <<mode, up, modelRate>>

\* Faulty SetRate: the default rate is not worth writing.
SetRateUnlessDefault(s) ==
    /\ job[s].stage = "begun"
    /\ modelRate' = IF job[s].rate = Default THEN modelRate ELSE job[s].rate
    /\ job' = [job EXCEPT ![s].stage = "set"]
    /\ UNCHANGED <<mode, up>>

\* model.speaking_rate = speaking_rate
SetRate(s) ==
    /\ job[s].stage = "begun"
    /\ modelRate' = job[s].rate
    /\ job' = [t \in Slots |->
                 IF t = s THEN [job[s] EXCEPT !.stage = "set"]
                 ELSE IF job[t].stage = "set"
                        THEN [job[t] EXCEPT !.crossed = @ \cup {job[s].rate}]
                        ELSE job[t]]
    /\ UNCHANGED <<mode, up>>

\* model(**inputs), which takes its speaking rate from the model (external),
\* and the encoding of the WAV.
Forward(s) ==
    /\ job[s].stage = "set"
    /\ job' = [job EXCEPT ![s].stage = "ran", ![s].used = modelRate]
    /\ UNCHANGED <<mode, up, modelRate>>

\* The tokenizer or the model raises: 500.  The rate stays in the model.
Raise(s) ==
    /\ s \in Handlers
    /\ job' = [job EXCEPT ![s] = [Free EXCEPT !.stage = "failed", !.by = job[s].by]]
    /\ UNCHANGED <<mode, up, modelRate>>

\* The answer reaches its caller, or nobody: a handler is not cancelled when its
\* caller has gone.
Deliver(s) ==
    /\ s \in Finished
    /\ job' = [job EXCEPT ![s] = Free]
    /\ UNCHANGED <<mode, up, modelRate>>

\* The caller goes away.
Abandon(s) ==
    /\ job' = [job EXCEPT ![s].by = nobody]
    /\ UNCHANGED <<mode, up, modelRate>>

Serve(s) == Begin(s) \/ SetRate(s) \/ Forward(s) \/ Raise(s)
-----------------------------------------------------------------------------
(* Properties. *)

ServerTypeOK ==
    /\ mode \in Modes /\ up \in {"loading", "serving", "stopped"}
    /\ modelRate \in Valid
    /\ job \in [Slots -> [stage : Stages, rate : Rates, used : Valid,
                          crossed : SUBSET Valid, by : Nat]]

\* Speech is at the caller's own rate, or in threadpool mode at the rate of a
\* handler that ran at the same time: never at one that an earlier request left
\* in the shared model, whatever requests came, failed or were abandoned before.
RateOfTheMoment ==
    \A s \in In({"ran"}) :
      \/ job[s].used = job[s].rate
      \/ mode = "threadpool" /\ job[s].used \in job[s].crossed
=============================================================================
