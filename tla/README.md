# A TLA+ model of streaming-tts-serving

These modules model the serving path of the repository: from the WebSocket that a
listener opens on the gateway, over admission, routing and the three model calls, to
the audio chunks that the C++ backend sends back one by one; the Python side of it, from
text to latents; the reference implementations that the serving path was written from; and
what stands around it, the baseline it is measured against and the tools that build its
engines. TLC checks the modules on small instances, TLAPS proves the main results for
every value of the constants.

Run everything from this directory: `tlc -config <run>.cfg <module>` for a run of
`PROJECT.json`, `tlapm <module>Proofs.tla` for the proofs. Paths below are relative to
the repository's root (`src/` in `PROJECT.json`); `main.go` is
`gateway/cmd/gateway/main.go`.

## 1. The system

| Part | Source | State it keeps | Operations |
|---|---|---|---|
| Admission controller | `gateway/internal/admission/admission.go` | two atomics `inFlight`, `queueDepth`; `trippedAt` under a mutex | `TryAdmit`, `Release`, `ObserveQueueDepth` |
| Queue-depth poller | `main.go:207-250` | `lastCount`, `lastNs`, `primed`, all its own | one tick every 500 ms |
| Endpoint pool | `gateway/internal/tritonclient/pool.go` | per endpoint three atomics: `inFlight`, `healthy`, `failures` | `Acquire`, `Lease.Release`, `Ready` |
| Gateway routes | `main.go:261-278`, `281-523` | per session: the connection; shared: `sessions`, the gauge `tts_sessions_in_flight` | `handleStream`, `synthesizeToSocket`, `handleBatch`, `handleHealth` |
| Triton client | `gateway/internal/tritonclient/client.go` | none between calls | `Frontend`, `Latents`, `StreamAudio` |
| Streaming backend | `backends/tts_stream/src/tts_stream.cc` | device and host buffers of fixed size, one per instance | `ReadConfig`, `Init`, `ProcessRequests` |
| Acoustic frontend | `model_repo/vits_frontend/1/model.py`, `streaming/trt_frontend.py` | the model and three engines, or none | `initialize`, `execute` (batched) |
| Text frontend | `model_repo/tts_frontend/1/model.py`, `streaming/text_norm.py` | the tokenizer | `execute` |
| Python client | `streaming/client.py` | one gRPC stream at a time | `stream` |
| Reference synthesizer | `streaming/chunked.py` | the model, whose decoder is swapped out for a while; `stats` | `stream`, `stream_from_latents`, `seam_positions` |
| Incremental synthesis | `streaming/incremental.py` | a text buffer, an LRU cache, counters | `push`, `flush` |
| Baseline | `baseline/server.py`, `baseline/loadtest.py` | one shared model; the workers and samples of a level | `/synthesize`, the ramp |
| Export tools | `export/fetch_model.py`, `export_onnx.py`, `export_frontend_onnx.py`, `build_trt.py`, `build_trt_frontend.py` | files: checkpoint, ONNX, plans | one `main` each |
| Load generator | `loadgen/cmd/loadgen/main.go` | counters of a level | `runLevel`, `oneSession` |
| Scripts, probes, containers, dashboards | `scripts/`, the rest of `export/`, `docker/`, `observability/` | pid files | start, stop |

How they interact:

- Each WebSocket is a goroutine of `handleStream`. It asks the **controller** for a
  slot and keeps it as long as the connection lasts; for each request on it, it leases
  one endpoint from the **pool**, makes the three calls of the **client** on it and
  gives the lease back with the outcome. Controller and pool are shared by all of
  them without a lock around more than one field.
- `handleBatch` takes a lease but no slot; it looks at the controller's `queueDepth`.
- The **poller** reads the counters of one Triton and stores a depth into the controller.
- `/healthz` reads the counters of controller and routes one after the other and calls `Ready` on the
  pool, which writes the same atomics as `Release`; all its probes share one deadline.
- **StreamAudio** reads what **ProcessRequests** sends on a decoupled stream, and
  hands every chunk to a callback that writes it to the WebSocket. An error of the
  callback comes back as an error of the stream.
- Triton hands waiting requests to the **acoustic frontend** in batches of its choice; the
  batch is padded to its longest row, run once, and taken apart again.
- `push` and `stream` of the reference code are **generators**: they stand still at a `yield`
  while their caller does something else with the object they belong to.
- The **handlers** of the baseline share one model and write each its speaking rate into it.
- The **export tools** know of each other only by the files they leave.

What is hard, and what makes each part correct:

- *Admission*: check and increment are separate steps. The slot count must be exact; the
  overshoot must be bounded; a trip must close the gate but for those already past it;
  and the gate must open again.
- *Poller*: counters outlive the gateway, restart under it, and are sometimes not there.
  A depth must be accounted for by time spent in Triton's queues.
- *Pool*: three atomics per endpoint, changed by requests and probes. Loads must count
  the leases; a choice made from torn reads must still be sound; health must follow the
  endpoint in both directions.
- *Routes*: four things are taken and given back one by one on a dozen return paths, while
  clients send ahead, hang up and read slowly and calls into Triton may hang. Nothing may leak; answers
  must be in order.
- *Backend*: any call may fail between any two others. Requests must be released once,
  streams must end once, buffers must fit for every accepted configuration, and the
  listener must not be told that truncated audio is complete, which a chunk whose send fails unnoticed
  puts in question.
- *Python backends*: an answer must not depend on what a request was batched with, and a
  call should end, with the whole utterance or with an exception, even if the stream goes quiet.
- *Reference synthesizer*: chunks decoded in windows and blended must be the single-pass decode,
  while other generators of the same object run, fail or are dropped.
- *Incremental synthesis*: where the text was cut into fragments must not be heard; every clause
  is spoken once and in order; the cache is bounded and never wrong.
- *Baseline*: a request must not speak at the rate of an earlier one; the load test must measure
  what it says, stop at a level that is broken, and end.
- *Export tools*: any of them may be killed, or find what a killed one left; a tool's report must
  still be true at its end, and a server must come up on whatever files there are.

The full list of hazards, each at its line and with the properties that cover it, is
`hazards` in `PROJECT.json`.

## 2. The modules

| Module | What it is |
|---|---|
| `AudioStream` | abstract: what a streaming path promises its caller |
| `Admission` | the controller and its callers |
| `QueuePoller` | EXTENDS `Admission`: the poller, Triton's counters, the batch route's effect on them |
| `TritonPool` | the pool, its workers and health probers |
| `Gateway` | EXTENDS `Admission`: both synthesis routes from `TryAdmit` to the last `defer`, their clients, and what `/healthz` reads of them |
| `TtsStream` | the backend and the receiving side; implements `AudioStream` |
| `TextNorm` | normalisation and clause splitting, as operators |
| `Incremental` | EXTENDS `TextNorm`: `push` and `flush` |
| `ChunkedSynthesis` | the reference synthesizer and its generators; implements `AudioStream` |
| `AcousticFrontend` | a fused batch, from padding to trimmed answers, as operators |
| `Pipeline` | EXTENDS `AcousticFrontend`: both Python backends and the callers of `TTSClient.stream`; implements `AudioStream` |
| `BaselineServer` | the baseline's lifespan and handlers |
| `BaselineLoad` | EXTENDS `BaselineServer`: the load test against it, and another caller |
| `EngineBuild` | the five export tools and the start of an acoustic frontend on their files |
| `MC*` | what TLC needs beside the `.cfg` files |
| `*Proofs` | theorems about the module they are named after |

### Admission

One action per atomic operation. `pc[c]` is where goroutine `c` is in `TryAdmit`:
`PassGate`/`RejectCooling` are the locked section (61-68), `CheckInFlight` the load on
line 70, `CheckQueue` the one on 74, `AddInFlight` line 79, `Trip` lines 89-94; `Release`
is one action because nothing lies between its `Add` and its `Store` that another step
could tell apart once `InFlightExact` holds (the `Store` is never reached). The clock is
the age of the last trip in ticks, capped at `Cooldown`, after which the code no longer
looks at it. `peakRacers` and `stragglers` are history, read by no guard.

### QueuePoller

A tick of the poller is one action: everything between the scrape and
`ObserveQueueDepth` is the goroutine's own. `PollFails` is a scrape that errors or
times out, `PollAnswered` one that is answered. Because the status is not looked at, an
error page reads as two zero counters (`NoCounters`). `Serve` and `RestartTriton`
are Triton's. The float arithmetic is reduced: `(dNs/dCount)/1e6 * (dCount/0.5)` is
`dNs / 5e5`, so one unit of depth is `UsPerSlot` units of queue time.

### TritonPool

Every `Load`, `Store` and `Add` on an endpoint is an action; `idx`, `best` and
`bestLoad` are the locals of `Acquire`. `Toggle` is the environment: an endpoint that
does not answer fails every request, one that answers may still fail one. `failures` is
counted up to `MaxFailures`, at least the eviction threshold: the code only compares it
with the threshold. `watch` is history: what was healthy, and how loaded, since a scan began.
`expired` is the context that the probes of one `Ready` share: `handleHealth` gives it 2 s, a probe alone
would wait 3 s, so it may be over at the end of any probe (an endpoint hangs, several are slow, the caller
of `/healthz` leaves), and from then on every probe of that run fails.

### Gateway

`phase[h]` is where a handler is. The deferred calls run one by one, and each is an
action (`Leave`, `UncountGauge`, `Return`, `ReleaseLease`), so a scrape can see the
counters between any two. The socket is its outcome: a write succeeds and is heard,
goes nowhere because the client hung up and TCP has not noticed, or fails, after which
every write fails. Two details of the code are kept because they matter: the write
deadline set for an utterance stays on the connection, so a later error reply may fail
because of it (`WriteIgnored`); and a failure of the client's socket is reported of the
endpoint (`Chunk`, `GiveUp`). `handleHealth` reads slots and sessions in two steps (`ReadSlots`,
`ReadSessions`) with steps of handlers in between; `scrape` is what it has read, and, as history, who was let in
since. What it shows is not a state of the system and may show more sessions than slots;
`ScrapeExplained` says by how many at most. `Overtaken`, which keeps that history, is a conjunct of every step
of the routes. Which endpoint `Acquire` picks is free here and
`TritonPool`'s matter; what `StreamAudio` delivers is `AudioStream`'s promise.

### AudioStream and TtsStream

`AudioStream` says what a caller may rely on: pieces of an utterance are delivered in
order, with no gap but pieces that were `lost` on the way, an utterance is complete only with its last frame,
and one that has ended is left alone. A path that loses nothing, as `ChunkedSynthesis`, thereby promises whole
utterances. It is implemented three times, and each implementation's `KeepsPromise` is an instance of
it: by `TtsStream` (what the gateway hears of the C++ backend), by `ChunkedSynthesis` (what a
generator yields) and by `Pipeline` (what a `StreamResult` holds). Several utterances may fail in one
step (`FailTogether`), as they do when the batch they are in fails.

`TtsStream` is `ProcessRequests`, one step per call that may fail or that the other side can see.
`NextSize`, `Lo`, `Hi`, `Window` and `MaxWindow` are the integer arithmetic of the
planner, of `DecodeWindow` and of `Init`; `chunk_growth`, a double, is a fraction whose product
is truncated as the cast truncates it. A chunk of audio is the pair of frames it is the
audio of. Requests that are malformed are those with `wellFormed` false or no frames. The
gateway's `StreamAudio` runs concurrently, one per request; its callback may fail, its
connection may break. The error that `TRITONBACKEND_ResponseSend` returns for a chunk is not looked at
(`tts_stream.cc:543`): `LoseChunk` is a send that fails, after which the loop goes on, and `lost` is the
history of the frames it was for.

### ChunkedSynthesis

A step is what runs between two `yield`s of one generator. `Decode` abstracts the decoder: each
sample knows where it belongs and whether it is exact, that is, whether the window held all it depends on
(`Receptive` frames either side); everything after it, from slicing to the blend with the previous tail, is the code's
indexing, so a wrong index is a sample in the wrong place. `CaptureLatents` swaps the stub in and
out around a forward pass that may raise. `stats` is replaced by the first step of a generator and
counted into by every later one, whichever object it finds there: `owner` and `mixed` are history and
say when the figures are one stream's. `Round` is Python's, half to even. Of the fade curves the model keeps
whether they add up to one (`AddUp`): the linear ones do, so two equal samples mixed are that sample; `cos` and
`sin` do at the ends of the crossfade only, and what they mix is up to 3 dB too loud (`Louder`), as NOTES.md,
section 2, found. `NoSeam` excepts the inside of equal-power crossfades and nothing else.

### TextNorm and Incremental

A text is a sequence of lexemes: words, runs of digits, marks, spaces. Each pass of `normalize`
is a rule that gives every position what it makes of the text from there on, `Rewrite` is `re.sub`. Word
boundaries, optional spaces, commas in numbers and the order of the passes are the code's; the tables
are cut to one or two entries of each sort, and spelling numbers out is the library's. Compared
with the Python on all 91 288 texts of up to four lexemes from a vocabulary that reaches every
rule, the operators differ on 21, in all of which two abbreviations are glued together
without a space; no fragment of the instances can be put together to one of these.

`Incremental` is the object: `Push` is `push` up to its first `yield`, `Resume` what runs when the
caller asks for more (only then is the clause that was yielded counted), `Drop` a caller that loses
interest. `_synth` is hit, miss, insertion and eviction in one step, as nothing is yielded in it, and it
may raise. `used`, `heard`, `text`, `severed` and `taken` are history. `text` is what was pushed, end to end, without the
spaces that `push` puts between fragments, and `severed` says whether there was a cut at which it had to
(`Touch`). What can be said of the fragments depends on it:

- wherever the text is cut, the clauses taken and the buffer are the text but for spaces: nothing is lost, doubled
  or moved (`EmittedInOrder`);
- cut at its spaces, the clauses are those of the whole text (`EmittedInOrder`), and they say what it says
  (`FragmentsDoNotMatter`);
- cut within a word or a number, the space shows: see "Met while modelling".

The second excepts a text with doubled spaces
(`Single`): the buffer is stripped when a clause is taken, so of two spaces that meet at the cut of a fragment one is
lost. That moves a clause boundary, and it can be heard: of `"It was a rather long way to go. 5 "` the first push keeps
`5`, which with `" km"` becomes `5 km` and is read as kilometers, while in the whole text two spaces stand between number and
unit, the pattern allows one (`\s?`, `text_norm.py:40`), and "km" stays. The Python does the same. The instances reach
doubled spaces, but none between a number and its unit.

### AcousticFrontend and Pipeline

A row of a batch is its tokens' durations and their mask. A latent frame is the token it is aligned
with and whether the flow saw anything but real frames and silence within `Reach`: that is what
padding could change. Caps, profiles, trimming at the last frame that is not silent, and the fallback
to PyTorch are the code's. `Pipeline` is the life of an utterance: `Call`, `TextFrontend`,
`AcousticFrontend(batch)` for any batch that Triton may form of the waiting ones, `StartStream`,
`Receive`, `Timeout`, `Leave`, `StopStream`. The streaming backend is external here: it sends the frames in
pieces, may lose one, and ends with the last piece or an error, or never. `stop_stream()` in the `finally` is called
without `cancel_requests`: the library joins its handler thread, which reads until the backend has answered. So a call that
has left its loop is `stopping` until then (`StopStream`), while the backend, which notices nothing, goes on.

### BaselineServer and BaselineLoad

In mode `async_blocking` a handler keeps the event loop from its beginning to its end; in mode
`threadpool` handlers interleave, and `SetRate` and `Forward` are two steps. `crossed` is
history: the rates written into the model while a handler stood between the two. `BaselineLoad` has
the worker coroutines, the timeout, the warm-up and the ramp. `now` is the time since the level
began; it passes only while every worker waits. `Stranger` is somebody else who uses the server, with
rates the load test never sends.

### EngineBuild

A tool is the list of its steps that touch a file or may raise (`Program`). A file is absent, partial
or whole; a tool that is killed or raises leaves what it has written, and starts of tools come in any
order. `Push` is the owner of the checkpoint on the hub; `fetch_model` takes any of its revisions
(`TTS_MODEL_REVISION`), the other tools the directory, or the hub's newest if there is none. `stale` is history:
the files made of another checkpoint than the one on disk, for all that is known. The acoustic frontend's `initialize` runs
concurrently with the tools: nothing in the repository keeps them apart.

## 3. What is checked

Every passing run is exhaustive for its bounds.

| Run | Bounds | Shows |
|---|---|---|
| `QueuePoller` | 3 goroutines, 1 slot, cooldown of 2 ticks, counters up to 2 requests and 3 units of queue time | `TypeOK`, `InFlightExact`, `OvershootBounded`, `ClosedExceptStragglers`, `NoPhantomDepth`, `ImplementsAdmission`, `CooldownEnds` |
| `TritonPool` | 2 endpoints, 2 workers, 1 prober, eviction after 1 failure | `TypeOK`, `LeasesCounted`, `ChoiceSound`, `Reinstated`, `DeadLeavesRotation` |
| `TtsStream` | 2 requests of 0 to 7 frames, chunks of 1, 2, 3, 3, ... frames, 1 frame of context, windows of at least 2 | `TypeOK`, `WindowFits`, `ContextComplete`, `ReleasedOnce`, `KeepsPromise`, `StreamsEnd` |
| `Gateway` | 1 client with 2 requests a connection and any number of connections, 1 batch, 1 endpoint, utterances of up to 2 chunks | `AnswersInOrder`, `NothingLeaks`, `ScrapeExplained`, `SlotComesBack` |
| `ChunkedSynthesis` | 2 generators, utterances of 0, 1, 2, 4 or 7 frames, 7 configurations | `NoSeam`, `Aligned`, `SeamsWhereTold`, `KeepsPromise` |
| `Incremental` | 7 fragments that cut amounts, decimals and abbreviations, at spaces and within, 3 pushes, 2 flushes, 2 generators, a cache of 2 | `FragmentsDoNotMatter`, `EmittedInOrder`, `CacheIsLRU` |
| `Pipeline` | 3 utterances of 2 callers, 3 texts (one empty, one over every cap), batches of up to 2, padding of 0 or 1, chunks that end after the first or the last frame | `BatchingDoesNotShow`, `KeepsPromise`, `CallsEnd` |
| `BaselineLoad` | levels of 1 and 2 workers, 3 ticks each, a warm-up of 1, a timeout of 4, 2 slots, 2 threads, 2 valid rates and an invalid one | `RateOfTheMoment`, `SamplesFitTheWindow`, `RampStops`, `RampEnds` |
| `EngineBuild` | 1 precision, 2 revisions, 5 starts of tools, 1 kill | `ReportsAreEarned`, `Pinned`, `NoHalfEngines`, `FallsBack` |

Why the bounds are enough. With one slot and three goroutines one can hold it while two race for it,
or all three race. With two endpoints one can be healthy and the other not, and `Acquire` can be
overtaken between them; with an eviction after one failure every failure is a verdict, and the streak is
the subject of `TritonPool_streak`, with three. Seven frames are a plan of four chunks that reaches
and stays at the maximum, and 0 to 2 frames are shorter than the minimum window; two requests ahead
are one being answered and one waiting. The seven configurations have no context, context below and
at what `NoSeam` needs, no crossfade, one that is cut to the context, sizes that round up, down and to
nothing, a maximum below the first size, and both fades with enough context and a crossfade that has an inside. Three pushes are a start, a middle and an end of a clause; a
cache of two evicts on the third clause. Two utterances in a batch and one outside it, of two
callers, are what a batch can mix up. Five starts are enough to fetch, export, build, fetch another revision and build or export again.
`Gateway` with two clients was checked before without its liveness; together with it the instance
takes too long. The theorems of section 4 do not depend on bounds.

The bounds that only the models have: `MaxFailures` (the code only compares the streak with the
threshold), `MaxUs`, `MaxCount` and `MaxWait` on Triton's counters (a run that reaches them
stops serving; `ClosedBriefly` leaves such runs out), `MaxRequests` and `MaxChunks` in `Gateway`,
`TotalFrames` in `TtsStream`, `Cuts` in `Pipeline` (where a chunk may end), `MaxPushes` and `MaxFlushes`, `Slots` in `BaselineServer`, `MaxVersion`,
`MaxRuns` and `MaxKills`. In `TtsStream`, `ChunkedSynthesis`, `Incremental`, `Pipeline`,
`BaselineLoad` and `EngineBuild` all that is asked for may have been done, and the system stops: their
configurations, and the one of `Incremental_abbrev`, do not check for deadlock. The others do.

Fairness. `CooldownEnds` needs the clock only (`TimedPoller`). `Reinstated` and `DeadLeavesRotation`
assume that a health handler that started is scheduled until it is done
(its context ends after 2 s), and state as their own premise that health is polled: nothing
in the repository polls `/healthz`, so without an outside poller an endpoint that was evicted
comes back only when a request is routed to it by the fallback. `Reinstated` has two more premises, and fails
without either: that from some time on no probe of an endpoint that answers is cut short (`Unhurried`), and that the endpoints
`Ready` asks earlier answer, as one that hangs uses up the context of those after it. `StreamsEnd` assumes the
backend's thread and the receivers run, no call's success; requests that end without a response
(`Silent`, a last chunk whose send failed among them) are excepted because there the code does leave the caller
waiting. `SlotComesBack` assumes that a handler that can go on does, which holds as a read ends after five minutes at
most and a write at its deadline. Of the calls into Triton (`Calls`) it assumes nothing: `Frontend`, `Latents` and
`StreamAudio` have no deadline (`client.go:157`, 233, 268), so that a handler may stay in one for good, and the property is
of clients whose handler does not.
`CallsEnd` assumes that the Python backends answer what they are given, right or wrong (the two unary
calls have no timeout), that callers and the library's handler thread run and that `get(timeout=60)` fires; the
streaming backend may go quiet at any point, and where it never answers a request the property says that the call, and those
after it of the same caller, hang in `stop_stream`. `RampEnds` assumes that time passes and the load test's coroutines are scheduled, and nothing of
the server, which may hang or stop. `FallsBack` assumes that an instance that has begun to start goes
on on a device that works (moving the model, `model.py:67-68`, is outside the `try`), and nothing of the tools. `ChunkedSynthesis` and `Incremental` have no liveness: a generator does
nothing unless it is asked.

Each property has a mutant in `PROJECT.json`: a plausible slip in the code, kept beside
the definition it changes and named `Faulty ...`, under which TLC finds the property violated.

### Where the code and its comments disagree

Three runs check what a comment or document says, and TLC finds that the code does not do it.

- `QueuePoller_latch`. The poller stores a depth only when requests were served since the last
  scrape (`main.go:244`). Once the depth is over the threshold and the sessions have left,
  every call is turned away, nothing is served, and the depth stays: the gateway is closed
  until it is restarted, not "briefly" (`admission.go:28`).
- `TritonPool_streak`. Between the third failure's `Add` and its `Store(false)`
  (`pool.go:89-90`) a success can clear streak and health; the endpoint is then out of
  rotation with no failure on record.
- `Incremental_abbrev`. "Expanded before anything else touches the '.', so the period does not read as
  a sentence boundary" (`text_norm.py:15`), but `push` splits the text before it is normalised:
  the period of "Dr." ends a clause that is long enough.

Four more statements are kept in the modules and do not hold; no run checks them.

- `EveryShapeWarmed` (`TtsStream`). With the deployed configuration (12, growing twofold to 50, overlap
  13) `Init` warms 38, 50, 74 and 76 frames; the first chunk, the one that sets time to first audio,
  has no left context and runs on 25.
- `CompleteIsWhole` (`TtsStream`). "Index and finality travel with the chunk so the gateway can order and terminate the
  stream" (`tts_stream.cc:511`), but `StreamAudio` looks at the finality only: when the send of a chunk in mid-stream fails,
  the utterance is complete all the same, with a gap.
- `BatchYieldsToLive` (`Gateway`). The batch route starts while the live route is at its ceiling
  (`main.go:460` looks at the queue depth only).
- `EvictionDeserved` (`Gateway`). Three clients that hang up in mid-stream take an endpoint out of rotation.

Met while modelling:

- *Gateway.* `MaxInFlight` is called a hard ceiling (`admission.go:22`) but can be passed by racers, by as
  many as `OvershootBounded` says; an error page from Triton's metrics port makes the next scrape a
  phantom depth (`main.go:221`, the exception in `NoPhantomDepth`); after a missed scrape the rate is still taken over half a
  second (`main.go:246`); a single failed probe evicts an endpoint (`pool.go:151`), and one endpoint that hangs
  evicts all that are probed after it, because the probes share 2 s (`main.go:262`, `pool.go:142`); no call
  into Triton has a deadline and the context of a hijacked connection is not cancelled when its client goes, so a call
  that never returns keeps its slot for good; `/healthz` may show more sessions than slots; the gauge
  called "Sessions currently synthesizing" (`metrics.go:61`) counts idle connections.
- *Text.* "$1.2M" is read "one dollar and twenty centsM", because the currency rule does not look at what follows
  the amount; "9:00-10:00" loses its "to", because the range rule runs when the digits are already words; "In 1985, we" loses the comma to
  the number rule; "vs." before a space keeps its period; "1,247 km" is read as a year; the docstring of
  `_split_alphanumeric` speaks of a word boundary that the number rule no longer has.
- *Fragments.* `push` puts a space between fragments that neither end nor begin with one (`incremental.py:75`), so a cut
  within a word or a number is heard: "3." and "14" are two numbers, "wor" and "ld" two words. A caller that does not run a
  generator to its end loses the clauses it did not ask for, and sees an index twice.
- *Pipeline.* `_batched` takes each request for one row, so a request that has several is answered with the wrong
  ones; a text of more than some 511 characters is outside the engines' profile of 1024 tokens and fails every
  request of its batch, although `max_chars` is 2000; texts and frames over their caps are cut without a word; very short texts are outside the
  profile when they come from `TTSClient`, which does not pad as the gateway does; the timeout of 60 s
  (`client.py:99`) does not bound the call, because `stop_stream` then waits for the backend without end; `CHUNK_INDEX` is
  asked for and not looked at, so a chunk that was lost is not missed.
- *Baseline.* `stop_at` is computed before the warm-up (`loadtest.py:78`), so the window recorded is shorter than
  the `duration_s` by which throughput is divided; a warm-up that outlasts the level leaves no samples,
  which counts as collapsed; in mode `threadpool` a request may speak at the rate of one that runs at the
  same time (`RateOfTheMoment` says when); a request whose caller timed out runs to its end.
- *Export tools.* A plan that was cut short is never built again ("exists, skipping"); `build_trt` tries the
  decoder's plans only, so half an encoder plan goes unnoticed until the frontend, finding it, falls
  back to PyTorch; a plan whose noise was folded is on disk when `build_trt_frontend` raises, and is
  served; the revision is the branch "main" by default, so a second fetch followed by a build that skips
  leaves engines of mixed versions beside the checkpoint, which the frontend loads: `Pinned` says which files these can be;
  an export without a fetch takes the hub's newest, whatever `TTS_MODEL_REVISION` says (`export_onnx.py:22`); `resolve` takes a directory that
  `fetch_model` has made and not filled.

## 4. What is proved

No theorem uses anything but the named ASSUMEs of its module, which TLC evaluates in the runs.

- `GatewayProofs`, on the controller, the poller and the routes around it.
  *Controller*: `IInv` adds `RacersBounded`: sessions admitted plus goroutines between check
  and `Add` stay below `MaxInFlight + peakRacers`. It is needed because `OvershootBounded` alone does
  not survive an `AddInFlight`: several racers add one after the other. From it: `TypeCorrect`,
  `SlotsExact`, `Overshoot`, `ClosedAfterTrip`, for any set of clients and any limits.
  *Poller*: `Implements`: every step of poller, Triton and sessions is a
  step of `Admission` or leaves it alone, so its theorems carry over
  (`PollerSlotsExact`). `NoPhantom` rests on `Accounted`: what Triton's counter is ahead of the
  last answered scrape is at most the queue time spent since, unless that scrape was misled.
  `PollerTypeCorrect` is the types of the rest.
  *Routes*: every step of handlers and clients is a step of `Admission` under the
  mapping from handlers to sessions, so its `IInv` holds here too. `Accounts` says, place by place of a
  handler's path, what it holds of slot, gauge, session count and lease, and that each counter is the
  number of handlers at the places that hold it. That gives `GivenBack` for any number of
  handlers. `ScrapeTells` is `ScrapeExplained`: it needs `ScrapeInv`, by which the slots
  held now, but for those taken since the first read, are no more than that read showed; `GatewayTypeCorrect` is the types. `Dialogue` relates the place of a handler to what its client has
  sent and heard: how many answers are out, how much audio belongs to none yet, and that a connection on
  which a write has failed carries no more requests. It gives `AnswersKeepOrder`.
- `TritonPoolProofs`. `LeasesExact` counts, per endpoint, the workers holding it.
  `RoutingSound` needs `ScanInv`, an invariant of the scan: for each endpoint already passed that stayed
  healthy throughout, there is a best so far, whose load was read no higher than that endpoint's peak.
- `TtsStreamProofs`. `PlanOK` says that the chunks planned so far tile the frames up to
  `a`; with the sizes between 1 and `Max` it gives `WindowsFit` and `FullContext`
  for every configuration that `ReadConfig` accepts and every length. `Refinement`
  follows from `StreamOK`, a relation between what was sent, what is on the wire and what was
  played: they follow each other in the order of the plan, what is missing between two pieces is `lost`, and `complete`
  comes only with the last piece.
- `ChunkedSynthesisProofs`. `Refinement` of `AudioStream` by every generator follows from `PlanOK`: a
  plan stands within its frames, and one that has not begun has yielded nothing. `Seamless` needs `SampleOK`:
  the samples yielded, and the tail kept for the crossfade, are those of the single-pass decode, because the
  window they were cut from has the context in full on both sides or ends where the utterance does; the inside of
  equal-power crossfades (`Faded`) is excepted.
  `SeamsAreWhereTold` needs `WalkOK`: the chunks of a generator are, one by one, the steps of the walk over its
  utterance that `seam_positions` takes. `AudioIsAligned` needs `Counted`: the plan, the samples and the walk, `SizesOK`
  (no chunk is larger than the maximum), and `StatsOK` (as long as no other generator has counted into them, the figures
  in `stats` are those of the chunks and samples of the one they belong to, and less was wasted than decoded).
- `IncrementalProofs`. `IndInv` has four parts: `Types`; `Counts`, by which every clause counted and every
  generator at a `yield` stands for a clause heard; `Orderly`, which says what of the clauses taken has been
  heard and what is still to come while generators run one at a time; and `Recent`, by which each entry of the cache
  is a use after which only the keys behind it were used. They give `CacheHoldsTheMostRecent` and the order in
  `ClausesComeInOrder`. That nothing of the text is lost, wherever it is cut, is `ConservedInvariant`: splitting a text
  and putting a space into it change its spaces only. That the clauses of a text cut at its spaces are those of the whole text needs `Placed`: the buffer begins at a
  position of the text from which everything, whatever is still to come, is cut as if nothing stood before it.
  The lemmas under it say what one more lexeme does to the pieces, the sentences and the glued clauses of
  a text (`PiecesGrow`, `LastPieceGrows`, `SplitCut`), and `EveryTextIsCut` that the last clause always begins at such
  a position. `NoDigitsAreHeard` is the conjunct `NoDigitsHeard` of `FragmentsDoNotMatter`. It rests on
  `NormalizeLeavesNoDigits`, a lemma for every text: a rule that at no position takes more than there is, and puts only
  words, marks, numbers and digits in place of it, makes a text of a text (`Pass`); each of the passes is one, and what
  the number pass puts in has no digits, at every position where there were some.
  `FragmentsAreNotHeard` is the whole of `FragmentsDoNotMatter`. A text cut at its spaces, none doubled, is, up to its last clause, one that
  ends a sentence, a space, and the last clause (`CutSides`); `ClausesSayTheText` goes by induction on its length. The step
  is `NormalizeApart`: two texts with a space between, the first of which ends as a sentence does (`Sides`), are
  normalized as each is alone. Each pass keeps that shape: a rule sees of what is beyond a space, or
  beyond the end of the text, only that it is neither digit, word nor mark (`SameTests`), takes nothing across the end of
  the first (`LastEdit`), and makes the same of a text wherever that text stands between spaces (`Window`, and
  a lemma `...Local` for each rule). One pass does reach across: a symbol at the beginning of the second takes the space
  before it, but what it is replaced with begins with one (`Shares`). `SpokenApart`, `SpokenTidy` and
  `SpokenStrip` say that of spaces nothing is heard.
- `PipelineProofs`. `Inv` follows a call through the three models: `Turns` (the utterances of one caller do
  not overlap), `TokensOK` and `LatentsOK` (what is on its way is what the text alone gives, whatever it was
  batched with), `StreamsHeld` (a client whose stream is open is in it) and `StreamOK` (what was
  played and what is on the wire follow each other, with no gap but what was lost, up to an error). It gives
  `BatchingIsInvisible`, for any batches, caps, durations and padding, and `Refinement` of `AudioStream`.
- `BaselineProofs`. `RateIsOfTheMoment` needs `LastWritten` (the rate in the model is that of the last
  write) and `Alone` (in the modes that serialise, one handler is between write and read). `NoClimb`
  needs `RampInv`: no level but the last of those recorded is broken, and after a broken one the ramp has
  ended. `WindowKept` counts: every recorded request took at least one tick of its worker's that no other was
  recorded for (`Spent`), and a level of n workers has n ticks for each of the clock's.
- `EngineBuildProofs`. `Versions`: beside a whole checkpoint every file that is not stale, and what a tool has loaded
  to write one, is of its revision; it gives `OneVersion`. `ServerInv`, what a
  frontend has loaded so far, gives `AllOrNothing`. `Earned` says which of its files a tool may rely on at the
  step it is at; with `Table`, the steps of the programs for any list of precisions, it gives
  `ReportsEarned`.

Only model-checked:

- all liveness (`CooldownEnds`, `Reinstated`, `DeadLeavesRotation`, `StreamsEnd`, `SlotComesBack`, `CallsEnd`,
  `RampEnds`, `FallsBack`), since liveness under fairness is outside the prover's reach;
- the three disagreements, whose counterexamples are TLC's.

Every safety invariant and action property that the passing runs check is stated by a theorem.

Theorems of the library that take an operator as a parameter, its induction principles and those on folds among them,
cannot be used by the provers here. Induction over the naturals is therefore done with sets:
`CountingUp` says that a set that has 0 and with each number the next has them all, and `FoldExists` and `OneByOne` in
`IncrementalProofs` are the folds and sequences over it. `TextNorm`, `ChunkedSynthesis` and `Pipeline` are written with
recursive functions and folds, about which that can be used, and no `RECURSIVE` operator.

## 5. What is not modelled, and the plan

Not modelled, and why:

- what audio sounds like, latencies, percentiles, parity and quality figures: real numbers,
  not states;
- the load generator: its subject is the playback clock and the knee of a latency curve, and its control, workers under
  a deadline, is that of the baseline's load test;
- the service scripts: shell around the table of processes of the operating system. A pid file may outlive its
  process; a model of it would be a model of that table;
- the probes in `export/` and the sweep: one measurement after another, no state;
- the gateway's shutdown, which does not wait for hijacked WebSockets (`main.go:198`) and
  after which there is no state to speak of; tracing, histograms, the WAV header;
- installation, containers, dashboards.

Next: `normalize` with its whole tables, of which the operators have one or two entries of each sort. A new entry of the
same sort needs a line in `SymbolsOpen` or `Spellings` and changes no argument; a unit of two marks, as in "°C", would be a
rule of its own.
