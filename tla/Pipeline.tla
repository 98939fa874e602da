------------------------------ MODULE Pipeline ------------------------------
(***************************************************************************)
(* The Python side of the serving path: the two Python backends in Triton  *)
(* (model_repo/tts_frontend/1/model.py and vits_frontend/1/model.py) and   *)
(* the callers of TTSClient.stream (streaming/client.py), which takes the  *)
(* three hops for one utterance after the other.                           *)
(*                                                                         *)
(* Triton hands waiting requests to an acoustic frontend in batches of its *)
(* choice.  What the streaming backend sends is TtsStream's matter: here   *)
(* it sends the frames it was given piece by piece, may lose a piece, and  *)
(* ends with the last piece or an error, or goes quiet.                    *)
(***************************************************************************)
EXTENDS AcousticFrontend, FiniteSets

CONSTANTS
    Count,       \* how many utterances there are
    CallerOf,    \* the TTSClient that asks for each, in the order of their numbers
    Texts,       \* the texts to consider, each the durations of its tokens
    MaxChars,    \* max_chars, in tokens
    Pads,        \* how many padding tokens a caller may add
    MaxBatch,    \* max_batch_size
    Cuts         \* the frames at which the streaming backend may end a chunk

Utterances == 1..Count

ASSUME PipelineAssumption ==
    /\ Count \in Nat /\ MaxChars \in Nat /\ Pads \subseteq Nat /\ MaxBatch \in Nat
    /\ DOMAIN CallerOf = Utterances
    /\ \A t \in Texts : t \in Seq(Nat \ {0})

VARIABLES
    text,       \* the text of each utterance
    padding,    \* the padding its caller adds to its tokens
    engines,    \* external: will the TensorRT engines load?
    ready,      \* is the acoustic frontend initialized?
    pc,         \* where in TTSClient.stream each utterance is
    latents,    \* the latents it got from hop 2
    wire,       \* its results queue
    sent,       \* how many of its frames Triton is done with
    lost,       \* history: those whose response could not be sent
    answered,   \* has Triton sent its FINAL response?
    open,       \* has each TTSClient a stream that was not stopped?
    played,     \* the chunks appended
    outcome     \* nothing yet, or how its call ends: a result or an exception

server == <<engines, ready>>
triton == <<sent, lost, answered>>
vars == <<text, padding, server, pc, latents, wire, triton, open, played, outcome>>

Callers == {CallerOf[r] : r \in Utterances}

Init ==
    /\ text \in [Utterances -> Texts]
    /\ padding \in [Utterances -> Pads]
    /\ engines \in BOOLEAN /\ ready = FALSE
    /\ pc = [r \in Utterances |-> "waiting"]
    /\ latents = [r \in Utterances |-> <<>>]
    /\ wire = [r \in Utterances |-> <<>>]
    /\ sent = [r \in Utterances |-> 0]
    /\ lost = [r \in Utterances |-> {}]
    /\ answered = [r \in Utterances |-> FALSE]
    /\ open = [c \in Callers |-> FALSE]
    /\ played = [r \in Utterances |-> <<>>]
    /\ outcome = [r \in Utterances |-> "streaming"]

\* text[: self.max_chars]
Cut(t) == SubSeq(t, 1, IF Len(t) < MaxChars THEN Len(t) ELSE MaxChars)
Tokens(r) == Cut(text[r])

\* What hop 2 is sent: the tokens and their mask, with zeros for the padding.
RowOf(t, pad) ==
    [duration |-> PadTo(Cut(t), Len(Cut(t)) + pad),
     mask     |-> PadTo([j \in 1..Len(Cut(t)) |-> 1], Len(Cut(t)) + pad)]
Row(r) == RowOf(text[r], padding[r])

Set(f, S, x) == [q \in DOMAIN f |-> IF q \in S THEN x ELSE f[q]]
-----------------------------------------------------------------------------
(* The backends. *)

\* initialize: an engine that does not load is logged, and PyTorch answers
\* instead; so is a warm-up that fails.
Initialize ==
    /\ ~ready
    /\ ready' = TRUE
    /\ UNCHANGED <<text, padding, engines, pc, latents, wire, triton, open, played, outcome>>

\* execute of tts_frontend: every request is answered on its own.  The text may
\* be nothing to say.
TextFrontend(S) ==
    /\ S # {} /\ S \subseteq {r \in Utterances : pc[r] = "text"}
    /\ LET bad == {r \in S : Tokens(r) = <<>>} IN
       /\ outcome' = Set(outcome, bad, "failed")
       /\ pc' = Set(Set(pc, S, "acoustic"), bad, "done")
    /\ UNCHANGED <<text, padding, server, latents, wire, triton, open, played>>

Waiting == {r \in Utterances : pc[r] = "acoustic"}

\* What the engines make of every batch there can be.
Batch == UNION {[1..n -> {RowOf(t, p) : t \in Texts, p \in Pads}] : n \in 1..MaxBatch}
Engines == [rows \in Batch |-> [runs    |-> InProfile(Rows(rows)),
                                answers |-> [i \in 1..Len(rows) |-> Answer(rows, i)]]]
Torch == [rows \in Batch |-> [runs    |-> TRUE,
                              answers |-> [i \in 1..Len(rows) |-> TorchAnswer(rows, i)]]]

\* _latents: the engines if they loaded, PyTorch if not.
Fused(batch) ==
    LET rows == [k \in 1..Len(batch) |-> Row(batch[k])]
    IN  IF engines THEN Engines[rows] ELSE Torch[rows]

Index(batch, r) == CHOOSE i \in 1..Len(batch) : batch[i] = r

\* execute of vits_frontend on a batch: one fused pass; whatever goes wrong in
\* it is the answer to all of the batch.
AcousticFrontend(batch) ==
    /\ ready
    /\ LET S == ToSet(batch) IN
       \/ /\ outcome' = Set(outcome, S, "failed")
          /\ pc' = Set(pc, S, "done")
          /\ UNCHANGED latents
       \/ /\ Fused(batch).runs
          /\ latents' = [r \in Utterances |->
                           IF r \in S THEN Fused(batch).answers[Index(batch, r)] ELSE latents[r]]
          /\ pc' = Set(pc, S, "start")
          /\ UNCHANGED outcome
    /\ UNCHANGED <<text, padding, server, wire, triton, open, played>>

\* The dynamic batcher.
Batches == {b \in UNION {SetToSeqs(S) : S \in SUBSET Waiting} : Len(b) \in 1..MaxBatch}

\* External: the streaming backend.  It does not notice that its caller is gone.
Serving(r) == pc[r] \in {"stream", "stopping"} /\ ~answered[r] /\ sent[r] < Len(latents[r])
Ends(r) == {end \in (sent[r] + 1)..Len(latents[r]) : end \in Cuts \/ end = Len(latents[r])}
Done(r, frame) == sent' = [sent EXCEPT ![r] = frame]

\* The callback; once the loop is left nobody reads its queue.
Put(r, msg) == wire' = IF pc[r] = "stream" THEN [wire EXCEPT ![r] = Append(@, msg)] ELSE wire

SendChunk(r) ==
    /\ Serving(r)
    /\ \E end \in Ends(r) :
         /\ Put(r, [error |-> FALSE, piece |-> <<sent[r], end>>,
                    final |-> end = Len(latents[r])])
         /\ Done(r, end)
         /\ answered' = [answered EXCEPT ![r] = end = Len(latents[r])]
    /\ UNCHANGED <<text, padding, server, pc, latents, lost, open, played, outcome>>

\* The response with a chunk cannot be sent, and the backend goes on.
LoseChunk(r) ==
    /\ Serving(r)
    /\ \E end \in Ends(r) :
         /\ lost' = [lost EXCEPT ![r] = @ \union sent[r]..(end - 1)]
         /\ Done(r, end)
    /\ UNCHANGED <<text, padding, server, pc, latents, wire, answered, open, played, outcome>>

\* An error, or a last response that lacks an output.
SendError(r) ==
    /\ Serving(r)
    /\ Put(r, [error |-> TRUE, piece |-> <<0, 0>>, final |-> FALSE])
    /\ Done(r, Len(latents[r]))
    /\ answered' = [answered EXCEPT ![r] = TRUE]
    /\ UNCHANGED <<text, padding, server, pc, latents, lost, open, played, outcome>>
-----------------------------------------------------------------------------
(* TTSClient.stream *)

\* A caller asks for its utterances one after the other.
Call(r) ==
    /\ pc[r] = "waiting"
    /\ \A q \in Utterances : (q < r /\ CallerOf[q] = CallerOf[r]) => pc[q] = "done"
    /\ pc' = [pc EXCEPT ![r] = "text"]
    /\ UNCHANGED <<text, padding, server, latents, wire, triton, open, played, outcome>>

\* start_stream raises if the client has a stream already, before the try.
StartStream(r) ==
    /\ pc[r] = "start"
    /\ IF open[CallerOf[r]]
         THEN /\ outcome' = [outcome EXCEPT ![r] = "failed"]
              /\ pc' = [pc EXCEPT ![r] = "done"]
              /\ UNCHANGED open
         ELSE /\ open' = [open EXCEPT ![CallerOf[r]] = TRUE]
              /\ pc' = [pc EXCEPT ![r] = "stream"]
              /\ UNCHANGED outcome
    /\ UNCHANGED <<text, padding, server, latents, wire, triton, played>>

\* The loop is left, and the finally calls stop_stream.
Leave(r, how) ==
    /\ outcome' = [outcome EXCEPT ![r] = how]
    /\ pc' = [pc EXCEPT ![r] = "stopping"]
    /\ wire' = [wire EXCEPT ![r] = <<>>]

\* stop_stream, which cancels nothing: the library half-closes the stream and
\* joins its handler thread, which reads until Triton has answered what is
\* pending.  Then stream() returns or raises.
StopStream(r) ==
    /\ pc[r] = "stopping" /\ answered[r]
    /\ pc' = [pc EXCEPT ![r] = "done"]
    /\ open' = [open EXCEPT ![CallerOf[r]] = FALSE]
    /\ UNCHANGED <<text, padding, server, latents, wire, triton, played, outcome>>

\* results.get
Receive(r) ==
    /\ pc[r] = "stream" /\ wire[r] # <<>>
    /\ LET msg == Head(wire[r]) IN
       IF msg.error
         THEN /\ Leave(r, "failed")
              /\ UNCHANGED played
         ELSE /\ played' = [played EXCEPT ![r] = Append(@, msg.piece)]
              /\ IF msg.final THEN Leave(r, "complete")
                 ELSE /\ wire' = [wire EXCEPT ![r] = Tail(@)]
                      /\ UNCHANGED <<outcome, pc>>
    /\ UNCHANGED <<text, padding, server, latents, triton, open>>

\* Faulty Timeout: what has arrived is returned.
TimeoutReturns(r) ==
    /\ pc[r] = "stream" /\ wire[r] = <<>>
    /\ Leave(r, "complete")
    /\ UNCHANGED <<text, padding, server, latents, triton, open, played>>

\* Faulty Timeout: get() without one, while nothing has been heard.
TimeoutNever(r) ==
    /\ pc[r] = "stream" /\ wire[r] = <<>> /\ played[r] # <<>>
    /\ Leave(r, "failed")
    /\ UNCHANGED <<text, padding, server, latents, triton, open, played>>

\* get(timeout=60) raises queue.Empty.
Timeout(r) ==
    /\ pc[r] = "stream" /\ wire[r] = <<>>
    /\ Leave(r, "failed")
    /\ UNCHANGED <<text, padding, server, latents, triton, open, played>>

Next ==
    \/ Initialize
    \/ \E S \in SUBSET Utterances : TextFrontend(S)
    \/ \E batch \in Batches : AcousticFrontend(batch)
    \/ \E r \in Utterances :
         \/ Call(r) \/ StartStream(r) \/ Receive(r) \/ Timeout(r) \/ StopStream(r)
         \/ SendChunk(r) \/ LoseChunk(r) \/ SendError(r)

Spec == Init /\ [][Next]_vars

\* The Python backends answer what they are given, the callers and the handler
\* thread run, and a timeout is not put off for ever.  The streaming backend may
\* go quiet.
FairSpec ==
    /\ Spec
    /\ WF_vars(Initialize)
    /\ WF_vars(\E batch \in Batches : AcousticFrontend(batch))
    /\ \A r \in Utterances :
         /\ WF_vars(TextFrontend({r}))
         /\ WF_vars(Call(r)) /\ WF_vars(StartStream(r))
         /\ WF_vars(Receive(r)) /\ WF_vars(Timeout(r)) /\ WF_vars(StopStream(r))
-----------------------------------------------------------------------------
(* Properties. *)

\* Every variable stays in its type, and a call that has an outcome has left its
\* loop.
TypeOK ==
    /\ text \in [Utterances -> Texts] /\ padding \in [Utterances -> Pads]
    /\ engines \in BOOLEAN /\ ready \in BOOLEAN
    /\ pc \in [Utterances -> {"waiting", "text", "acoustic", "start", "stream", "stopping",
                            "done"}]
    /\ latents \in [Utterances -> Seq([token : Nat, clean : BOOLEAN])]
    /\ wire \in [Utterances -> Seq([error : BOOLEAN, piece : Nat \X Nat, final : BOOLEAN])]
    /\ sent \in [Utterances -> Nat] /\ lost \in [Utterances -> SUBSET Nat]
    /\ answered \in [Utterances -> BOOLEAN] /\ open \in [Callers -> BOOLEAN]
    /\ played \in [Utterances -> Seq(Nat \X Nat)]
    /\ outcome \in [Utterances -> {"streaming", "complete", "failed"}]
    /\ \A r \in Utterances : (pc[r] \in {"stopping", "done"}) = (outcome[r] # "streaming")

\* How many frames an utterance has: its tokens' durations, under the cap that
\* the engines need.
FrameCount ==
    [t \in Texts |->
       LET sum[k \in 0..Len(Cut(t))] == IF k = 0 THEN 0 ELSE sum[k - 1] + Cut(t)[k]
       IN  sum[Len(Cut(t))]]
FramesOf(r) ==
    IF engines /\ FrameCount[text[r]] > MaxFrames THEN MaxFrames ELSE FrameCount[text[r]]

\* Whatever it was batched with, in whatever order, with whatever padding, a
\* request is answered with its own latents, all of them and no more, and none
\* that its neighbours' padding leaked into: what it would have been answered
\* alone.  A TTSClient can start its next stream, however the last one ended; and
\* every variable is in its type.
BatchingDoesNotShow ==
    /\ TypeOK
    /\ \A r \in Utterances : pc[r] = "start" => ~open[CallerOf[r]]
    /\ \A r \in Utterances :
        latents[r] # <<>> =>
          /\ Len(latents[r]) = FramesOf(r)
          /\ \A k \in 1..Len(latents[r]) : latents[r][k].clean
          /\ latents[r] = IF engines
                            THEN Answer(<<[duration |-> Tokens(r),
                                           mask |-> [j \in 1..Len(Tokens(r)) |-> 1]]>>, 1)
                            ELSE TorchAnswer(<<Row(r)>>, 1)

Promise == INSTANCE AudioStream
             WITH Requests <- Utterances, frames <- [r \in Utterances |-> FramesOf(r)],
                  lost <- lost, played <- played,
                  outcome <- [r \in Utterances |->
                                IF pc[r] = "done" THEN outcome[r] ELSE "streaming"]

\* A StreamResult holds the whole utterance in order, but for chunks that the
\* backend could not send (CHUNK_INDEX is asked for and not looked at); anything
\* less is an exception.
KeepsPromise == Promise!Spec

\* Every call of stream() returns or raises, even if the backend goes quiet in
\* the middle of an utterance: unless the backend never answers its request, or
\* an earlier one of the same caller.  Then the timeout ends the loop, and the
\* call hangs in stop_stream.
HangsFor(q) == pc[q] = "stopping" /\ ~answered[q]
CallsEnd ==
    \A r \in Utterances :
      \/ <>(pc[r] = "done")
      \/ \E q \in 1..r : CallerOf[q] = CallerOf[r] /\ <>[]HangsFor(q)
=============================================================================
