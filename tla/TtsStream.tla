------------------------------ MODULE TtsStream ------------------------------
(***************************************************************************)
(* One instance of the streaming backend                                   *)
(* (backends/tts_stream/src/tts_stream.cc), the decoupled response streams *)
(* it writes, and the gateway's side of each of them                       *)
(* (Client.StreamAudio, gateway/internal/tritonclient/client.go).          *)
(*                                                                         *)
(* ProcessRequests takes the requests it is given one after the other:     *)
(* it plans the chunks of an utterance, decodes each in a window with      *)
(* Overlap frames of context on either side, and sends it as a response of *)
(* its own, while the gateway reads.  Every call into Triton or TensorRT   *)
(* may fail.  Audio is abstracted to the frames it is the audio of.        *)
(***************************************************************************)
EXTENDS Integers, Sequences

CONSTANTS
    Count,        \* requests handed to the instance in one call
    TotalFrames,  \* the utterance lengths to consider
    First,        \* first_chunk_frames
    Max,          \* max_chunk_frames
    GrowthNum, GrowthDen,  \* chunk_growth, as a fraction
    Overlap,      \* overlap_frames
    MinWindow     \* min_window_frames

\* What ReadConfig insists on; chunk_growth and min_window_frames are not
\* checked there and have the type only.
ReadConfig ==
    /\ First \in Int /\ Max \in Int /\ 1 <= First /\ First <= Max
    /\ Overlap \in Nat
    /\ GrowthNum \in Nat /\ GrowthDen \in Nat \ {0}
    /\ MinWindow \in Nat
ASSUME ConfigAssumption == ReadConfig
ASSUME InputAssumption == Count \in Nat \ {0} /\ TotalFrames \subseteq Nat

Requests == 1..Count

Larger(x, y)  == IF x > y THEN x ELSE y
Smaller(x, y) == IF x < y THEN x ELSE y

VARIABLES
    frames,      \* shape[2] of each request's LATENTS
    wellFormed,  \* does it pass the other checks on LATENTS?
    r,           \* the request the instance is at; Count + 1 when it is done
    pc,          \* where in ProcessRequests the instance is
    a, size,     \* the planner's position and next chunk size
    chunks,      \* the plan, a sequence of <<a, b>>
    i,           \* the chunk being processed, from 1
    failed,      \* failed
    factory,     \* is the response factory of request r there?
    released,    \* how often each request was released
    finals,      \* how many responses flagged FINAL each request was sent
    wire,        \* the responses on their way to the gateway
    closed,      \* has Triton ended the stream after the FINAL response?
    lost,        \* history: the frames whose response could not be sent
    played,      \* the chunks onChunk accepted
    outcome      \* what StreamAudio returned: nothing yet, nil or an error

planning == <<a, size, chunks, i>>
gateway  == <<lost, played, outcome>>
vars == <<frames, wellFormed, r, pc, a, size, chunks, i, failed, factory,
          released, finals, wire, closed, lost, played, outcome>>

Init ==
    /\ frames \in [Requests -> TotalFrames]
    /\ wellFormed \in [Requests -> BOOLEAN]
    /\ r = 1
    /\ pc = "factory"
    /\ a = 0 /\ size = First /\ chunks = <<>> /\ i = 1
    /\ failed = FALSE
    /\ factory = FALSE
    /\ released = [q \in Requests |-> 0]
    /\ finals = [q \in Requests |-> 0]
    /\ wire = [q \in Requests |-> <<>>]
    /\ closed = [q \in Requests |-> FALSE]
    /\ lost = [q \in Requests |-> {}]
    /\ played = [q \in Requests |-> <<>>]
    /\ outcome = [q \in Requests |-> "streaming"]
-----------------------------------------------------------------------------
(* The planner and the window arithmetic. *)

\* Faulty NextSize: the cap at max_chunk_frames is missing.
NextSizeUncapped(s) == Larger(s + 1, (s * GrowthNum) \div GrowthDen)

\* The size of the chunk after one of s frames.
NextSize(s) == Smaller(Max, Larger(s + 1, (s * GrowthNum) \div GrowthDen))

\* Faulty MaxWindow: the context on one side only.
MaxWindowOneSided == Larger(Max + Overlap, MinWindow)

\* max_window_frames_: what the device and host buffers are allocated for.
MaxWindow == Larger(Max + 2 * Overlap, MinWindow)

\* Faulty Lo: the left context is one frame short.
LoShort(chunk) == Larger(0, chunk[1] - Overlap + 1)

\* The frames decoded for chunk <<from, to>> of an utterance of t frames, and
\* the number the engine runs on after zero-padding.
Lo(chunk)        == Larger(0, chunk[1] - Overlap)
Hi(chunk, t)     == Smaller(t, chunk[2] + Overlap)
Window(chunk, t) == Larger(Hi(chunk, t) - Lo(chunk), MinWindow)

\* The shapes Init runs the engine on: one for each size up to Max.
Sizes == LET grow[n \in 0..Max] == IF n = 0 THEN First ELSE NextSize(grow[n - 1])
         IN  {grow[n] : n \in 0..Max}
WarmedShapes == {Larger(s + 2 * Overlap, MinWindow) : s \in Sizes}
-----------------------------------------------------------------------------
(* ProcessRequests. *)

GoTo(label) == pc' = label

\* The end of an iteration over the requests.
NextRequest ==
    /\ r' = r + 1
    /\ GoTo(IF r < Count THEN "factory" ELSE "done")
    /\ a' = 0 /\ size' = First /\ chunks' = <<>> /\ i' = 1
    /\ failed' = FALSE

Release == released' = [released EXCEPT ![r] = @ + 1]

\* ResponseSend.  After a response flagged FINAL Triton ends the stream.
Send(message) ==
    /\ wire' = [wire EXCEPT ![r] = Append(@, message)]
    /\ finals' = [finals EXCEPT ![r] = IF message.final THEN @ + 1 ELSE @]
    /\ closed' = [closed EXCEPT ![r] = @ \/ message.final]

Error == [kind |-> "error", piece |-> <<0, 0>>, final |-> TRUE, isFinal |-> FALSE]

\* The fail lambda: the error is sent if a response can be had for it and the
\* send does not fail; the factory and the request go in any case.
Fail ==
    /\ Send(Error) \/ UNCHANGED <<wire, finals, closed>>
    /\ factory' = FALSE
    /\ Release

NewFactory ==
    /\ pc = "factory"
    /\ factory' = TRUE
    /\ GoTo("validate")
    /\ UNCHANGED <<frames, wellFormed, r, planning, failed, released, finals,
                   wire, closed, gateway>>

\* ResponseFactoryNew fails: the request is released without a response.
NoFactory ==
    /\ pc = "factory"
    /\ Release
    /\ NextRequest
    /\ UNCHANGED <<frames, wellFormed, factory, finals, wire, closed, gateway>>

Accept ==
    /\ pc = "validate"
    /\ wellFormed[r] /\ frames[r] >= 1
    /\ GoTo("plan")
    /\ UNCHANGED <<frames, wellFormed, r, planning, failed, factory, released,
                   finals, wire, closed, gateway>>

\* LATENTS is missing, of another type or shape, empty, or cannot be read.
Reject ==
    /\ pc = "validate"
    /\ Fail
    /\ NextRequest
    /\ UNCHANGED <<frames, wellFormed, gateway>>

\* One iteration of the planner's loop, or its end.
PlanChunk ==
    /\ pc = "plan"
    /\ a < frames[r]
    /\ LET b == Smaller(a + size, frames[r])
       IN  chunks' = Append(chunks, <<a, b>>) /\ a' = b
    /\ size' = NextSize(size)
    /\ UNCHANGED <<frames, wellFormed, r, pc, i, failed, factory, released,
                   finals, wire, closed, gateway>>

PlanDone ==
    /\ pc = "plan"
    /\ a >= frames[r]
    /\ GoTo("decode")
    /\ UNCHANGED <<frames, wellFormed, r, planning, failed, factory, released,
                   finals, wire, closed, gateway>>

Decode ==
    /\ pc = "decode"
    /\ i <= Len(chunks)
    /\ GoTo("respond")
    /\ UNCHANGED <<frames, wellFormed, r, planning, failed, factory, released,
                   finals, wire, closed, gateway>>

\* Faulty Respond: no response is flagged FINAL, and IS_FINAL gets lost.
RespondNeverFinal ==
    /\ pc = "respond"
    /\ Send([kind |-> "chunk", piece |-> chunks[i], final |-> FALSE, isFinal |-> FALSE])
    /\ i' = i + 1
    /\ GoTo("decode")
    /\ UNCHANGED <<frames, wellFormed, r, a, size, chunks, failed, factory,
                   released, gateway>>

\* Faulty Respond: a chunk whose response cannot be had is skipped.
RespondOrSkip ==
    /\ pc = "respond"
    /\ \/ /\ i < Len(chunks)
          /\ UNCHANGED <<wire, finals, closed>>
       \/ Send([kind |-> "chunk", piece |-> chunks[i], final |-> i = Len(chunks),
                isFinal |-> i = Len(chunks)])
    /\ i' = i + 1
    /\ GoTo("decode")
    /\ UNCHANGED <<frames, wellFormed, r, a, size, chunks, failed, factory,
                   released, gateway>>

\* ResponseSend fails with the response of a chunk, and its error is not looked at.
LoseChunk(chunk) ==
    /\ lost' = [lost EXCEPT ![r] = @ \cup chunk[1]..(chunk[2] - 1)]
    /\ UNCHANGED <<wire, finals, closed>>

\* A response could be had and filled: it is sent, or lost.  The IS_FINAL output
\* of the last chunk is lost when adding it to the response fails.
Respond ==
    /\ pc = "respond"
    /\ LET isFinal == i = Len(chunks)
       IN  \/ /\ \E told \in {isFinal, FALSE} :
                   Send([kind |-> "chunk", piece |-> chunks[i],
                         final |-> isFinal, isFinal |-> told])
              /\ UNCHANGED lost
           \/ LoseChunk(chunks[i])
    /\ i' = i + 1
    /\ GoTo("decode")
    /\ UNCHANGED <<frames, wellFormed, r, a, size, chunks, failed, factory,
                   released, played, outcome>>

\* DecodeWindow fails, or a call that builds the response does.
Abort ==
    /\ \/ pc = "decode" /\ i <= Len(chunks)
       \/ pc = "respond"
    /\ Fail
    /\ failed' = TRUE
    /\ GoTo("cleanup")
    /\ UNCHANGED <<frames, wellFormed, r, planning, gateway>>

EndLoop ==
    /\ pc = "decode"
    /\ i > Len(chunks)
    /\ GoTo("cleanup")
    /\ UNCHANGED <<frames, wellFormed, r, planning, failed, factory, released,
                   finals, wire, closed, gateway>>

\* Faulty Cleanup: what the fail lambda released is released again.
CleanupAlways ==
    /\ pc = "cleanup"
    /\ factory' = FALSE
    /\ Release
    /\ NextRequest
    /\ UNCHANGED <<frames, wellFormed, finals, wire, closed, gateway>>

Cleanup ==
    /\ pc = "cleanup"
    /\ IF ~failed THEN factory' = FALSE /\ Release
                  ELSE UNCHANGED <<factory, released>>
    /\ NextRequest
    /\ UNCHANGED <<frames, wellFormed, finals, wire, closed, gateway>>

Backend ==
    \/ NewFactory \/ NoFactory \/ Accept \/ Reject
    \/ PlanChunk \/ PlanDone
    \/ Decode \/ Respond \/ Abort
    \/ EndLoop \/ Cleanup
-----------------------------------------------------------------------------
(* StreamAudio, one call for each request. *)

Returns(q, result) == outcome' = [outcome EXCEPT ![q] = result]
Consume(q) == wire' = [wire EXCEPT ![q] = Tail(@)]

backend == <<frames, wellFormed, r, pc, planning, failed, factory, released,
             finals, closed, lost>>

\* A chunk is read and onChunk takes it.
RecvChunk(q) ==
    /\ outcome[q] = "streaming"
    /\ wire[q] # <<>> /\ Head(wire[q]).kind = "chunk"
    /\ played' = [played EXCEPT ![q] = Append(@, Head(wire[q]).piece)]
    /\ Consume(q)
    /\ IF Head(wire[q]).isFinal THEN Returns(q, "complete") ELSE UNCHANGED outcome
    /\ UNCHANGED backend

\* A chunk is read and onChunk cannot write it to the caller's socket.
CallbackFails(q) ==
    /\ outcome[q] = "streaming"
    /\ wire[q] # <<>> /\ Head(wire[q]).kind = "chunk"
    /\ Consume(q)
    /\ Returns(q, "failed")
    /\ UNCHANGED <<backend, played>>

\* msg.ErrorMessage != ""
RecvError(q) ==
    /\ outcome[q] = "streaming"
    /\ wire[q] # <<>> /\ Head(wire[q]).kind = "error"
    /\ Consume(q)
    /\ Returns(q, "failed")
    /\ UNCHANGED <<backend, played>>

\* io.EOF: the stream has ended and everything on it has been read.
RecvEOF(q) ==
    /\ outcome[q] = "streaming"
    /\ wire[q] = <<>> /\ closed[q]
    /\ Returns(q, "complete")
    /\ UNCHANGED <<backend, wire, played>>

\* Recv fails: the connection broke.
RecvFails(q) ==
    /\ outcome[q] = "streaming"
    /\ Returns(q, "failed")
    /\ UNCHANGED <<backend, wire, played>>

Receive(q) == RecvChunk(q) \/ RecvError(q) \/ RecvEOF(q)

Next ==
    \/ Backend
    \/ \E q \in Requests : Receive(q) \/ CallbackFails(q) \/ RecvFails(q)

Spec == Init /\ [][Next]_vars

\* The instance's thread and the receiving goroutines are scheduled; no call is
\* assumed to succeed.
FairSpec ==
    Spec /\ WF_vars(Backend) /\ \A q \in Requests : WF_vars(Receive(q))
-----------------------------------------------------------------------------
(* Properties. *)

Labels == {"factory", "validate", "plan", "decode", "respond", "cleanup", "done"}
Piece  == Nat \X Nat
Message == [kind : {"chunk", "error"}, piece : Piece, final : BOOLEAN,
            isFinal : BOOLEAN]

\* Every variable stays in its type.
TypeOK ==
    /\ frames \in [Requests -> TotalFrames]
    /\ wellFormed \in [Requests -> BOOLEAN]
    /\ r \in 1..(Count + 1) /\ pc \in Labels
    /\ a \in Nat /\ size \in 1..Max /\ i \in Nat \ {0}
    /\ chunks \in Seq(Piece)
    /\ failed \in BOOLEAN /\ factory \in BOOLEAN
    /\ released \in [Requests -> Nat] /\ finals \in [Requests -> Nat]
    /\ wire \in [Requests -> Seq(Message)]
    /\ closed \in [Requests -> BOOLEAN]
    /\ lost \in [Requests -> SUBSET Nat]
    /\ played \in [Requests -> Seq(Piece)]
    /\ outcome \in [Requests -> {"streaming", "complete", "failed"}]

\* The window of every chunk that is decoded fits the buffers allocated once in
\* Init, whatever the configuration ReadConfig lets through, and the frames
\* kept from it are frames it decoded: neither the copies to the device nor the
\* read of h_out_ leave their buffers.
WindowFits ==
    \A k \in 1..Len(chunks) :
      LET chunk == chunks[k] IN
      /\ Window(chunk, frames[r]) <= MaxWindow
      /\ Lo(chunk) <= chunk[1] /\ chunk[1] < chunk[2] /\ chunk[2] <= Hi(chunk, frames[r])

\* Every frame of a chunk is decoded with its whole receptive field, Overlap
\* frames on either side as far as the utterance goes: what makes the chunks
\* join without a click.
ContextComplete ==
    \A k \in 1..Len(chunks) :
      \A x \in chunks[k][1]..(chunks[k][2] - 1) :
        /\ Lo(chunks[k]) <= Larger(0, x - Overlap)
        /\ Smaller(frames[r], x + Overlap + 1) <= Hi(chunks[k], frames[r])

\* On every path, the failing ones included, a request that the instance is
\* done with was released exactly once, its factory is gone, and the others
\* have not been touched.
ReleasedOnce ==
    /\ \A q \in Requests : released[q] = IF q < r THEN 1
                                         ELSE IF q = r /\ pc = "cleanup" /\ failed
                                                THEN 1 ELSE 0
    /\ factory <=> (pc \in {"validate", "plan", "decode", "respond"}
                      \/ (pc = "cleanup" /\ ~failed))

\* A stream carries at most one FINAL response and nothing after it.
NothingAfterFinal ==
    /\ \A q \in Requests : finals[q] <= 1
    /\ \A q \in Requests : \A k \in 1..Len(wire[q]) :
         wire[q][k].final => k = Len(wire[q])

Promise == INSTANCE AudioStream WITH
    Requests <- Requests, frames <- frames, lost <- lost, played <- played, outcome <- outcome

\* What the gateway hands its caller is what AudioStream promises, with any
\* failure of any call on the way: the utterance in order, reported as complete
\* only with its last frame, and with no gap in it but the chunks whose send
\* failed.  Those are missed by nobody: StreamAudio does not look at CHUNK_INDEX.
KeepsPromise == Promise!Spec

\* All of the utterance was sent.
Whole(q) ==
    LET got == played[q] \o [k \in 1..Len(wire[q]) |-> wire[q][k].piece]
    IN  got # <<>> /\ got[Len(got)][2] = frames[q]

\* A request was given up, or lost its last chunk, and no response could be had or
\* sent to say so: the stream stays open.
Silent(q) == released[q] > 0 /\ finals[q] = 0 /\ ~Whole(q)

\* tts_stream.cc:511: "Index and finality travel with the chunk so the gateway can
\* order and terminate the stream", but it looks at the finality only.  This does
\* NOT hold: an utterance that lacks a chunk is complete too (README, section 3).
CompleteIsWhole == \A q \in Requests : outcome[q] = "complete" => lost[q] = {}

\* Every call of StreamAudio returns, except those whose request ended silently.
StreamsEnd == \A q \in Requests : <>(outcome[q] # "streaming" \/ Silent(q))

\* tts_stream.cc:278: "Warm every window shape the chunk planner can produce."
\* (The last windows, which the end of the utterance cuts short, are left out.)
\* This does NOT hold: the first window has no left context (README, "Met while
\* modelling").
EveryShapeWarmed ==
    pc = "decode" =>
      \A k \in 1..Len(chunks) :
        chunks[k][2] + Overlap <= frames[r] =>
          Window(chunks[k], frames[r]) \in WarmedShapes
=============================================================================
