-------------------------- MODULE ChunkedSynthesis --------------------------
(***************************************************************************)
(* The reference synthesizer (streaming/chunked.py): one                   *)
(* ChunkedSynthesizer and the generators its stream() has handed out.      *)
(*                                                                         *)
(* A generator runs when its caller asks for the next chunk and is         *)
(* suspended in between, so generators of one synthesizer interleave chunk *)
(* by chunk, share its model and its stats, and may be abandoned half way. *)
(* Decoded audio is abstracted to where each sample belongs and whether it *)
(* is what a decode of the whole utterance gives there.                    *)
(***************************************************************************)
EXTENDS Integers, Sequences

CONSTANTS
    Streams,     \* the generators
    Lengths,     \* the utterance lengths to consider, in latent frames
    Hop,         \* samples per latent frame: the product of upsample_rates
    Receptive,   \* external: how many frames either side a sample depends on
    Configs,     \* the ChunkConfigs to consider, durations in samples
    none         \* no generator

ASSUME HopAssumption == Hop \in Nat /\ Hop > 1 /\ Receptive \in Nat
ASSUME StreamsAssumption == none \notin Streams
ASSUME LengthsAssumption == Lengths \subseteq Nat
ASSUME ConfigsAssumption ==
    Configs \subseteq [first : Nat, max : Nat, growthNum : Nat, growthDen : Nat \ {0},
                       overlap : Nat, crossfade : Nat,
                       shape : {"linear", "equal_power"}]

VARIABLES
    cfg,       \* self.cfg
    decoder,   \* self.model.decoder: "real", or the capturing "stub"
    frames,    \* latents.shape[-1] of each utterance
    played,    \* the chunks each generator has yielded, <<a, b>>
    size,      \* the planned size of each generator's next chunk
    carry,     \* each generator's tail of the previous chunk
    audio,     \* the samples each generator has yielded
    outcome,   \* "new", "streaming", "complete" or "failed", of each generator
    stats,     \* self.stats
    owner,     \* history: the generator that made this stats object
    mixed      \* history: has another generator counted into it?

streamVars == <<frames, played, size, carry, audio, outcome>>
vars == <<cfg, decoder, streamVars, stats, owner, mixed>>
-----------------------------------------------------------------------------
(* __init__: what is derived from the configuration. *)

Smaller(x, y) == IF x < y THEN x ELSE y
Larger(x, y)  == IF x > y THEN x ELSE y

\* Python's round() of n / d: to the nearest, and from half way to even.
Round(n, d) ==
    LET q == n \div d
        twice == 2 * (n % d)
    IN  IF twice > d \/ (twice = d /\ q % 2 = 1) THEN q + 1 ELSE q

FirstFrames == Larger(1, Round(cfg.first, Hop))
MaxFrames   == Larger(FirstFrames, Round(cfg.max, Hop))

CrossfadeSamples == Smaller(cfg.crossfade, cfg.overlap * Hop)
-----------------------------------------------------------------------------
(* The chunk planner. *)

NextSize(s) == Smaller(MaxFrames, Larger(s + 1, (s * cfg.growthNum) \div cfg.growthDen))

\* Faulty SeamPositions: the end of the utterance is taken for a seam.
SeamPositionsEndToo(total) ==
    LET walk[k \in 0..total] ==
          IF k = 0 THEN <<0, FirstFrames>>
          ELSE <<Smaller(walk[k - 1][1] + walk[k - 1][2], total), NextSize(walk[k - 1][2])>>
    IN  {walk[k][1] * Hop : k \in 1..total}

\* seam_positions, which walks the plan once more: the sample at which every
\* chunk but the last ends.
SeamPositions(total) ==
    LET walk[k \in 0..total] ==   \* the end of chunk k, and the size after it
          IF k = 0 THEN <<0, FirstFrames>>
          ELSE <<Smaller(walk[k - 1][1] + walk[k - 1][2], total), NextSize(walk[k - 1][2])>>
    IN  {walk[k][1] * Hop : k \in 1..total} \ {total * Hop}
-----------------------------------------------------------------------------
(* The decoder, and what _stream_latents does with its audio. *)

\* Faulty Lo: one frame of context short on the left.
LoShort(a) == Larger(0, Smaller(a, a - cfg.overlap + 1))

Lo(a) == Larger(0, a - cfg.overlap)
Hi(b, total) == Smaller(total, b + cfg.overlap)

\* model.decoder(latents[..., lo:hi]): a sample is what a decode of the whole
\* utterance gives there when the window holds its whole receptive field.  The
\* stub answers with a single sample that is no audio.
Decode(lo, hi, total) ==
    IF decoder = "stub" THEN <<[at |-> 0, exact |-> FALSE]>>
    ELSE [k \in 1..((hi - lo) * Hop) |->
            LET sample == lo * Hop + k - 1
                f == sample \div Hop
            IN  [at |-> sample,
                 exact |-> /\ lo <= Larger(0, f - Receptive)
                           /\ Smaller(total, f + Receptive + 1) <= hi]]

\* audio[from:to], which Python cuts at the end of audio.
Slice(wav, from, to) == SubSeq(wav, from + 1, Smaller(to, Len(wav)))

\* _fade_curves: do the two curves add up to one at sample k?  cos + sin does
\* at the two ends only.
AddUp(k) == cfg.shape = "linear" \/ k = 1 \/ k = CrossfadeSamples

\* Mixed with itself there, a sample comes out up to 3 dB louder.
Louder(x) == [x EXCEPT !.exact = FALSE]

\* The previous chunk's tail is faded out over this chunk's head.  An output
\* sample is the set of the decoded samples mixed into it.
Blend(tail, body) ==
    [k \in 1..Len(body) |->
       IF k > Len(tail) THEN {body[k]}
       ELSE IF AddUp(k) THEN {tail[k], body[k]}
       ELSE {Louder(tail[k]), Louder(body[k])}]

\* decode_full
DecodeFull(total) == Blend(<<>>, Decode(0, total, total))
-----------------------------------------------------------------------------
Zero == [chunks |-> 0, samples |-> 0, decoded |-> 0, wasted |-> 0]

Init ==
    /\ cfg \in Configs
    /\ decoder = "real"
    /\ frames \in [Streams -> Lengths]
    /\ played = [s \in Streams |-> <<>>]
    /\ size = [s \in Streams |-> FirstFrames]
    /\ carry = [s \in Streams |-> <<>>]
    /\ audio = [s \in Streams |-> <<>>]
    /\ outcome = [s \in Streams |-> "new"]
    /\ stats = Zero
    /\ owner = none
    /\ mixed = FALSE

Position(s) == IF played[s] = <<>> THEN 0 ELSE played[s][Len(played[s])][2]

\* self.stats = StreamStats(...): a generator that starts replaces the object.
NewStats(s) == IF outcome[s] = "new" THEN Zero ELSE stats

Owns(s) ==
    IF outcome[s] = "new" THEN owner' = s /\ mixed' = FALSE
    ELSE owner' = owner /\ mixed' = (mixed \/ owner # s)

\* Faulty CaptureLatents: the decoder is put back only after a forward pass
\* that succeeded.
CaptureNotRestored(ok) == decoder' = IF ok THEN decoder ELSE "stub"

\* capture_latents: the forward pass runs with the stub in the decoder's place,
\* and may fail; the finally puts the decoder back either way.
CaptureLatents(ok) == LET real == decoder IN decoder' = real

\* The first next() of stream(): the front half, which may raise.
CaptureFails(s) ==
    /\ outcome[s] = "new"
    /\ CaptureLatents(FALSE)
    /\ outcome' = [outcome EXCEPT ![s] = "failed"]
    /\ UNCHANGED <<cfg, frames, played, size, carry, audio, stats, owner, mixed>>

Live(s) == outcome[s] \in {"new", "streaming"}

\* A generator that is asked for its first chunk has run the front half.
Captured(s) == IF outcome[s] = "new" THEN CaptureLatents(TRUE) ELSE UNCHANGED decoder

\* next() yields the chunk [a, b): decode it in its window, trim it, blend it,
\* keep the tail of its right context, count it.
NextChunk(s) ==
    LET total == frames[s]
        a  == Position(s)
        b  == Smaller(a + size[s], total)
        lo == Lo(a)
        hi == Hi(b, total)
        wav     == Decode(lo, hi, total)
        start   == (a - lo) * Hop
        bodyEnd == start + (b - a) * Hop
        out     == Blend(carry[s], Slice(wav, start, bodyEnd))
        final   == b >= total
    IN  /\ Live(s)
        /\ a < total
        /\ Captured(s)
        /\ carry' = [carry EXCEPT ![s] =
                       IF final THEN <<>> ELSE Slice(wav, bodyEnd, bodyEnd + CrossfadeSamples)]
        /\ audio' = [audio EXCEPT ![s] = @ \o out]
        /\ played' = [played EXCEPT ![s] = Append(@, <<a, b>>)]
        /\ size' = [size EXCEPT ![s] = NextSize(@)]
        /\ outcome' = [outcome EXCEPT ![s] = "streaming"]
        /\ stats' = [NewStats(s) EXCEPT !.chunks = @ + 1, !.samples = @ + Len(out)]
        /\ Owns(s)
        /\ UNCHANGED <<cfg, frames>>

\* decoded_frames, which is the generator's own.
DecodedFrames(s) ==
    LET sum[k \in 0..Len(played[s])] ==
          IF k = 0 THEN 0
          ELSE sum[k - 1] + (Hi(played[s][k][2], frames[s]) - Lo(played[s][k][1]))
    IN  sum[Len(played[s])]

\* Faulty Exhaust: a last chunk shorter than planned is left out.
ExhaustEarly(s) ==
    /\ Live(s)
    /\ Position(s) + size[s] > frames[s]
    /\ Captured(s)
    /\ outcome' = [outcome EXCEPT ![s] = "complete"]
    /\ stats' = NewStats(s)
    /\ Owns(s)
    /\ UNCHANGED <<cfg, frames, played, size, carry, audio>>

\* next() after the last chunk: the totals are written and the stream is over.
\* wasted_frame_fraction is wasted / decoded, 0 when nothing was decoded.
Exhaust(s) ==
    /\ Live(s)
    /\ Position(s) = frames[s]
    /\ Captured(s)
    /\ outcome' = [outcome EXCEPT ![s] = "complete"]
    /\ stats' = [NewStats(s) EXCEPT !.decoded = DecodedFrames(s),
                                    !.wasted = DecodedFrames(s) - frames[s]]
    /\ Owns(s)
    /\ UNCHANGED <<cfg, frames, played, size, carry, audio>>

\* The decoder raises, which ends the generator: in its first chunk, after it
\* replaced the stats.
DecodeFails(s) ==
    /\ Live(s)
    /\ Position(s) < frames[s]
    /\ Captured(s)
    /\ outcome' = [outcome EXCEPT ![s] = "failed"]
    /\ stats' = NewStats(s)
    /\ Owns(s)
    /\ UNCHANGED <<cfg, frames, played, size, carry, audio>>

\* The caller drops a suspended generator.
Close(s) ==
    /\ outcome[s] = "streaming"
    /\ outcome' = [outcome EXCEPT ![s] = "failed"]
    /\ UNCHANGED <<cfg, decoder, frames, played, size, carry, audio, stats, owner, mixed>>

Next ==
    \E s \in Streams :
      CaptureFails(s) \/ NextChunk(s) \/ Exhaust(s) \/ DecodeFails(s) \/ Close(s)

Spec == Init /\ [][Next]_vars
-----------------------------------------------------------------------------
(* Properties. *)

Sample == [at : Nat, exact : BOOLEAN]

\* Every variable stays in its type.
TypeOK ==
    /\ cfg \in Configs /\ decoder \in {"real", "stub"}
    /\ frames \in [Streams -> Lengths]
    /\ played \in [Streams -> Seq(Nat \X Nat)]
    /\ size \in [Streams -> 1..MaxFrames]
    /\ carry \in [Streams -> Seq(Sample)]
    /\ audio \in [Streams -> Seq(SUBSET Sample)]
    /\ outcome \in [Streams -> {"new", "streaming", "complete", "failed"}]
    /\ stats \in [chunks : Nat, samples : Nat, decoded : Nat, wasted : Nat]
    /\ owner \in Streams \union {none} /\ mixed \in BOOLEAN

\* The context that makes the tail of a chunk exact too: what the crossfade
\* reaches into, and the receptive field beyond it.
ContextNeeded == Receptive + (CrossfadeSamples + Hop - 1) \div Hop

\* The samples inside the crossfades of a stream, if they are too loud there.
Faded(s) ==
    IF cfg.shape = "linear" THEN {}
    ELSE UNION {LET seam == played[s][j][1] * Hop
                IN  (seam + 2)..(seam + CrossfadeSamples - 1) : j \in 2..Len(played[s])}

\* With enough context, the chunks put together are the single-pass decode of
\* the same latents (decode_full), sample for sample, those mixed by a linear
\* crossfade included: no seam.  An equal-power crossfade spoils the samples
\* inside it and no other.  This holds whatever the other generators of the
\* synthesizer did, failed captures among them.
NoSeam ==
    cfg.overlap >= ContextNeeded =>
      \A s \in Streams :
        LET full == DecodeFull(frames[s]) IN
        \A k \in 1..Len(audio[s]) :
          k \notin Faded(s) => k \in 1..Len(full) /\ audio[s][k] = full[k]

\* The stats read after a stream has ended are that stream's, when no suspended
\* generator of the same synthesizer was resumed meanwhile: its chunks, its
\* samples, and a wasted fraction of at least 0 and below 1.
StatsOfTheStream ==
    (owner # none /\ ~mixed /\ outcome[owner] = "complete") =>
      /\ stats.chunks = Len(played[owner])
      /\ stats.samples = Len(audio[owner])
      /\ stats.wasted <= stats.decoded
      /\ stats.decoded > 0 => stats.wasted < stats.decoded

\* Whatever the context, every output sample is where it belongs: what is
\* mixed is the same instant decoded twice, and a chunk's audio starts where the
\* previous one's ended.  Every variable is in its type, the stats included.
Aligned ==
    /\ TypeOK
    /\ StatsOfTheStream
    /\ \A s \in Streams :
        /\ Len(audio[s]) = Position(s) * Hop
        /\ \A k \in 1..Len(audio[s]) : \A x \in audio[s][k] : x.at = k - 1

\* seam_positions, which the artifact measurements look at, names exactly the
\* samples at which the chunks of a complete stream meet.
SeamsWhereTold ==
    \A s \in Streams :
      outcome[s] = "complete" =>
        SeamPositions(frames[s])
          = {played[s][k][2] * Hop : k \in 1..(Len(played[s]) - 1)}

Promise == INSTANCE AudioStream
             WITH Requests <- Streams, frames <- frames, played <- played,
                  lost <- [s \in Streams |-> {}],
                  outcome <- [s \in Streams |->
                                IF outcome[s] = "new" THEN "streaming" ELSE outcome[s]]

\* A generator keeps the same promise as the streaming backend: the utterance
\* in order and without gaps, complete only when whole.
KeepsPromise == Promise!Spec
=============================================================================
