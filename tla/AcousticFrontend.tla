-------------------------- MODULE AcousticFrontend --------------------------
(***************************************************************************)
(* The front half of VITS as the server computes it, one fused batch at a  *)
(* time (_batched in model_repo/vits_frontend/1/model.py and TRTFrontend   *)
(* in streaming/trt_frontend.py), as operators.                            *)
(*                                                                         *)
(* A request is one row: the duration of each of its tokens and its        *)
(* attention mask.  A latent frame is abstracted to the token it is        *)
(* aligned with and to whether the flow saw anything but real frames and   *)
(* silence around it.                                                      *)
(***************************************************************************)
EXTENDS Integers, Sequences, SequencesExt

CONSTANTS
    MaxFrames,   \* TRTFrontend.max_frames
    MinFrames,   \* TRTFrontend.min_frames
    TokenProfile, FrameProfile, BatchProfile,  \* what the engines were built for
    Reach        \* external: how far the flow's convolutions reach, in frames

ASSUME FramesAssumption == MaxFrames \in Nat \ {0} /\ MinFrames \in Nat /\ Reach \in Nat
ASSUME ProfileAssumption ==
    TokenProfile \subseteq Nat /\ FrameProfile \subseteq Nat /\ BatchProfile \subseteq Nat

Silence == [token |-> 0, clean |-> TRUE]
Noise   == -1

LongestOf(ns) == CHOOSE n \in ToSet(ns) : \A m \in ToSet(ns) : m <= n

\* pad() in _batched: zeros on the right.
PadTo(row, n) == row \o [j \in 1..(n - Len(row)) |-> 0]
-----------------------------------------------------------------------------
(* TRTFrontend.__call__ on one row of a batch.  A row is [duration, mask],  *)
(* padded to the longest of the batch.                                      *)

\* duration: clamped, rounded up, and none for a token that is masked.
Durations(row) == [j \in DOMAIN row.duration |-> row.mask[j] * row.duration[j]]

\* The alignment: each token repeated for its duration, frame after frame.
Alignment(row) ==
    FlattenSeq([j \in DOMAIN row.duration |-> [k \in 1..Durations(row)[j] |-> j]])

\* predicted_lengths: the sum of the durations, at least 1, at most max_frames.
PredictedLength(row) ==
    LET sum == Len(Alignment(row))
    IN  IF sum < 1 THEN 1 ELSE IF sum > MaxFrames THEN MaxFrames ELSE sum

\* Faulty Prior: z_p is not multiplied by the padding mask.
PriorUnmasked(row, T) ==
    LET said == SubSeq(Alignment(row), 1, PredictedLength(row))
    IN  said \o [k \in 1..(T - Len(said)) |-> Noise]

\* z_p: a frame's token, noise where no token is, silence past the row's own
\* length.
Prior(row, T) ==
    LET len  == PredictedLength(row)
        said == SubSeq(Alignment(row), 1, len)
    IN  said \o [k \in 1..(len - Len(said)) |-> Noise] \o [k \in 1..(T - len) |-> 0]

\* The flow, on z_p padded with silence up to the profile's minimum, trimmed
\* back to T, and masked.
Latents(row, T) ==
    LET z   == Prior(row, T)
        len == PredictedLength(row)
        clean(k) == \A m \in (k - Reach)..(k + Reach) : m \in 1..T => z[m] # Noise
    IN  [k \in 1..len |-> [token |-> z[k], clean |-> clean(k)]]
          \o [k \in 1..(T - len) |-> Silence]

\* T: the batch is built at its longest row.
BatchLength(rows) == LongestOf([i \in 1..Len(rows) |-> PredictedLength(rows[i])])

\* Does every engine accept the shapes it is given?  TRTRunner raises when
\* set_input_shape says no.
InProfile(rows) ==
    /\ Len(rows) \in BatchProfile
    /\ Len(rows[1].duration) \in TokenProfile
    /\ (IF BatchLength(rows) > MinFrames THEN BatchLength(rows) ELSE MinFrames) \in FrameProfile
-----------------------------------------------------------------------------
(* _batched *)

\* The requests' rows, padded to the longest and put under each other.
Rows(requests) ==
    LET smax == LongestOf([i \in 1..Len(requests) |-> Len(requests[i].duration)])
    IN  [i \in 1..Len(requests) |->
           [duration |-> PadTo(requests[i].duration, smax),
            mask     |-> PadTo(requests[i].mask, smax)]]

\* The frames up to the last that is not zero; all of them if there is none.
Trimmed(latents) ==
    LET sounding == {k \in 1..Len(latents) : latents[k] # Silence}
    IN  IF sounding = {} THEN latents
        ELSE SubSeq(latents, 1, CHOOSE k \in sounding : \A l \in sounding : l <= k)

\* Response i is row i of the output.
Answer(requests, i) ==
    LET rows == Rows(requests)
    IN  Trimmed(Latents(rows[i], BatchLength(rows)))

\* External: the PyTorch fallback (capture_latents on the same rows), which has
\* no profile and no cap.
TorchAnswer(requests, i) ==
    LET said == Alignment(Rows(requests)[i])
    IN  [k \in 1..Len(said) |-> [token |-> said[k], clean |-> TRUE]]
=============================================================================
