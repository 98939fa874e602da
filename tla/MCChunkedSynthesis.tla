------------------------- MODULE MCChunkedSynthesis -------------------------
(* Small instances of ChunkedSynthesis for TLC. *)
EXTENDS ChunkedSynthesis

CONSTANTS s1, s2

MCStreams == {s1, s2}

\* One frame of receptive field and samples in twos.  The overlap is absent,
\* just the receptive field, or enough for the crossfade; the crossfade is
\* absent, inside the context, or to be clamped; growth is 1, 3/2 or 2, and
\* the chunks are of one frame, of half frames to be rounded, or already at the
\* maximum.  Both shapes get a crossfade that has an inside and enough context.
Config(first, max, num, den, overlap, crossfade, shape) ==
    [first |-> first, max |-> max, growthNum |-> num, growthDen |-> den,
     overlap |-> overlap, crossfade |-> crossfade, shape |-> shape]

MCConfigs ==
    {Config(1, 5, 1, 1, 0, 3, "linear"), Config(3, 6, 3, 2, 1, 0, "linear"),
     Config(2, 6, 2, 1, 2, 2, "equal_power"), Config(4, 2, 2, 1, 1, 9, "linear"),
     Config(2, 7, 1, 1, 3, 4, "linear"), Config(2, 7, 1, 1, 3, 4, "equal_power"),
     Config(0, 4, 2, 1, 2, 1, "linear")}
=============================================================================
