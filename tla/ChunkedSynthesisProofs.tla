------------------------ MODULE ChunkedSynthesisProofs ------------------------
(***************************************************************************)
(* Proofs, for any configurations, utterances and number of generators, of *)
(* what the chunks of ChunkedSynthesis are put together to.                *)
(***************************************************************************)
EXTENDS ChunkedSynthesis, SequenceTheorems, WellFoundedInduction, TLAPS

Outcomes == {"new", "streaming", "complete", "failed"}

\* The plan of each generator: chunks of at least one frame, up to a position
\* within the utterance.
PlanOK ==
    /\ cfg \in Configs
    /\ frames \in [Streams -> Nat]
    /\ played \in [Streams -> Seq(Nat \X Nat)]
    /\ size \in [Streams -> Nat \ {0}]
    /\ outcome \in [Streams -> Outcomes]
    /\ \A s \in Streams : Position(s) \in 0..frames[s]
    /\ \A s \in Streams : outcome[s] = "new" => played[s] = <<>>

LEMMA Config ==
    ASSUME cfg \in Configs
    PROVE  /\ cfg.first \in Nat /\ cfg.max \in Nat /\ cfg.overlap \in Nat
           /\ cfg.crossfade \in Nat /\ cfg.growthNum \in Nat /\ cfg.growthDen \in Nat \ {0}
           /\ cfg.shape \in {"linear", "equal_power"}
           /\ Hop \in Nat /\ Hop > 1 /\ Receptive \in Nat
BY ConfigsAssumption, HopAssumption

LEMMA RoundType ==
    ASSUME NEW n \in Nat, NEW d \in Nat, d > 0
    PROVE  Round(n, d) \in Int
<1>1. n \div d \in Int /\ n % d \in Int
  OBVIOUS
<1> QED BY <1>1 DEF Round

LEMMA SizesType ==
    ASSUME cfg \in Configs
    PROVE  /\ FirstFrames \in Nat \ {0}
           /\ \A s \in Nat \ {0} : NextSize(s) \in Nat \ {0}
<1>1. Round(cfg.first, Hop) \in Int /\ Round(cfg.max, Hop) \in Int
  BY Config, RoundType
<1>2. FirstFrames \in Int /\ FirstFrames >= 1
  BY <1>1 DEF FirstFrames, Larger
<1>3. MaxFrames \in Int /\ MaxFrames >= 1
  BY <1>1, <1>2 DEF MaxFrames, Larger
<1>4. ASSUME NEW s \in Nat \ {0} PROVE NextSize(s) \in Nat \ {0}
  <2>1. (s * cfg.growthNum) \div cfg.growthDen \in Int
    BY Config
  <2> QED BY <1>3, <2>1 DEF NextSize, Smaller, Larger
<1> QED BY <1>2, <1>4

LEMMA InitPlan == Init => PlanOK
<1> SUFFICES ASSUME Init PROVE PlanOK
  OBVIOUS
<1>1. \A s \in Streams : played[s] = <<>>
  BY DEF Init
<1>2. frames \in [Streams -> Nat]
  BY LengthsAssumption DEF Init
<1>3. size \in [Streams -> Nat \ {0}]
  BY SizesType DEF Init
<1>4. <<>> \in Seq(Nat \X Nat)
  OBVIOUS
<1> QED BY <1>1, <1>2, <1>3, <1>4 DEF Init, PlanOK, Position, Outcomes

\* A chunk starts where the last one ended, has a frame at least and stays
\* within the utterance.
LEMMA ChunkBounds ==
    ASSUME PlanOK, NEW s \in Streams, Position(s) < frames[s]
    PROVE  /\ Position(s) \in Nat /\ frames[s] \in Nat
           /\ Smaller(Position(s) + size[s], frames[s]) \in (Position(s) + 1)..frames[s]
<1>1. Position(s) \in Nat /\ frames[s] \in Nat /\ size[s] \in Nat \ {0}
  BY DEF PlanOK
<1> QED BY <1>1 DEF Smaller

LEMMA NextPlan == PlanOK /\ [Next]_vars => PlanOK'
<1> SUFFICES ASSUME PlanOK, [Next]_vars PROVE PlanOK'
  OBVIOUS
<1>1. ASSUME NEW s \in Streams, NextChunk(s) PROVE PlanOK'
  <2> DEFINE b == Smaller(Position(s) + size[s], frames[s])
  <2>1. Position(s) \in Nat /\ frames[s] \in Nat /\ b \in (Position(s) + 1)..frames[s]
    BY <1>1, ChunkBounds DEF NextChunk
  <2>2. /\ played' = [played EXCEPT ![s] = Append(@, <<Position(s), b>>)]
        /\ size' = [size EXCEPT ![s] = NextSize(@)]
        /\ outcome' = [outcome EXCEPT ![s] = "streaming"]
        /\ cfg' = cfg /\ frames' = frames
    BY <1>1 DEF NextChunk
  <2> HIDE DEF b
  <2>3. NextSize(size[s]) \in Nat \ {0}
    BY SizesType DEF PlanOK
  <2>4. played[s] \in Seq(Nat \X Nat) /\ <<Position(s), b>> \in Nat \X Nat
    BY <2>1 DEF PlanOK
  <2>5. /\ Append(played[s], <<Position(s), b>>) \in Seq(Nat \X Nat)
        /\ Append(played[s], <<Position(s), b>>) # <<>>
        /\ Len(Append(played[s], <<Position(s), b>>)) = Len(played[s]) + 1
        /\ Append(played[s], <<Position(s), b>>)[Len(played[s]) + 1] = <<Position(s), b>>
    BY <2>4
  <2>6. /\ played' \in [Streams -> Seq(Nat \X Nat)]
        /\ size' \in [Streams -> Nat \ {0}]
        /\ outcome' \in [Streams -> Outcomes]
    BY <2>2, <2>3, <2>5 DEF PlanOK, Outcomes
  <2>7. Position(s)' = b
    BY <2>2, <2>5 DEF PlanOK, Position
  <2>8. \A t \in Streams : t # s => Position(t)' = Position(t)
    BY <2>2 DEF PlanOK, Position
  <2>9. \A t \in Streams : Position(t)' \in 0..frames'[t]
    <3> TAKE t \in Streams
    <3>1. CASE t = s
      <4>1. b \in 0..frames[s]
        BY <2>1
      <4> QED BY <2>2, <2>7, <3>1, <4>1
    <3>2. CASE t # s
      BY <2>2, <2>8, <3>2 DEF PlanOK
    <3> QED BY <3>1, <3>2
  <2>10. \A t \in Streams : outcome'[t] = "new" => played'[t] = <<>>
    BY <2>2 DEF PlanOK
  <2> QED BY <2>2, <2>6, <2>9, <2>10 DEF PlanOK
<1>2. ASSUME NEW s \in Streams,
             CaptureFails(s) \/ Exhaust(s) \/ DecodeFails(s) \/ Close(s)
      PROVE  PlanOK'
  <2>1. /\ UNCHANGED <<cfg, frames, played, size>>
        /\ \E o \in Outcomes \ {"new"} : outcome' = [outcome EXCEPT ![s] = o]
    BY <1>2 DEF CaptureFails, Exhaust, DecodeFails, Close, Outcomes
  <2>2. outcome' \in [Streams -> Outcomes]
    BY <2>1 DEF PlanOK
  <2>3. \A t \in Streams : outcome'[t] = "new" => outcome[t] = "new"
    BY <2>1 DEF PlanOK
  <2> QED BY <2>1, <2>2, <2>3 DEF PlanOK, Position
<1>3. CASE UNCHANGED vars
  BY <1>3 DEF vars, streamVars, PlanOK, Position
<1> QED BY <1>1, <1>2, <1>3 DEF Next

LEMMA PlanAlways == Spec => []PlanOK
BY InitPlan, NextPlan, PTL DEF Spec
-----------------------------------------------------------------------------
(* The refinement. *)

\* The outcome as AudioStream knows it.
Heard == [s \in Streams |-> IF outcome[s] = "new" THEN "streaming" ELSE outcome[s]]

LEMMA PromiseInit == Init => Promise!Init
<1> SUFFICES ASSUME Init PROVE Promise!Init
  OBVIOUS
<1>1. frames \in [Streams -> Int]
  <2>1. Lengths \subseteq Int
    BY LengthsAssumption
  <2> QED BY <2>1 DEF Init
<1> QED BY <1>1 DEF Init, Promise!Init

LEMMA PromiseStep == PlanOK /\ [Next]_vars => [Promise!Next]_(Promise!vars)
<1> SUFFICES ASSUME PlanOK, [Next]_vars PROVE Promise!Next \/ UNCHANGED Promise!vars
  OBVIOUS
<1>1. ASSUME NEW s \in Streams, NextChunk(s) PROVE Promise!Play(s)
  <2> DEFINE b == Smaller(Position(s) + size[s], frames[s])
  <2>1. b \in (Position(s) + 1)..frames[s]
    BY <1>1, ChunkBounds DEF NextChunk
  <2>2. /\ played' = [played EXCEPT ![s] = Append(@, <<Position(s), b>>)]
        /\ outcome' = [outcome EXCEPT ![s] = "streaming"]
        /\ frames' = frames /\ outcome[s] \in {"new", "streaming"}
    BY <1>1 DEF NextChunk, Live
  <2> HIDE DEF b
  <2>3. Position(s) \in Promise!Starts(s)
    <3>1. Promise!Position(s) = Position(s)
      BY DEF Promise!Position, Position
    <3>2. Position(s) \in Nat /\ frames[s] \in Nat /\ Position(s) <= frames[s]
      BY <2>1 DEF PlanOK
    <3>3. Position(s)..(Position(s) - 1) = {} /\ Position(s) \in Position(s)..frames[s]
      BY <3>2
    <3> QED BY <3>1, <3>3 DEF Promise!Starts
  <2>4. Promise!Deliver(s)
    BY <2>1, <2>2, <2>3 DEF Promise!Deliver
  <2>5. Heard' = Heard /\ Heard[s] = "streaming"
    BY <2>2 DEF Heard, PlanOK
  <2> QED BY <2>2, <2>4, <2>5 DEF Promise!Play, Heard
<1>2. ASSUME NEW s \in Streams, CaptureFails(s) \/ DecodeFails(s) \/ Close(s)
      PROVE  Promise!Fail(s)
  <2>1. /\ UNCHANGED <<frames, played>>
        /\ outcome' = [outcome EXCEPT ![s] = "failed"]
        /\ outcome[s] \in {"new", "streaming"}
    BY <1>2 DEF CaptureFails, DecodeFails, Close, Live
  <2>2. Heard[s] = "streaming" /\ Heard' = [Heard EXCEPT ![s] = "failed"]
    BY <2>1 DEF Heard, PlanOK
  <2> QED BY <2>1, <2>2 DEF Promise!Fail, Promise!Ends, Heard
<1>3. ASSUME NEW s \in Streams, Exhaust(s) PROVE Promise!Complete(s)
  <2>1. /\ UNCHANGED <<frames, played>>
        /\ outcome' = [outcome EXCEPT ![s] = "complete"]
        /\ outcome[s] \in {"new", "streaming"}
        /\ Promise!Position(s) = frames[s]
    BY <1>3 DEF Exhaust, Live, Position, Promise!Position
  <2>2. Heard[s] = "streaming" /\ Heard' = [Heard EXCEPT ![s] = "complete"]
    BY <2>1 DEF Heard, PlanOK
  <2> QED BY <2>1, <2>2 DEF Promise!Complete, Promise!Ends, Heard
<1>4. CASE UNCHANGED vars
  BY <1>4 DEF vars, streamVars, Promise!vars
<1> QED BY <1>1, <1>2, <1>3, <1>4 DEF Next, Promise!Next

\* A generator of ChunkedSynthesizer.stream keeps the promise of AudioStream:
\* the utterance in order and without gaps, complete only when whole, whatever
\* fails and whatever the other generators do (KeepsPromise).
THEOREM Refinement == Spec => KeepsPromise
<1>1. Init => Promise!Init
  BY PromiseInit
<1>2. PlanOK /\ [Next]_vars => [Promise!Next]_(Promise!vars)
  BY PromiseStep
<1> QED BY <1>1, <1>2, PlanAlways, PTL DEF Spec, KeepsPromise, Promise!Spec
-----------------------------------------------------------------------------
(* Frames and samples. *)

LEMMA MulMono ==
    ASSUME NEW x \in Int, NEW y \in Int, x <= y
    PROVE  x * Hop \in Int /\ y * Hop \in Int /\ x * Hop <= y * Hop
BY HopAssumption, SMTT(30)

\* x frames and then y frames are x + y frames.
LEMMA MulSum ==
    ASSUME NEW x \in Int, NEW y \in Int
    PROVE  /\ x * Hop \in Int /\ y * Hop \in Int
           /\ (y - x) * Hop = y * Hop - x * Hop
           /\ (x + y) * Hop = x * Hop + y * Hop
BY HopAssumption, SMTT(30)

\* The frame of a sample.
LEMMA FrameOf ==
    ASSUME NEW n \in Nat, NEW x \in Nat, NEW y \in Nat, x * Hop <= n, n < y * Hop
    PROVE  n \div Hop \in x..(y - 1)
<1> DEFINE q == n \div Hop
<1>1. q \in Int /\ q * Hop <= n /\ n < q * Hop + Hop
  BY HopAssumption, SMTT(30)
<1>2. (q + 1) * Hop = q * Hop + Hop
  BY HopAssumption, <1>1, SMTT(30)
<1> HIDE DEF q
<1>3. q >= x
  <2> SUFFICES ASSUME q < x PROVE FALSE
    BY <1>1
  <2>1. q + 1 <= x
    BY <1>1
  <2>2. (q + 1) * Hop <= x * Hop
    BY <1>1, <2>1, MulMono
  <2>3. x * Hop \in Int /\ q * Hop \in Int
    BY <1>1, MulMono
  <2> QED BY HopAssumption, <1>1, <1>2, <2>2, <2>3
<1>4. q < y
  <2> SUFFICES ASSUME y <= q PROVE FALSE
    BY <1>1
  <2>1. y * Hop <= q * Hop /\ y * Hop \in Int /\ q * Hop \in Int
    BY <1>1, MulMono
  <2> QED BY <1>1, <2>1
<1>5. q \in x..(y - 1)
  BY <1>1, <1>3, <1>4
<1> QED BY <1>5 DEF q

\* The frames that hold x samples.
Ceil(x) == (x + Hop - 1) \div Hop

LEMMA CeilHolds ==
    ASSUME NEW x \in Nat
    PROVE  Ceil(x) \in Nat /\ x <= Ceil(x) * Hop /\ Ceil(x) * Hop \in Int
<1> DEFINE n == x + Hop - 1
<1>1. n \in Nat
  BY HopAssumption
<1>2. n \div Hop \in Nat /\ n < (n \div Hop) * Hop + Hop /\ (n \div Hop) * Hop \in Int
  BY <1>1, HopAssumption, SMTT(30)
<1> QED BY <1>1, <1>2, HopAssumption DEF Ceil

LEMMA CrossfadeType ==
    ASSUME cfg \in Configs
    PROVE  CrossfadeSamples \in Nat
<1>1. cfg.overlap * Hop \in Nat
  BY Config, SMTT(30)
<1> QED BY <1>1, Config DEF CrossfadeSamples, Smaller
-----------------------------------------------------------------------------
(* The operators on samples. *)

Enough == cfg.overlap >= ContextNeeded

\* The sample belongs at n, and with enough context is what the single-pass
\* decode gives there.
Right(x, n) == x \in Sample /\ x.at = n /\ (Enough => x.exact)

LEMMA SliceFacts ==
    ASSUME NEW S, NEW wav \in Seq(S), NEW from \in Nat, NEW to \in Nat,
           from <= to, from <= Len(wav)
    PROVE  /\ Slice(wav, from, to) \in Seq(S)
           /\ Len(Slice(wav, from, to)) = Smaller(to, Len(wav)) - from
           /\ \A k \in 1..Len(Slice(wav, from, to)) :
                /\ from + k \in 1..Len(wav) /\ from + k <= to
                /\ Slice(wav, from, to)[k] = wav[from + k]
<1> DEFINE m == Smaller(to, Len(wav))
<1>1. m \in Nat /\ from <= m /\ m <= Len(wav) /\ m <= to
  BY DEF Smaller
<1> HIDE DEF m
<1>2. \A i \in (from + 1)..m : wav[i] \in S
  BY <1>1
<1>3. /\ SubSeq(wav, from + 1, m) \in Seq(S)
      /\ Len(SubSeq(wav, from + 1, m)) = m - from
      /\ \A k \in 1..(m - from) : SubSeq(wav, from + 1, m)[k] = wav[from + k]
  <2>1. from + 1 \in Int /\ m \in Int
    BY <1>1
  <2>2. /\ SubSeq(wav, from + 1, m) \in Seq(S)
        /\ Len(SubSeq(wav, from + 1, m)) = IF from + 1 <= m THEN m - (from + 1) + 1 ELSE 0
        /\ \A i \in 1..(m - (from + 1) + 1) :
             SubSeq(wav, from + 1, m)[i] = wav[from + 1 + i - 1]
    BY <1>2, <2>1, SubSeqProperties
  <2> QED BY <1>1, <2>2
<1>4. Slice(wav, from, to) = SubSeq(wav, from + 1, m)
  BY DEF Slice, m
<1> QED BY <1>1, <1>3, <1>4 DEF m

LEMMA DecodeFacts ==
    ASSUME decoder = "real", NEW lo \in Nat, NEW hi \in Nat, NEW total \in Nat, lo <= hi
    PROVE  /\ Decode(lo, hi, total) \in Seq(Sample)
           /\ Len(Decode(lo, hi, total)) = (hi - lo) * Hop
           /\ \A k \in 1..((hi - lo) * Hop) :
                /\ Decode(lo, hi, total)[k].at = lo * Hop + k - 1
                /\ Decode(lo, hi, total)[k].exact =
                     (/\ lo <= Larger(0, ((lo * Hop + k - 1) \div Hop) - Receptive)
                      /\ Smaller(total, ((lo * Hop + k - 1) \div Hop) + Receptive + 1) <= hi)
<1> DEFINE len == (hi - lo) * Hop
           Here(k) == [at |-> lo * Hop + k - 1,
                       exact |-> /\ lo <= Larger(0, ((lo * Hop + k - 1) \div Hop) - Receptive)
                                 /\ Smaller(total, ((lo * Hop + k - 1) \div Hop) + Receptive + 1) <= hi]
<1>1. len \in Nat /\ lo * Hop \in Nat
  BY HopAssumption, SMTT(30)
<1>2. Decode(lo, hi, total) = [k \in 1..len |-> Here(k)]
  BY DEF Decode
<1>3. ASSUME NEW k \in 1..len PROVE Here(k) \in Sample
  <2>1. lo * Hop + k - 1 \in Nat
    BY <1>1
  <2>2. Here(k).exact \in BOOLEAN
    BY Zenon
  <2> HIDE DEF len
  <2> QED BY <2>1, <2>2 DEF Sample
<1>4. \A k \in 1..len :
        /\ Here(k).at = lo * Hop + k - 1
        /\ Here(k).exact = (/\ lo <= Larger(0, ((lo * Hop + k - 1) \div Hop) - Receptive)
                            /\ Smaller(total, ((lo * Hop + k - 1) \div Hop) + Receptive + 1) <= hi)
  BY Zenon
<1> HIDE DEF len, Here
<1>5. Decode(lo, hi, total) \in Seq(Sample) /\ Len(Decode(lo, hi, total)) = len
  BY <1>1, <1>2, <1>3
<1>6. \A k \in 1..len : Decode(lo, hi, total)[k] = Here(k)
  BY <1>2
<1>7. \A k \in 1..len :
        /\ Decode(lo, hi, total)[k].at = lo * Hop + k - 1
        /\ Decode(lo, hi, total)[k].exact =
             (/\ lo <= Larger(0, ((lo * Hop + k - 1) \div Hop) - Receptive)
              /\ Smaller(total, ((lo * Hop + k - 1) \div Hop) + Receptive + 1) <= hi)
  BY <1>4, <1>6, Zenon
<1> QED BY <1>5, <1>7, Zenon DEF len

\* What an output sample is mixed from.
Mix(tail, body, k) ==
    IF k > Len(tail) THEN {body[k]}
    ELSE IF AddUp(k) THEN {tail[k], body[k]}
    ELSE {Louder(tail[k]), Louder(body[k])}

LEMMA LouderType ==
    ASSUME NEW x \in Sample
    PROVE  Louder(x) \in Sample /\ Louder(x).at = x.at
BY DEF Louder, Sample

LEMMA BlendFacts ==
    ASSUME NEW tail \in Seq(Sample), NEW body \in Seq(Sample)
    PROVE  /\ Blend(tail, body) \in Seq(SUBSET Sample)
           /\ Len(Blend(tail, body)) = Len(body)
           /\ \A k \in 1..Len(body) : Blend(tail, body)[k] = Mix(tail, body, k)
<1>1. ASSUME NEW k \in 1..Len(body) PROVE Mix(tail, body, k) \in SUBSET Sample
  <2>1. body[k] \in Sample
    OBVIOUS
  <2>2. Len(tail) \in Nat /\ k \in Nat /\ k >= 1
    OBVIOUS
  <2>3. CASE k > Len(tail)
    BY <2>1, <2>3 DEF Mix
  <2>4. CASE ~(k > Len(tail))
    <3>1. k \in 1..Len(tail)
      BY <2>2, <2>4
    <3>2. tail[k] \in Sample
      BY <3>1
    <3> QED BY <2>1, <2>4, <3>2, LouderType, Zenon DEF Mix
  <2> QED BY <2>3, <2>4
<1>2. Blend(tail, body) = [k \in 1..Len(body) |-> Mix(tail, body, k)]
  BY DEF Blend, Mix
<1>3. Len(body) \in Nat
  OBVIOUS
<1> QED BY <1>1, <1>2, <1>3
-----------------------------------------------------------------------------
(* One chunk. *)

LEMMA WindowBounds ==
    ASSUME cfg \in Configs, NEW a \in Nat, NEW b \in Nat, NEW total \in Nat, a < b, b <= total
    PROVE  Lo(a) \in 0..a /\ Hi(b, total) \in b..total
BY Config DEF Lo, Hi, Larger, Smaller

\* With enough context the window of the chunk [a, b) holds all that the samples
\* of frame f depend on, up to the end of the crossfade.
LEMMA WindowReaches ==
    ASSUME cfg \in Configs, Enough,
           NEW a \in Nat, NEW b \in Nat, NEW total \in Nat,
           NEW f \in Nat, a <= f, f < b + Ceil(CrossfadeSamples)
    PROVE  /\ Lo(a) <= Larger(0, f - Receptive)
           /\ Smaller(total, f + Receptive + 1) <= Hi(b, total)
<1>1. /\ Ceil(CrossfadeSamples) \in Nat /\ cfg.overlap \in Nat /\ Receptive \in Nat
      /\ cfg.overlap >= Receptive + Ceil(CrossfadeSamples)
  BY CrossfadeType, CeilHolds, Config DEF Enough, ContextNeeded, Ceil
<1> QED BY <1>1 DEF Lo, Hi, Larger, Smaller

\* So every sample of the chunk and of the tail behind it is right.
LEMMA WindowRight ==
    ASSUME cfg \in Configs, decoder = "real",
           NEW a \in Nat, NEW b \in Nat, NEW total \in Nat, a < b, b <= total,
           NEW n \in Nat, a * Hop <= n, n < b * Hop + CrossfadeSamples,
           n < Hi(b, total) * Hop
    PROVE  Right(Decode(Lo(a), Hi(b, total), total)[n - Lo(a) * Hop + 1], n)
<1> DEFINE lo == Lo(a)
           hi == Hi(b, total)
           X == CrossfadeSamples
           C == Ceil(CrossfadeSamples)
           wav == Decode(lo, hi, total)
           k == n - lo * Hop + 1
           f == n \div Hop
<1>1. lo \in 0..a /\ hi \in b..total
  BY WindowBounds
<1>2. X \in Nat /\ C \in Nat /\ X <= C * Hop
  BY CrossfadeType, CeilHolds
<1>3. n < b * Hop + X /\ n < hi * Hop
  OBVIOUS
<1> HIDE DEF lo, hi, X, C
<1>4. /\ a * Hop \in Int /\ b * Hop \in Int /\ lo * Hop \in Int /\ hi * Hop \in Int
      /\ C * Hop \in Int /\ lo * Hop <= a * Hop
      /\ (hi - lo) * Hop = hi * Hop - lo * Hop
      /\ (b + C) * Hop = b * Hop + C * Hop
  <2>1. lo \in Int /\ hi \in Int /\ a \in Int /\ b \in Int /\ C \in Int /\ lo <= a
    BY <1>1, <1>2
  <2>2. lo * Hop <= a * Hop /\ a * Hop \in Int /\ lo * Hop \in Int
    BY <2>1, MulMono
  <2>3. (hi - lo) * Hop = hi * Hop - lo * Hop /\ hi * Hop \in Int
    BY <2>1, MulSum, Zenon
  <2>4. (b + C) * Hop = b * Hop + C * Hop /\ b * Hop \in Int /\ C * Hop \in Int
    BY <2>1, MulSum, Zenon
  <2> QED BY <2>2, <2>3, <2>4
<1>5. k \in 1..((hi - lo) * Hop) /\ lo * Hop + k - 1 = n
  BY <1>3, <1>4
<1>6. f \in a..((b + C) - 1)
  <2>1. n < (b + C) * Hop /\ b + C \in Nat
    BY <1>2, <1>3, <1>4
  <2> QED BY <2>1, FrameOf, Zenon
<1> HIDE DEF k
<1>7. /\ wav \in Seq(Sample) /\ Len(wav) = (hi - lo) * Hop
      /\ wav[k].at = n
      /\ wav[k].exact = (/\ lo <= Larger(0, f - Receptive)
                         /\ Smaller(total, f + Receptive + 1) <= hi)
  <2>1. lo \in Nat /\ hi \in Nat /\ lo <= hi
    BY <1>1
  <2>2. /\ wav \in Seq(Sample) /\ Len(wav) = (hi - lo) * Hop
        /\ wav[k].at = lo * Hop + k - 1
        /\ wav[k].exact =
             (/\ lo <= Larger(0, ((lo * Hop + k - 1) \div Hop) - Receptive)
              /\ Smaller(total, ((lo * Hop + k - 1) \div Hop) + Receptive + 1) <= hi)
    <3>1. /\ wav \in Seq(Sample) /\ Len(wav) = (hi - lo) * Hop
          /\ \A j \in 1..((hi - lo) * Hop) :
               /\ wav[j].at = lo * Hop + j - 1
               /\ wav[j].exact =
                    (/\ lo <= Larger(0, ((lo * Hop + j - 1) \div Hop) - Receptive)
                     /\ Smaller(total, ((lo * Hop + j - 1) \div Hop) + Receptive + 1) <= hi)
      BY <2>1, DecodeFacts, ZenonT(30)
    <3> QED BY <1>5, <3>1, Zenon
  <2> QED BY <1>5, <2>2, Zenon
<1> HIDE DEF f
<1>8. wav[k] \in Sample
  BY <1>5, <1>7
<1>9. Enough => wav[k].exact
  <2> SUFFICES ASSUME Enough PROVE wav[k].exact
    OBVIOUS
  <2>1. f \in Nat /\ a <= f /\ f < b + C
    BY <1>2, <1>6
  <2>2. lo <= Larger(0, f - Receptive) /\ Smaller(total, f + Receptive + 1) <= hi
    BY <2>1, WindowReaches DEF lo, hi, C
  <2> QED BY <1>7, <2>2
<1>10. Right(wav[k], n)
  BY <1>7, <1>8, <1>9 DEF Right
<1> QED BY <1>10 DEF lo, hi, k

\* The samples inside a crossfade at A, if it makes them louder.
Fade(A) == IF cfg.shape = "linear" THEN {} ELSE (A + 1)..(A + CrossfadeSamples - 2)

\* An output sample that belongs at n and is right, unless it is one of off.
Fine(x, n, off) == x \in Sample /\ x.at = n /\ (Enough /\ n \notin off => x.exact)

\* out is a sequence of samples for [A, B), right but for those in off, and tail
\* one of right samples from B on.
OutRight(out, A, B, off) ==
    /\ out \in Seq(SUBSET Sample) /\ Len(out) = B - A
    /\ \A k \in 1..Len(out) : out[k] # {} /\ \A x \in out[k] : Fine(x, A + (k - 1), off)

TailRight(tail, B) ==
    /\ tail \in Seq(Sample) /\ Len(tail) <= CrossfadeSamples
    /\ \A k \in 1..Len(tail) : Right(tail[k], B + (k - 1))

\* The chunk that comes after tail has a crossfade if there is a tail.
FadeAfter(tail, A) == IF tail = <<>> THEN {} ELSE Fade(A)

WellCut(A, B, L, X, wav, tail) ==
    /\ OutRight(Blend(tail, Slice(wav, A - L, B - L)), A, B, FadeAfter(tail, A))
    /\ TailRight(Slice(wav, B - L, (B - L) + X), B)

\* What a chunk is cut into, in samples: the window holds [L, H), the chunk is
\* [A, B), and tail is what the chunk before it kept.
LEMMA Cut ==
    ASSUME NEW A \in Int, NEW B \in Int, NEW L \in Int, NEW H \in Int, NEW X \in Nat,
           X = CrossfadeSamples,
           0 <= L, L <= A, A <= B, B <= H,
           NEW wav \in Seq(Sample), Len(wav) = H - L,
           \A n \in Nat : A <= n /\ n < B + X /\ n < H => Right(wav[n - L + 1], n),
           NEW tail, TailRight(tail, A)
    PROVE  WellCut(A, B, L, X, wav, tail)
<1> DEFINE start == A - L
           bodyEnd == B - L
           body == Slice(wav, start, bodyEnd)
           out == Blend(tail, body)
           next == Slice(wav, bodyEnd, bodyEnd + X)
<1>1. /\ body \in Seq(Sample) /\ Len(body) = B - A
      /\ \A k \in 1..Len(body) : Right(body[k], A + (k - 1))
  <2>1. start \in Nat /\ bodyEnd \in Nat /\ start <= bodyEnd /\ start <= Len(wav)
        /\ Smaller(bodyEnd, Len(wav)) = bodyEnd
    BY DEF Smaller
  <2>2. /\ body \in Seq(Sample) /\ Len(body) = Smaller(bodyEnd, Len(wav)) - start
        /\ \A k \in 1..Len(body) : body[k] = wav[start + k]
    <3> HIDE DEF start, bodyEnd
    <3> QED BY <2>1, SliceFacts, ZenonT(60)
  <2> HIDE DEF body
  <2>3. ASSUME NEW k \in 1..Len(body) PROVE Right(body[k], A + (k - 1))
    <3> DEFINE n == A + (k - 1)
    <3>1. n \in Nat /\ A <= n /\ n < B + X /\ n < H /\ n - L + 1 = start + k
      <4>1. k \in Nat /\ 1 <= k /\ k <= B - A
        BY <2>1, <2>2
      <4> QED BY <4>1, SMTT(30)
    <3> HIDE DEF n
    <3>2. Right(wav[n - L + 1], n)
      BY <3>1, Zenon
    <3>3. Right(body[k], n)
      BY <2>2, <3>1, <3>2, Zenon
    <3> QED BY <3>3 DEF n
  <2> QED BY <2>1, <2>2, <2>3
<1>2. /\ next \in Seq(Sample) /\ Len(next) <= X
      /\ \A k \in 1..Len(next) : Right(next[k], B + (k - 1))
  <2>1. bodyEnd \in Nat /\ bodyEnd + X \in Nat /\ bodyEnd <= bodyEnd + X /\ bodyEnd <= Len(wav)
    OBVIOUS
  <2>2. /\ next \in Seq(Sample)
        /\ \A k \in 1..Len(next) :
             /\ bodyEnd + k \in 1..Len(wav) /\ bodyEnd + k <= bodyEnd + X
             /\ next[k] = wav[bodyEnd + k]
    BY <2>1, SliceFacts
  <2> HIDE DEF next
  <2>3. ASSUME NEW k \in 1..Len(next) PROVE Right(next[k], B + (k - 1))
    <3> DEFINE n == B + (k - 1)
    <3>1. n \in Nat /\ A <= n /\ n < B + X /\ n < H /\ n - L + 1 = bodyEnd + k
      <4>1. k \in Nat /\ 1 <= k /\ k <= X /\ B + k <= H
        BY <2>2
      <4> QED BY <4>1, SMTT(30)
    <3> HIDE DEF n
    <3>2. Right(wav[n - L + 1], n)
      BY <3>1, Zenon
    <3>3. Right(next[k], n)
      BY <2>2, <3>1, <3>2, Zenon
    <3> QED BY <3>3 DEF n
  <2> QED BY <2>2, <2>3
<1>3. /\ out \in Seq(SUBSET Sample) /\ Len(out) = Len(body)
      /\ \A k \in 1..Len(body) : out[k] = Mix(tail, body, k)
  BY <1>1, BlendFacts, Zenon DEF TailRight
<1>x. X \in Nat /\ X = CrossfadeSamples
  OBVIOUS
<1> HIDE DEF body, out, next
<1>4. ASSUME NEW k \in 1..Len(out)
      PROVE  /\ out[k] # {}
             /\ \A x \in out[k] : Fine(x, A + (k - 1), FadeAfter(tail, A))
  <2>1. k \in 1..Len(body) /\ Right(body[k], A + (k - 1))
    BY <1>1, <1>3
  <2>2. tail \in Seq(Sample) /\ Len(tail) \in Nat /\ Len(tail) <= X
    BY <1>x DEF TailRight
  <2>3. CASE k > Len(tail)
    <3>1. out[k] = {body[k]}
      BY <1>3, <2>1, <2>3, Zenon DEF Mix
    <3> QED BY <2>1, <3>1, Zenon DEF Right, Fine
  <2>4. CASE ~(k > Len(tail))
    <3>1. k \in 1..Len(tail) /\ k \in Int /\ k >= 1 /\ k <= X
      BY <2>1, <2>2, <2>4
    <3>2. Right(tail[k], A + (k - 1))
      BY <3>1 DEF TailRight
    <3>3. CASE AddUp(k)
      <4>1. out[k] = {tail[k], body[k]}
        BY <1>3, <2>1, <2>4, <3>3, Zenon DEF Mix
      <4> QED BY <2>1, <3>2, <4>1, Zenon DEF Right, Fine
    <3>4. CASE ~AddUp(k)
      <4>1. out[k] = {Louder(tail[k]), Louder(body[k])}
        BY <1>3, <2>1, <2>4, <3>4, Zenon DEF Mix
      <4>2. /\ Louder(tail[k]) \in Sample /\ Louder(tail[k]).at = A + (k - 1)
            /\ Louder(body[k]) \in Sample /\ Louder(body[k]).at = A + (k - 1)
        BY <2>1, <3>2, LouderType DEF Right
      <4>3. cfg.shape # "linear" /\ k # 1 /\ k # X
        BY <1>x, <3>4 DEF AddUp
      <4>4. A + (k - 1) \in (A + 1)..(A + X - 2)
        BY <3>1, <4>3, <1>x
      <4>5. tail # <<>>
        BY <3>1
      <4>6. A + (k - 1) \in FadeAfter(tail, A)
        BY <1>x, <4>3, <4>4, <4>5, Zenon DEF FadeAfter, Fade
      <4> QED BY <4>1, <4>2, <4>6, Zenon DEF Fine
    <3> QED BY <3>3, <3>4
  <2> QED BY <2>3, <2>4
<1>5. OutRight(out, A, B, FadeAfter(tail, A)) /\ TailRight(next, B)
  BY <1>1, <1>2, <1>3, <1>4, <1>x DEF OutRight, TailRight
<1> QED BY <1>5, Zenon DEF WellCut, out, body, next, start, bodyEnd

\* What NextChunk yields and keeps, of the chunk [a, b).
LEMMA ChunkSamples ==
    ASSUME cfg \in Configs, decoder = "real",
           NEW a \in Nat, NEW b \in Nat, NEW total \in Nat, a < b, b <= total,
           NEW tail, TailRight(tail, a * Hop)
    PROVE  LET wav     == Decode(Lo(a), Hi(b, total), total)
               start   == (a - Lo(a)) * Hop
               bodyEnd == start + (b - a) * Hop
           IN  /\ OutRight(Blend(tail, Slice(wav, start, bodyEnd)), a * Hop, b * Hop,
                           FadeAfter(tail, a * Hop))
               /\ TailRight(Slice(wav, bodyEnd, bodyEnd + CrossfadeSamples), b * Hop)
<1> DEFINE lo == Lo(a)
           hi == Hi(b, total)
           X == CrossfadeSamples
           wav == Decode(lo, hi, total)
           start == (a - lo) * Hop
           bodyEnd == start + (b - a) * Hop
           A == a * Hop
           B == b * Hop
           L == lo * Hop
           H == hi * Hop
<1>1. lo \in 0..a /\ hi \in b..total /\ X \in Nat
  BY WindowBounds, CrossfadeType
<1>2. ASSUME NEW n \in Nat, A <= n, n < B + X, n < H
      PROVE  Right(wav[n - L + 1], n)
  BY <1>2, WindowRight, Zenon
<1>3. wav \in Seq(Sample) /\ Len(wav) = (hi - lo) * Hop
  <2>1. lo \in Nat /\ hi \in Nat /\ lo <= hi
    BY <1>1
  <2> HIDE DEF lo, hi
  <2> QED BY <2>1, DecodeFacts
<1>x. X = CrossfadeSamples
  OBVIOUS
<1> HIDE DEF lo, hi, X, wav
<1>4. /\ A \in Int /\ B \in Int /\ L \in Int /\ H \in Int
      /\ 0 <= L /\ L <= A /\ A <= B /\ B <= H
      /\ start = A - L /\ bodyEnd = B - L /\ Len(wav) = H - L
  <2>1. /\ 0 \in Int /\ lo \in Int /\ hi \in Int /\ a \in Int /\ b \in Int
        /\ 0 <= lo /\ lo <= a /\ a <= b /\ b <= hi
    BY <1>1
  <2>2. /\ 0 * Hop <= L /\ L <= A /\ A <= B /\ B <= H
        /\ A \in Int /\ B \in Int /\ L \in Int /\ H \in Int
    BY <2>1, MulMono, Zenon
  <2>3. 0 * Hop = 0
    BY HopAssumption
  <2>4. (a - lo) * Hop = A - L /\ (b - a) * Hop = B - A /\ (hi - lo) * Hop = H - L
    BY <2>1, MulSum, Zenon
  <2> QED BY <1>3, <2>2, <2>3, <2>4
<1>5. TailRight(tail, A)
  OBVIOUS
<1>6. \A n \in Nat : A <= n /\ n < B + X /\ n < H => Right(wav[n - L + 1], n)
  BY <1>2
<1> HIDE DEF A, B, L, H, start, bodyEnd
<1>7. WellCut(A, B, L, X, wav, tail)
  BY <1>1, <1>3, <1>4, <1>5, <1>6, <1>x, Cut, Zenon
<1>8. /\ OutRight(Blend(tail, Slice(wav, start, bodyEnd)), A, B, FadeAfter(tail, A))
      /\ TailRight(Slice(wav, bodyEnd, bodyEnd + X), B)
  BY <1>4, <1>7, Zenon DEF WellCut
<1> QED BY <1>8, Zenon DEF wav, start, bodyEnd, lo, hi, X, A, B
-----------------------------------------------------------------------------
(* No seam. *)

LEMMA ConcatRight ==
    ASSUME NEW A \in Nat, NEW B \in Nat, A <= B,
           NEW u, NEW p, OutRight(u, 0, A, p), NEW v, NEW q, OutRight(v, A, B, q)
    PROVE  OutRight(u \o v, 0, B, p \union q)
<1>0. \A x, n : Fine(x, n, p) \/ Fine(x, n, q) => Fine(x, n, p \union q)
  BY Zenon DEF Fine
<1>1. /\ u \in Seq(SUBSET Sample) /\ Len(u) = A
      /\ v \in Seq(SUBSET Sample) /\ Len(v) = B - A
  BY DEF OutRight
<1>2. /\ u \o v \in Seq(SUBSET Sample) /\ Len(u \o v) = B
      /\ \A i \in 1..B : (u \o v)[i] = IF i <= A THEN u[i] ELSE v[i - A]
  <2>1. /\ u \o v \in Seq(SUBSET Sample)
        /\ Len(u \o v) = Len(u) + Len(v)
        /\ \A i \in 1..(Len(u) + Len(v)) :
             (u \o v)[i] = IF i <= Len(u) THEN u[i] ELSE v[i - Len(u)]
    BY <1>1, ConcatProperties
  <2>2. Len(u) + Len(v) = B
    BY <1>1
  <2> QED BY <1>1, <2>1, <2>2
<1>3. ASSUME NEW k \in 1..B
      PROVE  /\ (u \o v)[k] # {}
             /\ \A x \in (u \o v)[k] : Fine(x, 0 + (k - 1), p \union q)
  <2>1. CASE k <= A
    <3>1. k \in 1..Len(u) /\ (u \o v)[k] = u[k]
      BY <1>1, <1>2, <2>1
    <3> QED BY <1>0, <3>1, Zenon DEF OutRight
  <2>2. CASE ~(k <= A)
    <3>1. k - A \in 1..Len(v) /\ (u \o v)[k] = v[k - A] /\ A + ((k - A) - 1) = 0 + (k - 1)
      BY <1>1, <1>2, <2>2
    <3>2. /\ v[k - A] # {}
          /\ \A x \in v[k - A] : Fine(x, A + ((k - A) - 1), q)
      BY <3>1, Zenon DEF OutRight
    <3> QED BY <1>0, <3>1, <3>2, Zenon
  <2> QED BY <2>1, <2>2
<1>4. B - 0 = B
  OBVIOUS
<1> QED BY <1>2, <1>3, <1>4, Zenon DEF OutRight

LEMMA MoreOff ==
    ASSUME NEW out, NEW A, NEW B, NEW off, NEW more, off \subseteq more,
           OutRight(out, A, B, off)
    PROVE  OutRight(out, A, B, more)
<1>1. \A x, n : Fine(x, n, off) => Fine(x, n, more)
  BY Zenon DEF Fine
<1> QED BY <1>1, Zenon DEF OutRight

\* The samples of a stream that its crossfades make louder, counted from 0.
FadedAt(s) == UNION {Fade(played[s][j][1] * Hop) : j \in 2..Len(played[s])}

\* What each generator has yielded is right as far as it goes, its crossfades
\* apart, and what it kept is right from there on; the decoder is never left
\* stubbed.
SampleOK ==
    /\ decoder = "real"
    /\ audio \in [Streams -> Seq(SUBSET Sample)]
    /\ carry \in [Streams -> Seq(Sample)]
    /\ \A s \in Streams : OutRight(audio[s], 0, Position(s) * Hop, FadedAt(s))
    /\ \A s \in Streams : TailRight(carry[s], Position(s) * Hop)
    /\ \A s \in Streams : played[s] = <<>> => carry[s] = <<>>

LEMMA InitSamples == Init => SampleOK
<1> SUFFICES ASSUME Init PROVE SampleOK
  OBVIOUS
<1>1. \A s \in Streams : audio[s] = <<>> /\ carry[s] = <<>> /\ Position(s) = 0
  BY DEF Init, Position
<1>2. (\A off : OutRight(<<>>, 0, 0 * Hop, off)) /\ TailRight(<<>>, 0 * Hop)
  <2>1. 0 * Hop = 0
    BY HopAssumption
  <2>2. CrossfadeSamples \in Nat
    BY CrossfadeType DEF Init
  <2> QED BY <2>1, <2>2 DEF OutRight, TailRight
<1>3. audio \in [Streams -> Seq(SUBSET Sample)] /\ carry \in [Streams -> Seq(Sample)]
  BY DEF Init
<1> QED BY <1>1, <1>2, <1>3 DEF SampleOK, Init

LEMMA NextSamples == PlanOK /\ SampleOK /\ [Next]_vars => SampleOK'
<1> SUFFICES ASSUME PlanOK, SampleOK, [Next]_vars PROVE SampleOK'
  OBVIOUS
<1>1. ASSUME UNCHANGED cfg
      PROVE  /\ Enough' <=> Enough
             /\ CrossfadeSamples' = CrossfadeSamples
             /\ \A A : Fade(A)' = Fade(A)
  BY <1>1 DEF Enough, ContextNeeded, CrossfadeSamples, Fade
<1>2. ASSUME NEW s \in Streams, NextChunk(s) PROVE SampleOK'
  <2> DEFINE a == Position(s)
             total == frames[s]
             b == Smaller(a + size[s], total)
             wav == Decode(Lo(a), Hi(b, total), total)
             start == (a - Lo(a)) * Hop
             bodyEnd == start + (b - a) * Hop
             out == Blend(carry[s], Slice(wav, start, bodyEnd))
             next == Slice(wav, bodyEnd, bodyEnd + CrossfadeSamples)
  <2>1. a \in Nat /\ total \in Nat /\ b \in (a + 1)..total
    BY <1>2, ChunkBounds DEF NextChunk
  <2>2. /\ carry' = [carry EXCEPT ![s] = IF b >= total THEN <<>> ELSE next]
        /\ audio' = [audio EXCEPT ![s] = @ \o out]
        /\ played' = [played EXCEPT ![s] = Append(@, <<a, b>>)]
        /\ cfg' = cfg /\ decoder' = decoder
    BY <1>2 DEF NextChunk, Captured, CaptureLatents
  <2>3. /\ OutRight(out, a * Hop, b * Hop, FadeAfter(carry[s], a * Hop))
        /\ TailRight(next, b * Hop)
    <3>1. TailRight(carry[s], a * Hop) /\ decoder = "real" /\ cfg \in Configs
      BY DEF SampleOK, PlanOK
    <3>2. b \in Nat /\ a < b /\ b <= total
      BY <2>1
    <3> HIDE DEF a, b, total
    <3> QED BY <2>1, <3>1, <3>2, ChunkSamples, Zenon
  <2> HIDE DEF b, wav, start, bodyEnd, out, next, total
  <2>4. OutRight(audio[s] \o out, 0, b * Hop, FadedAt(s) \union FadeAfter(carry[s], a * Hop))
    <3>1. a * Hop \in Nat /\ b * Hop \in Nat /\ a * Hop <= b * Hop
      <4>1. a \in Int /\ b \in Int /\ 0 \in Int /\ 0 <= a /\ a <= b
        BY <2>1
      <4>2. 0 * Hop <= a * Hop /\ a * Hop <= b * Hop /\ a * Hop \in Int /\ b * Hop \in Int
        BY <4>1, MulMono, Zenon
      <4>3. 0 * Hop = 0
        BY HopAssumption
      <4> QED BY <4>2, <4>3
    <3>2. OutRight(audio[s], 0, a * Hop, FadedAt(s))
      BY DEF SampleOK
    <3> HIDE DEF a
    <3> QED BY <2>3, <3>1, <3>2, ConcatRight, Zenon
  <2>5. TailRight(IF b >= total THEN <<>> ELSE next, b * Hop)
    <3>1. CrossfadeSamples \in Nat
      BY CrossfadeType DEF PlanOK
    <3>2. TailRight(<<>>, b * Hop)
      BY <3>1 DEF TailRight
    <3> QED BY <2>3, <3>2
  <2>6. Position(s)' = b
    <3>1. played[s] \in Seq(Nat \X Nat) /\ <<a, b>> \in Nat \X Nat
      BY <2>1 DEF PlanOK
    <3>2. /\ Append(played[s], <<a, b>>) # <<>>
          /\ Len(Append(played[s], <<a, b>>)) = Len(played[s]) + 1
          /\ Append(played[s], <<a, b>>)[Len(played[s]) + 1] = <<a, b>>
      BY <3>1
    <3>3. played'[s] = Append(played[s], <<a, b>>)
      BY <2>2 DEF PlanOK
    <3> QED BY <3>2, <3>3 DEF Position
  <2>7. \A t \in Streams : t # s => Position(t)' = Position(t)
    BY <2>2 DEF PlanOK, Position
  <2>p. played'[s] = Append(played[s], <<a, b>>) /\ \A t \in Streams : t # s => played'[t] = played[t]
    BY <2>2 DEF PlanOK
  <2>q. \A A : Fade(A)' = Fade(A)
    BY <1>1, <2>2
  <2>f. FadedAt(s) \union FadeAfter(carry[s], a * Hop) \subseteq FadedAt(s)'
    <3> DEFINE m == Len(played[s])
    <3>1. played[s] \in Seq(Nat \X Nat) /\ <<a, b>> \in Nat \X Nat /\ m \in Nat
      BY <2>1 DEF PlanOK
    <3>2. /\ Len(played'[s]) = m + 1
          /\ played'[s][m + 1] = <<a, b>>
          /\ \A j \in 1..m : played'[s][j] = played[s][j]
      BY <2>p, <3>1
    <3>3. ASSUME NEW x \in FadedAt(s) PROVE x \in FadedAt(s)'
      <4>1. PICK j \in 2..m : x \in Fade(played[s][j][1] * Hop)
        BY DEF FadedAt
      <4>2. j \in 2..Len(played'[s]) /\ played'[s][j] = played[s][j]
        BY <3>1, <3>2
      <4>3. x \in Fade(played[s][j][1] * Hop)'
        BY <2>q, <4>1, <4>2
      <4> QED BY <4>2, <4>3 DEF FadedAt
    <3>4. ASSUME NEW x \in FadeAfter(carry[s], a * Hop) PROVE x \in FadedAt(s)'
      <4>1. carry[s] # <<>> /\ x \in Fade(a * Hop)
        BY DEF FadeAfter
      <4>2. played[s] # <<>>
        BY <4>1 DEF SampleOK
      <4>3. PICK j \in 2..Len(played'[s]) : j = m + 1
        BY <3>1, <3>2, <4>2
      <4>4. played'[s][j][1] = a
        BY <3>2, <4>3
      <4>5. x \in Fade(played[s][j][1] * Hop)'
        <5> HIDE DEF a
        <5> QED BY <2>q, <4>1, <4>4
      <4> QED BY <4>5 DEF FadedAt
    <3> QED BY <3>3, <3>4
  <2>g. \A t \in Streams : t # s => FadedAt(t)' = FadedAt(t)
    BY <2>p, <2>q DEF FadedAt
  <2>8. /\ audio' \in [Streams -> Seq(SUBSET Sample)] /\ carry' \in [Streams -> Seq(Sample)]
        /\ audio'[s] = audio[s] \o out
        /\ carry'[s] = IF b >= total THEN <<>> ELSE next
        /\ \A t \in Streams : t # s => audio'[t] = audio[t] /\ carry'[t] = carry[t]
    <3>1. audio[s] \o out \in Seq(SUBSET Sample)
      BY <2>4 DEF OutRight
    <3>2. (IF b >= total THEN <<>> ELSE next) \in Seq(Sample)
      BY <2>5 DEF TailRight
    <3> QED BY <2>2, <3>1, <3>2 DEF SampleOK
  <2>9. ASSUME NEW t \in Streams
        PROVE  /\ OutRight(audio'[t], 0, Position(t)' * Hop, FadedAt(t)')
               /\ TailRight(carry'[t], Position(t)' * Hop)
    <3>1. CASE t = s
      <4>1. OutRight(audio[s] \o out, 0, b * Hop, FadedAt(s)')
        BY <2>4, <2>f, MoreOff, Zenon
      <4> QED BY <2>5, <2>6, <2>8, <3>1, <4>1, Zenon
    <3>2. CASE t # s
      BY <2>7, <2>8, <2>g, <3>2, Zenon DEF SampleOK
    <3> QED BY <3>1, <3>2
  <2>10. (Enough' <=> Enough) /\ CrossfadeSamples' = CrossfadeSamples
    BY <1>1, <2>2
  <2>11. \A t \in Streams : OutRight(audio[t], 0, Position(t) * Hop, FadedAt(t))'
    BY <2>9, <2>10, Zenon DEF OutRight, Fine
  <2>12. \A t \in Streams : TailRight(carry[t], Position(t) * Hop)'
    BY <2>9, <2>10, Zenon DEF TailRight, Right
  <2>13. decoder' = "real"
    BY <2>2 DEF SampleOK
  <2>14. \A t \in Streams : played'[t] = <<>> => carry'[t] = <<>>
    <3>1. played'[s] # <<>>
      <4>1. played[s] \in Seq(Nat \X Nat) /\ <<a, b>> \in Nat \X Nat
        BY <2>1 DEF PlanOK
      <4> QED BY <2>p, <4>1
    <3> QED BY <2>p, <2>8, <3>1 DEF SampleOK
  <2> QED BY <2>8, <2>11, <2>12, <2>13, <2>14, Zenon DEF SampleOK
<1>3. ASSUME UNCHANGED <<cfg, decoder, played, carry, audio>> PROVE SampleOK'
  <2>1. (Enough' <=> Enough) /\ CrossfadeSamples' = CrossfadeSamples
    BY <1>1, <1>3
  <2>2. \A t \in Streams : Position(t)' = Position(t) /\ FadedAt(t)' = FadedAt(t)
    BY <1>1, <1>3 DEF Position, FadedAt
  <2>3. \A t \in Streams : OutRight(audio[t], 0, Position(t) * Hop, FadedAt(t))'
    BY <1>3, <2>1, <2>2, ZenonT(30) DEF SampleOK, OutRight, Fine
  <2>4. \A t \in Streams : TailRight(carry[t], Position(t) * Hop)'
    BY <1>3, <2>1, <2>2, Zenon DEF SampleOK, TailRight, Right
  <2> QED BY <1>3, <2>3, <2>4 DEF SampleOK
<1>4. ASSUME NEW s \in Streams,
             CaptureFails(s) \/ Exhaust(s) \/ DecodeFails(s) \/ Close(s)
      PROVE  SampleOK'
  BY <1>3, <1>4 DEF CaptureFails, Exhaust, DecodeFails, Close, Captured, CaptureLatents
<1>5. CASE UNCHANGED vars
  BY <1>3, <1>5 DEF vars, streamVars
<1> QED BY <1>2, <1>4, <1>5 DEF Next

\* The single-pass decode is exact everywhere.
LEMMA FullFacts ==
    ASSUME decoder = "real", NEW total \in Nat
    PROVE  /\ DecodeFull(total) \in Seq(SUBSET Sample)
           /\ Len(DecodeFull(total)) = total * Hop
           /\ \A k \in 1..(total * Hop) :
                DecodeFull(total)[k] = {[at |-> k - 1, exact |-> TRUE]}
<1> DEFINE wav == Decode(0, total, total)
           full == Blend(<<>>, wav)
<1>1. total * Hop \in Nat /\ (total - 0) * Hop = total * Hop /\ 0 * Hop = 0
  BY HopAssumption, SMTT(30)
<1>2. /\ wav \in Seq(Sample) /\ Len(wav) = total * Hop
      /\ \A k \in 1..(total * Hop) :
           /\ wav[k].at = 0 * Hop + k - 1
           /\ wav[k].exact =
                (/\ 0 <= Larger(0, ((0 * Hop + k - 1) \div Hop) - Receptive)
                 /\ Smaller(total, ((0 * Hop + k - 1) \div Hop) + Receptive + 1) <= total)
  <2>1. 0 \in Nat /\ total \in Nat /\ 0 <= total
    OBVIOUS
  <2>2. /\ wav \in Seq(Sample) /\ Len(wav) = (total - 0) * Hop
        /\ \A k \in 1..((total - 0) * Hop) :
             /\ wav[k].at = 0 * Hop + k - 1
             /\ wav[k].exact =
                  (/\ 0 <= Larger(0, ((0 * Hop + k - 1) \div Hop) - Receptive)
                   /\ Smaller(total, ((0 * Hop + k - 1) \div Hop) + Receptive + 1) <= total)
    BY <2>1, DecodeFacts, ZenonT(30)
  <2> QED BY <1>1, <2>2, Zenon
<1>3. ASSUME NEW f \in Int
      PROVE  0 <= Larger(0, f - Receptive) /\ Smaller(total, f + Receptive + 1) <= total
  BY HopAssumption DEF Larger, Smaller
<1>4. \A k \in 1..(total * Hop) : (0 * Hop + k - 1) \div Hop \in Int /\ 0 * Hop + k - 1 = k - 1
  BY <1>1, HopAssumption
<1> HIDE DEF wav
<1>5. ASSUME NEW k \in 1..(total * Hop)
      PROVE  wav[k] = [at |-> k - 1, exact |-> TRUE]
  <2>1. wav[k] \in Sample
    BY <1>1, <1>2
  <2>2. wav[k].at = k - 1
    BY <1>2, <1>4, Zenon
  <2>3. wav[k].exact = TRUE
    BY <1>2, <1>3, <1>4, Zenon
  <2> QED BY <2>1, <2>2, <2>3 DEF Sample
<1>6. /\ full \in Seq(SUBSET Sample) /\ Len(full) = Len(wav)
      /\ \A k \in 1..Len(wav) :
           full[k] = Mix(<<>>, wav, k)
  <2>1. <<>> \in Seq(Sample)
    OBVIOUS
  <2> QED BY <1>2, <2>1, BlendFacts, Zenon
<1>7. ASSUME NEW k \in 1..(total * Hop)
      PROVE  full[k] = {[at |-> k - 1, exact |-> TRUE]}
  <2>1. k > Len(<<>>) /\ k \in 1..Len(wav)
    BY <1>1, <1>2
  <2> QED BY <1>5, <1>6, <2>1, Zenon DEF Mix
<1>8. DecodeFull(total) = full
  BY DEF DecodeFull, wav
<1> HIDE DEF full
<1> QED BY <1>2, <1>6, <1>7, <1>8, Zenon

LEMMA SamplesNoSeam == PlanOK /\ SampleOK => NoSeam
<1> SUFFICES ASSUME PlanOK, SampleOK, Enough, NEW s \in Streams,
                    NEW k \in 1..Len(audio[s]), k \notin Faded(s)
             PROVE  /\ k \in 1..Len(DecodeFull(frames[s]))
                    /\ audio[s][k] = DecodeFull(frames[s])[k]
  BY Zenon DEF NoSeam, Enough
<1> DEFINE n == Position(s) * Hop
           full == DecodeFull(frames[s])
           total == frames[s]
<1>1. total \in Nat /\ Position(s) \in 0..total /\ decoder = "real"
  BY DEF PlanOK, SampleOK
<1>2. n \in Nat /\ total * Hop \in Nat /\ n <= total * Hop
  <2>1. 0 \in Int /\ Position(s) \in Int /\ total \in Int /\ 0 <= Position(s) /\ Position(s) <= total
    BY <1>1
  <2>2. 0 * Hop <= n /\ n <= total * Hop /\ n \in Int /\ total * Hop \in Int
    BY <2>1, MulMono, Zenon
  <2>3. 0 * Hop = 0
    BY HopAssumption
  <2> QED BY <2>2, <2>3
<1>3. OutRight(audio[s], 0, n, FadedAt(s))
  BY DEF SampleOK
<1>4. /\ full \in Seq(SUBSET Sample) /\ Len(full) = total * Hop
      /\ \A i \in 1..(total * Hop) : full[i] = {[at |-> i - 1, exact |-> TRUE]}
  BY <1>1, FullFacts, Zenon
<1> HIDE DEF n, full, total
<1>5. audio[s] \in Seq(SUBSET Sample) /\ Len(audio[s]) = n
  BY <1>2, <1>3 DEF OutRight
<1>6. k \in 1..n /\ k \in 1..(total * Hop) /\ k \in Int /\ 0 + (k - 1) = k - 1
  BY <1>2, <1>5
<1>7. k - 1 \notin FadedAt(s)
  <2> SUFFICES ASSUME NEW j \in 2..Len(played[s]), k - 1 \in Fade(played[s][j][1] * Hop)
               PROVE  k \in Faded(s)
    BY DEF FadedAt
  <2> DEFINE seam == played[s][j][1] * Hop
             X == CrossfadeSamples
  <2>1. cfg.shape # "linear" /\ k - 1 \in (seam + 1)..(seam + X - 2)
    BY DEF Fade
  <2>2. seam \in Int
    <3>1. played[s] \in Seq(Nat \X Nat) /\ j \in 1..Len(played[s])
      BY DEF PlanOK
    <3>2. played[s][j][1] \in Int /\ played[s][j][1] <= played[s][j][1]
      BY <3>1
    <3> QED BY <3>2, MulMono, Zenon
  <2>3. X \in Int
    BY CrossfadeType DEF PlanOK
  <2>4. k \in (seam + 2)..(seam + X - 1)
    <3> HIDE DEF seam, X
    <3> QED BY <1>6, <2>1, <2>2, <2>3
  <2> QED BY <2>1, <2>4, Zenon DEF Faded
<1>8. audio[s][k] = {[at |-> k - 1, exact |-> TRUE]}
  <2>1. audio[s][k] # {} /\ \A x \in audio[s][k] : Fine(x, k - 1, FadedAt(s))
    BY <1>3, <1>6, Zenon DEF OutRight
  <2>2. ASSUME NEW x \in audio[s][k] PROVE x = [at |-> k - 1, exact |-> TRUE]
    <3>1. x \in Sample /\ x.at = k - 1 /\ x.exact
      BY <1>7, <2>1, Zenon DEF Fine
    <3> QED BY <3>1 DEF Sample
  <2> QED BY <2>1, <2>2, Zenon
<1> QED BY <1>4, <1>6, <1>8 DEF full

\* With enough context there is no seam: whatever has been yielded is the
\* single-pass decode of the same latents, sample for sample, for any utterance,
\* chunk sizes and linear crossfade, and everywhere but inside the crossfades if
\* they are equal-power ones, whatever the other generators do (NoSeam).
THEOREM Seamless == Spec => []NoSeam
<1>1. Init => PlanOK /\ SampleOK
  BY InitPlan, InitSamples
<1>2. (PlanOK /\ SampleOK) /\ [Next]_vars => (PlanOK /\ SampleOK)'
  BY NextPlan, NextSamples
<1> QED BY <1>1, <1>2, SamplesNoSeam, PTL DEF Spec

-----------------------------------------------------------------------------
(* The plan as it was walked. *)

LEMMA CountingUp ==
    ASSUME NEW T, 0 \in T, \A n \in Nat : n \in T => n + 1 \in T
    PROVE  Nat \subseteq T
<1> SUFFICES ASSUME Nat \ T # {} PROVE FALSE
  OBVIOUS
<1>1. PICK x \in Nat \ T : \A y \in Nat \ T : ~(<<y, x>> \in OpToRel(<, Nat))
  <2>1. IsWellFoundedOn(OpToRel(<, Nat), Nat)
    BY NatLessThanWellFounded
  <2> QED BY <2>1, WFMin
<1>2. x - 1 \in Nat /\ x - 1 \in Nat \ T
  OBVIOUS
<1>3. <<x - 1, x>> \in OpToRel(<, Nat)
  BY <1>2 DEF OpToRel
<1> QED BY <1>1, <1>2, <1>3

\* Where the planner is after k chunks, and the size it plans next.
Walk(total) ==
    LET walk[k \in 0..total] ==
          IF k = 0 THEN <<0, FirstFrames>>
          ELSE <<Smaller(walk[k - 1][1] + walk[k - 1][2], total), NextSize(walk[k - 1][2])>>
    IN  walk

IsWalk(w, n, total) ==
    w = [k \in 0..n |->
           IF k = 0 THEN <<0, FirstFrames>>
           ELSE <<Smaller(w[k - 1][1] + w[k - 1][2], total), NextSize(w[k - 1][2])>>]

LEMMA WalkExists ==
    ASSUME NEW total, NEW n \in Nat
    PROVE  \E w : IsWalk(w, n, total)
<1> DEFINE T == {m \in Nat : \E w : IsWalk(w, m, total)}
<1>1. \A m \in Nat : m \in T <=> \E w : IsWalk(w, m, total)
  OBVIOUS
<1> HIDE DEF T
<1>2. 0 \in T
  <2> DEFINE w == [k \in 0..0 |-> <<0, FirstFrames>>]
  <2>1. \A k \in 0..0 : k = 0
    OBVIOUS
  <2>2. w = [k \in 0..0 |->
               IF k = 0 THEN <<0, FirstFrames>>
               ELSE <<Smaller(w[k - 1][1] + w[k - 1][2], total), NextSize(w[k - 1][2])>>]
    BY <2>1
  <2>3. IsWalk(w, 0, total)
    BY <2>2 DEF IsWalk
  <2> QED BY <1>1, <2>3
<1>3. ASSUME NEW m \in Nat, m \in T PROVE m + 1 \in T
  <2>1. PICK w : IsWalk(w, m, total)
    BY <1>1, <1>3
  <2> DEFINE Step(p) == <<Smaller(p[1] + p[2], total), NextSize(p[2])>>
             v == [k \in 0..(m + 1) |-> IF k = m + 1 THEN Step(w[m]) ELSE w[k]]
  <2>2. \A k \in 0..m : w[k] = IF k = 0 THEN <<0, FirstFrames>> ELSE Step(w[k - 1])
    BY <2>1 DEF IsWalk
  <2> HIDE DEF Step
  <2>3. (\A k \in 0..m : v[k] = w[k]) /\ v[m + 1] = Step(w[m])
    OBVIOUS
  <2>4. ASSUME NEW k \in 0..(m + 1)
        PROVE  v[k] = IF k = 0 THEN <<0, FirstFrames>> ELSE Step(v[k - 1])
    <3>1. k # 0 => k - 1 \in 0..m
      OBVIOUS
    <3>2. CASE k = m + 1
      BY <2>3, <3>1, <3>2
    <3>3. CASE k \in 0..m
      BY <2>2, <2>3, <3>1, <3>3
    <3> QED BY <3>2, <3>3
  <2>5. v = [k \in 0..(m + 1) |-> IF k = 0 THEN <<0, FirstFrames>> ELSE Step(v[k - 1])]
    BY <2>4
  <2> HIDE DEF v
  <2>6. IsWalk(v, m + 1, total)
    BY <2>5, Zenon DEF IsWalk, Step
  <2> QED BY <1>1, <2>6
<1> QED BY <1>1, <1>2, <1>3, CountingUp

LEMMA WalkSteps ==
    ASSUME NEW total \in Nat
    PROVE  /\ Walk(total)[0] = <<0, FirstFrames>>
           /\ \A k \in 1..total :
                Walk(total)[k] = <<Smaller(Walk(total)[k - 1][1] + Walk(total)[k - 1][2], total),
                                   NextSize(Walk(total)[k - 1][2])>>
           /\ SeamPositions(total) = {Walk(total)[k][1] * Hop : k \in 1..total} \ {total * Hop}
<1> DEFINE W == CHOOSE w : IsWalk(w, total, total)
<1>1. IsWalk(W, total, total)
  BY WalkExists, Zenon
<1>2. Walk(total) = W
  BY Zenon DEF Walk, IsWalk
<1>3. SeamPositions(total) = {W[k][1] * Hop : k \in 1..total} \ {total * Hop}
  BY Zenon DEF SeamPositions, IsWalk
<1> HIDE DEF W
<1>4. \A k \in 0..total :
        W[k] = IF k = 0 THEN <<0, FirstFrames>>
               ELSE <<Smaller(W[k - 1][1] + W[k - 1][2], total), NextSize(W[k - 1][2])>>
  BY <1>1 DEF IsWalk
<1>5. 0 \in 0..total /\ \A k \in 1..total : k \in 0..total /\ k # 0
  OBVIOUS
<1>6. W[0] = <<0, FirstFrames>>
  BY <1>4, <1>5
<1>7. \A k \in 1..total :
        W[k] = <<Smaller(W[k - 1][1] + W[k - 1][2], total), NextSize(W[k - 1][2])>>
  BY <1>4, <1>5
<1> QED BY <1>2, <1>3, <1>6, <1>7

\* The walk depends on the configuration only, which never changes.
LEMMA WalkStays ==
    ASSUME cfg' = cfg, NEW total
    PROVE  Walk(total)' = Walk(total) /\ MaxFrames' = MaxFrames
BY ZenonT(60) DEF Walk, FirstFrames, NextSize, MaxFrames

\* Of a generator: its chunks are those of the walk, each starts where the one
\* before it ended, and it is complete only at the end of its utterance.
PiecesOK(s) ==
    /\ Len(played[s]) <= Position(s)
    /\ Walk(frames[s])[Len(played[s])] = <<Position(s), size[s]>>
    /\ \A k \in 1..Len(played[s]) :
         /\ played[s][k][1] = Walk(frames[s])[k - 1][1]
         /\ played[s][k][2] = Walk(frames[s])[k][1]
         /\ played[s][k][1] < played[s][k][2] /\ played[s][k][2] <= frames[s]
    /\ outcome[s] = "complete" => Position(s) = frames[s]

WalkOK == \A s \in Streams : PiecesOK(s)

LEMMA InitWalk == Init => WalkOK
<1> SUFFICES ASSUME Init, NEW s \in Streams PROVE PiecesOK(s)
  BY DEF WalkOK
<1>1. played[s] = <<>> /\ Len(played[s]) = 0 /\ Position(s) = 0 /\ size[s] = FirstFrames
      /\ outcome[s] = "new" /\ frames[s] \in Nat
  BY LengthsAssumption DEF Init, Position
<1>2. Walk(frames[s])[0] = <<0, FirstFrames>>
  BY <1>1, WalkSteps
<1> QED BY <1>1, <1>2 DEF PiecesOK

LEMMA NextWalk == PlanOK /\ WalkOK /\ [Next]_vars => WalkOK'
<1> SUFFICES ASSUME PlanOK, WalkOK, [Next]_vars, NEW s \in Streams PROVE PiecesOK(s)'
  BY DEF WalkOK
<1>1. /\ cfg' = cfg /\ frames' = frames /\ frames[s] \in Nat
      /\ PiecesOK(s) /\ played[s] \in Seq(Nat \X Nat) /\ Position(s) \in 0..frames[s]
      /\ size[s] \in Nat \ {0} /\ Len(played[s]) \in Nat
  <2>1. cfg' = cfg /\ frames' = frames
    BY DEF Next, vars, streamVars, CaptureFails, NextChunk, Exhaust, DecodeFails, Close
  <2>2. /\ frames[s] \in Nat /\ played[s] \in Seq(Nat \X Nat)
        /\ Position(s) \in 0..frames[s] /\ size[s] \in Nat \ {0}
    BY DEF PlanOK
  <2>3. Len(played[s]) \in Nat
    BY <2>2
  <2> QED BY <2>1, <2>2, <2>3 DEF WalkOK
<1>w. PICK w : w = Walk(frames[s]) /\ Walk(frames[s])' = w
  <2>1. PICK total : total = frames[s]
    OBVIOUS
  <2>2. Walk(total)' = Walk(total)
    BY <1>1, WalkStays
  <2>3. PICK w : w = Walk(total)
    OBVIOUS
  <2>4. Walk(frames[s])' = Walk(total)'
    BY <1>1, <2>1, Zenon DEF Walk
  <2> QED BY <2>1, <2>2, <2>3, <2>4
<1>2. CASE UNCHANGED <<played, size>> /\ (outcome'[s] = "complete" => Position(s) = frames[s])
  <2>1. Position(s)' = Position(s)
    BY <1>2 DEF Position
  <2> QED BY <1>1, <1>w, <1>2, <2>1 DEF PiecesOK
<1>3. ASSUME NEW t \in Streams, t # s, NextChunk(t) PROVE PiecesOK(s)'
  <2>1. /\ played'[s] = played[s] /\ size'[s] = size[s] /\ outcome'[s] = outcome[s]
    BY <1>3 DEF NextChunk, PlanOK
  <2>2. Position(s)' = Position(s)
    BY <2>1 DEF Position
  <2> QED BY <1>1, <1>w, <2>1, <2>2 DEF PiecesOK
<1>4. CASE NextChunk(s)
  <2>b. PICK b : b = Smaller(Position(s) + size[s], frames[s])
    OBVIOUS
  <2>a. PICK a : a = Position(s)
    OBVIOUS
  <2>n. PICK n \in Nat : n = Len(played[s])
    BY <1>1
  <2>1. a \in Nat /\ frames[s] \in Nat /\ b \in (a + 1)..frames[s]
    BY <1>4, <2>a, <2>b, ChunkBounds DEF NextChunk
  <2>2. /\ played' = [played EXCEPT ![s] = Append(@, <<a, b>>)]
        /\ size' = [size EXCEPT ![s] = NextSize(@)]
        /\ outcome' = [outcome EXCEPT ![s] = "streaming"]
    BY <1>4, <2>a, <2>b DEF NextChunk
  <2>3. /\ played'[s] = Append(played[s], <<a, b>>) /\ size'[s] = NextSize(size[s])
        /\ outcome'[s] = "streaming"
    BY <2>2 DEF PlanOK
  <2>4. /\ Len(played'[s]) = n + 1 /\ played'[s][n + 1] = <<a, b>> /\ played'[s] # <<>>
        /\ \A k \in 1..n : played'[s][k] = played[s][k]
    <3>1. <<a, b>> \in Nat \X Nat
      BY <2>1
    <3>2. PICK x : x = <<a, b>>
      OBVIOUS
    <3>3. PICK p : p = played[s]
      OBVIOUS
    <3>4. p \in Seq(Nat \X Nat) /\ x \in Nat \X Nat /\ Len(p) = n
      BY <1>1, <2>n, <3>1, <3>2, <3>3
    <3>5. /\ Len(Append(p, x)) = n + 1 /\ Append(p, x)[n + 1] = x /\ Append(p, x) # <<>>
          /\ \A k \in 1..n : Append(p, x)[k] = p[k]
      BY <3>4, AppendProperties
    <3> QED BY <2>3, <3>2, <3>3, <3>5
  <2>5. Position(s)' = b
    BY <2>4 DEF Position
  <2>6. /\ n <= a /\ w[n] = <<a, size[s]>>
        /\ \A k \in 1..n : /\ played[s][k][1] = w[k - 1][1] /\ played[s][k][2] = w[k][1]
                           /\ played[s][k][1] < played[s][k][2]
                           /\ played[s][k][2] <= frames[s]
    <3>1. /\ n <= a /\ w[n] = <<a, size[s]>>
      BY <1>1, <1>w, <2>a, <2>n DEF PiecesOK
    <3>2. ASSUME NEW k \in 1..n
          PROVE  /\ played[s][k][1] = w[k - 1][1] /\ played[s][k][2] = w[k][1]
                 /\ played[s][k][1] < played[s][k][2]
                 /\ played[s][k][2] <= frames[s]
      <4>1. PiecesOK(s)
        BY <1>1
      <4>2. /\ played[s][k][1] = Walk(frames[s])[k - 1][1]
            /\ played[s][k][2] = Walk(frames[s])[k][1]
            /\ played[s][k][1] < played[s][k][2]
            /\ played[s][k][2] <= frames[s]
        BY <2>n, <4>1, Zenon DEF PiecesOK
      <4> QED BY <1>w, <4>2
    <3> QED BY <3>1, <3>2
  <2>7. n + 1 \in 1..frames[s] /\ (n + 1) - 1 = n /\ n + 1 <= b /\ b <= frames[s] /\ a < b
    BY <2>1, <2>6
  <2>8. w[n + 1] = <<b, NextSize(size[s])>>
    <3>1. w[n + 1] = <<Smaller(w[n][1] + w[n][2], frames[s]), NextSize(w[n][2])>>
      BY <1>1, <1>w, <2>7, WalkSteps
    <3> QED BY <2>a, <2>b, <2>6, <3>1
  <2>9. ASSUME NEW k \in 1..(n + 1)
        PROVE  /\ played'[s][k][1] = w[k - 1][1] /\ played'[s][k][2] = w[k][1]
               /\ played'[s][k][1] < played'[s][k][2] /\ played'[s][k][2] <= frames[s]
    <3>1. CASE k = n + 1
      BY <2>4, <2>6, <2>7, <2>8, <3>1
    <3>2. CASE k \in 1..n
      <4>1. played'[s][k] = played[s][k]
        BY <2>4, <3>2, Zenon
      <4>2. /\ played[s][k][1] = w[k - 1][1] /\ played[s][k][2] = w[k][1]
            /\ played[s][k][1] < played[s][k][2] /\ played[s][k][2] <= frames[s]
        BY <2>6, <3>2, Zenon
      <4> QED BY <4>1, <4>2
    <3>3. k = n + 1 \/ k \in 1..n
      OBVIOUS
    <3> QED BY <3>1, <3>2, <3>3
  <2> QED BY <1>1, <1>w, <2>3, <2>4, <2>5, <2>7, <2>8, <2>9 DEF PiecesOK
<1>5. ASSUME NEW t \in Streams,
             CaptureFails(t) \/ Exhaust(t) \/ DecodeFails(t) \/ Close(t)
      PROVE  PiecesOK(s)'
  <2>1. UNCHANGED <<played, size>>
    BY <1>5 DEF CaptureFails, Exhaust, DecodeFails, Close
  <2>2. outcome'[s] = "complete" => Position(s) = frames[s]
    <3>1. outcome[s] = "complete" => Position(s) = frames[s]
      BY <1>1 DEF PiecesOK
    <3> QED BY <1>5, <3>1 DEF PlanOK, CaptureFails, Exhaust, DecodeFails, Close
  <2> QED BY <1>2, <2>1, <2>2
<1>6. CASE UNCHANGED vars
  <2>1. outcome'[s] = "complete" => Position(s) = frames[s]
    BY <1>1, <1>6 DEF PiecesOK, vars, streamVars
  <2> QED BY <1>2, <1>6, <2>1 DEF vars, streamVars
<1> QED BY <1>3, <1>4, <1>5, <1>6 DEF Next

LEMMA HopApart ==
    ASSUME NEW x \in Int, NEW y \in Int, x < y
    PROVE  x * Hop # y * Hop
<1>1. (y - x) * Hop = y * Hop - x * Hop /\ x * Hop \in Int /\ y * Hop \in Int
  BY MulSum
<1>2. y - x \in Int /\ 1 <= y - x
  OBVIOUS
<1>3. 1 * Hop <= (y - x) * Hop
  BY <1>2, MulMono
<1>4. 1 * Hop = Hop /\ Hop > 1 /\ Hop \in Nat
  BY HopAssumption
<1> QED BY <1>1, <1>3, <1>4

\* The seams that are told are those of the chunks.
LEMMA WalkTellsSeams ==
    ASSUME PlanOK, WalkOK, NEW s \in Streams, outcome[s] = "complete"
    PROVE  SeamPositions(frames[s]) = {played[s][k][2] * Hop : k \in 1..(Len(played[s]) - 1)}
<1> DEFINE total == frames[s]
           n == Len(played[s])
           w == Walk(total)
<1>1. /\ total \in Nat /\ played[s] \in Seq(Nat \X Nat) /\ n \in Nat /\ n <= total
      /\ Position(s) = total /\ w[n][1] = total
      /\ \A k \in 1..n : /\ played[s][k][1] = w[k - 1][1] /\ played[s][k][2] = w[k][1]
                         /\ played[s][k][1] < played[s][k][2]
                         /\ played[s][k][2] <= total
                         /\ played[s][k][1] \in Nat /\ played[s][k][2] \in Nat
  <2>1. /\ total \in Nat /\ played[s] \in Seq(Nat \X Nat) /\ n \in Nat
        /\ Position(s) \in 0..total /\ PiecesOK(s)
    BY DEF PlanOK, WalkOK
  <2>2. Position(s) = total /\ w[n] = <<Position(s), size[s]>> /\ n <= Position(s)
    BY <2>1 DEF PiecesOK
  <2>3. \A k \in 1..n : played[s][k][1] \in Nat /\ played[s][k][2] \in Nat
    <3>1. \A k \in 1..n : played[s][k] \in Nat \X Nat
      BY <2>1
    <3> QED BY <3>1
  <2>4. \A k \in 1..n : /\ played[s][k][1] = w[k - 1][1] /\ played[s][k][2] = w[k][1]
                         /\ played[s][k][1] < played[s][k][2]
                         /\ played[s][k][2] <= total
    BY <2>1, Zenon DEF PiecesOK
  <2>5. w[n][1] = total
    BY <2>2
  <2> QED BY <2>1, <2>2, <2>3, <2>4, <2>5
<1>2. /\ \A k \in 1..total : w[k] = <<Smaller(w[k - 1][1] + w[k - 1][2], total), NextSize(w[k - 1][2])>>
      /\ SeamPositions(total) = {w[k][1] * Hop : k \in 1..total} \ {total * Hop}
  BY <1>1, WalkSteps
<1>s. /\ size[s] \in Nat \ {0} /\ cfg \in Configs /\ w[n][2] = size[s]
  BY DEF PlanOK, WalkOK, PiecesOK
<1>a. PICK v : v = w
  OBVIOUS
<1>b. PICK m \in Nat : m = n
  BY <1>1
<1>t. PICK T \in Nat : T = total
  BY <1>1
<1> HIDE DEF total, n, w
<1> DEFINE U == {j \in Nat : m + j <= T => v[m + j][1] = T /\ v[m + j][2] \in Nat \ {0}}
<1>3. \A j \in Nat : j \in U <=> (m + j <= T => v[m + j][1] = T /\ v[m + j][2] \in Nat \ {0})
  OBVIOUS
<1> HIDE DEF U
<1>4. 0 \in U
  <2>1. m + 0 = m
    OBVIOUS
  <2> QED BY <1>1, <1>s, <1>a, <1>b, <1>t, <1>3, <2>1
<1>5. ASSUME NEW j \in Nat, j \in U PROVE j + 1 \in U
  <2> SUFFICES ASSUME m + (j + 1) <= T
               PROVE  v[m + (j + 1)][1] = T /\ v[m + (j + 1)][2] \in Nat \ {0}
    BY <1>3
  <2>1. m + (j + 1) \in 1..T /\ (m + (j + 1)) - 1 = m + j /\ m + j <= T
    OBVIOUS
  <2>2. v[m + j][1] = T /\ v[m + j][2] \in Nat \ {0}
    BY <1>3, <1>5, <2>1
  <2>3. v[m + (j + 1)] = <<Smaller(v[m + j][1] + v[m + j][2], T), NextSize(v[m + j][2])>>
    <3>1. \A k \in 1..T : v[k] = <<Smaller(v[k - 1][1] + v[k - 1][2], T), NextSize(v[k - 1][2])>>
      BY <1>2, <1>a, <1>t
    <3> QED BY <2>1, <3>1
  <2>4. Smaller(T + v[m + j][2], T) = T
    BY <2>2 DEF Smaller
  <2>5. NextSize(v[m + j][2]) \in Nat \ {0}
    BY <1>s, <2>2, SizesType
  <2> QED BY <2>2, <2>3, <2>4, <2>5
<1>6. \A k \in m..T : v[k][1] = T
  <2>1. \A k \in m..T : k - m \in Nat /\ m + (k - m) = k /\ m + (k - m) <= T
    OBVIOUS
  <2>2. Nat \subseteq U
    BY <1>4, <1>5, CountingUp
  <2> QED BY <1>3, <2>1, <2>2
<1>7. \A k \in 1..(m - 1) : v[k][1] < T /\ v[k][1] \in Nat /\ v[k][1] = played[s][k][2]
  <2> SUFFICES ASSUME NEW k \in 1..(m - 1)
               PROVE  v[k][1] < T /\ v[k][1] \in Nat /\ v[k][1] = played[s][k][2]
    OBVIOUS
  <2>1. k \in 1..m /\ k + 1 \in 1..m /\ (k + 1) - 1 = k
    OBVIOUS
  <2>2. /\ played[s][k + 1][1] = v[k][1] /\ played[s][k + 1][1] < played[s][k + 1][2]
        /\ played[s][k + 1][2] <= T /\ played[s][k][2] = v[k][1]
        /\ played[s][k + 1][1] \in Nat /\ played[s][k + 1][2] \in Nat
    BY <1>1, <1>a, <1>b, <1>t, <2>1
  <2> QED BY <2>2
<1>8. {v[k][1] * Hop : k \in 1..T} \ {T * Hop} = {v[k][1] * Hop : k \in 1..(m - 1)}
  <2>1. ASSUME NEW k \in 1..T PROVE k \in 1..(m - 1) \/ v[k][1] * Hop = T * Hop
    BY <1>6
  <2>2. ASSUME NEW k \in 1..(m - 1) PROVE v[k][1] * Hop # T * Hop
    BY <1>7, HopApart
  <2>3. \A k \in 1..(m - 1) : k \in 1..T
    BY <1>1, <1>b, <1>t
  <2> QED BY <2>1, <2>2, <2>3
<1>9. {v[k][1] * Hop : k \in 1..(m - 1)} = {played[s][k][2] * Hop : k \in 1..(m - 1)}
  BY <1>7
<1> QED BY <1>2, <1>8, <1>9, <1>a, <1>b, <1>t DEF total, n

\* seam_positions names the samples at which the chunks of a complete stream
\* meet, whatever the utterance and the sizes (SeamsWhereTold).
THEOREM SeamsAreWhereTold == Spec => []SeamsWhereTold
<1>1. Init => PlanOK /\ WalkOK
  BY InitPlan, InitWalk
<1>2. (PlanOK /\ WalkOK) /\ [Next]_vars => (PlanOK /\ WalkOK)'
  BY NextPlan, NextWalk
<1>3. PlanOK /\ WalkOK => SeamsWhereTold
  BY WalkTellsSeams DEF SeamsWhereTold
<1> QED BY <1>1, <1>2, <1>3, PTL DEF Spec

-----------------------------------------------------------------------------
(* The stats. *)

IsSum(f, n, g) == f = [k \in 0..n |-> IF k = 0 THEN 0 ELSE f[k - 1] + g[k]]

LEMMA SumExists ==
    ASSUME NEW g, NEW n \in Nat
    PROVE  \E f : IsSum(f, n, g)
<1> DEFINE T == {m \in Nat : \E f : IsSum(f, m, g)}
<1>1. \A m \in Nat : m \in T <=> \E f : IsSum(f, m, g)
  OBVIOUS
<1> HIDE DEF T
<1>2. 0 \in T
  <2> DEFINE f == [k \in 0..0 |-> 0]
  <2>1. \A k \in 0..0 : k = 0
    OBVIOUS
  <2>2. f = [k \in 0..0 |-> IF k = 0 THEN 0 ELSE f[k - 1] + g[k]]
    BY <2>1
  <2>3. IsSum(f, 0, g)
    BY <2>2 DEF IsSum
  <2> QED BY <1>1, <2>3
<1>3. ASSUME NEW m \in Nat, m \in T PROVE m + 1 \in T
  <2>1. PICK f : IsSum(f, m, g)
    BY <1>1, <1>3
  <2> DEFINE h == [k \in 0..(m + 1) |-> IF k = m + 1 THEN f[k - 1] + g[k] ELSE f[k]]
  <2>2. \A k \in 0..m : f[k] = IF k = 0 THEN 0 ELSE f[k - 1] + g[k]
    BY <2>1 DEF IsSum
  <2>3. \A k \in 0..m : h[k] = f[k]
    OBVIOUS
  <2>4. ASSUME NEW k \in 0..(m + 1) PROVE h[k] = IF k = 0 THEN 0 ELSE h[k - 1] + g[k]
    <3>1. k # 0 => k - 1 \in 0..m
      OBVIOUS
    <3>2. CASE k = m + 1
      BY <2>3, <3>1, <3>2
    <3>3. CASE k \in 0..m
      BY <2>2, <2>3, <3>1, <3>3
    <3> QED BY <3>2, <3>3
  <2>5. h = [k \in 0..(m + 1) |-> IF k = 0 THEN 0 ELSE h[k - 1] + g[k]]
    BY <2>4
  <2> HIDE DEF h
  <2>6. IsSum(h, m + 1, g)
    BY <2>5 DEF IsSum
  <2> QED BY <1>1, <2>6
<1> QED BY <1>1, <1>2, <1>3, CountingUp

\* decoded_frames, as a function of the chunks.
Decoded(s, n) ==
    CHOOSE f : f = [k \in 0..n |->
                      IF k = 0 THEN 0
                      ELSE f[k - 1] + (Hi(played[s][k][2], frames[s]) - Lo(played[s][k][1]))]

LEMMA DecodedSteps ==
    ASSUME NEW s \in Streams, Len(played[s]) \in Nat
    PROVE  /\ DecodedFrames(s) = Decoded(s, Len(played[s]))[Len(played[s])]
           /\ Decoded(s, Len(played[s]))[0] = 0
           /\ \A k \in 1..Len(played[s]) :
                Decoded(s, Len(played[s]))[k] =
                  Decoded(s, Len(played[s]))[k - 1]
                    + (Hi(played[s][k][2], frames[s]) - Lo(played[s][k][1]))
<1> DEFINE n == Len(played[s])
           G(k) == Hi(played[s][k][2], frames[s]) - Lo(played[s][k][1])
           g == [k \in 1..n |-> G(k)]
           D == Decoded(s, n)
<1>1. DecodedFrames(s) = D[n]
  BY Zenon DEF DecodedFrames, Decoded
<1>2. D = CHOOSE f : f = [k \in 0..n |-> IF k = 0 THEN 0 ELSE f[k - 1] + G(k)]
  BY Zenon DEF Decoded
<1>3. n \in Nat /\ \A k \in 1..n : g[k] = G(k)
  OBVIOUS
<1> HIDE DEF g, G, D, n
<1>4. PICK f : IsSum(f, n, g)
  BY <1>3, SumExists
<1>5. f = [k \in 0..n |-> IF k = 0 THEN 0 ELSE f[k - 1] + G(k)]
  <2>1. \A k \in 0..n : k # 0 => k \in 1..n
    BY <1>3
  <2>2. \A k \in 0..n : f[k] = IF k = 0 THEN 0 ELSE f[k - 1] + g[k]
    BY <1>4 DEF IsSum
  <2>3. \A k \in 0..n : f[k] = IF k = 0 THEN 0 ELSE f[k - 1] + G(k)
    BY <1>3, <2>1, <2>2
  <2>4. f = [k \in 0..n |-> f[k]]
    BY <1>4 DEF IsSum
  <2> QED BY <2>3, <2>4
<1>6. D = [k \in 0..n |-> IF k = 0 THEN 0 ELSE D[k - 1] + G(k)]
  BY <1>2, <1>5, Zenon
<1>7. D[0] = 0 /\ \A k \in 1..n : D[k] = D[k - 1] + G(k)
  <2>1. 0 \in 0..n /\ \A k \in 1..n : k \in 0..n /\ k # 0
    BY <1>3
  <2>2. \A k \in 0..n : D[k] = IF k = 0 THEN 0 ELSE D[k - 1] + G(k)
    BY <1>6
  <2> QED BY <2>1, <2>2
<1> QED BY <1>1, <1>7 DEF n, G, D

\* A stream decodes every frame that it plays, and none if it plays none.
LEMMA DecodedEnough ==
    ASSUME PlanOK, WalkOK, NEW s \in Streams
    PROVE  /\ DecodedFrames(s) \in Nat /\ Position(s) <= DecodedFrames(s)
           /\ Position(s) = 0 => DecodedFrames(s) = 0
<1>t. PICK total \in Nat : total = frames[s]
  BY DEF PlanOK
<1>p. PICK p \in Seq(Nat \X Nat) : p = played[s]
  BY DEF PlanOK
<1>n. PICK n \in Nat : n = Len(p)
  BY <1>p
<1>w. PICK w : w = Walk(total)
  OBVIOUS
<1>d. PICK d : d = Decoded(s, n)
  OBVIOUS
<1>1. /\ Position(s) \in 0..total /\ PiecesOK(s) /\ cfg \in Configs
  BY <1>t DEF PlanOK, WalkOK
<1>2. w[n] = <<Position(s), size[s]>> /\ n <= Position(s)
  BY <1>1, <1>t, <1>p, <1>n, <1>w DEF PiecesOK
<1>3. ASSUME NEW k \in 1..n
      PROVE  /\ p[k][1] = w[k - 1][1] /\ p[k][2] = w[k][1]
             /\ p[k][1] < p[k][2] /\ p[k][2] <= total
             /\ p[k][1] \in Nat /\ p[k][2] \in Nat
             /\ Hi(p[k][2], total) - Lo(p[k][1]) \in Nat
             /\ p[k][2] - p[k][1] <= Hi(p[k][2], total) - Lo(p[k][1])
  <2>1. PiecesOK(s)
    BY <1>1
  <2>2. /\ p[k][1] = w[k - 1][1] /\ p[k][2] = w[k][1]
        /\ p[k][1] < p[k][2] /\ p[k][2] <= total
    <3>1. k \in 1..Len(played[s])
      BY <1>p, <1>n
    <3>2. /\ played[s][k][1] = Walk(frames[s])[k - 1][1]
          /\ played[s][k][2] = Walk(frames[s])[k][1]
          /\ played[s][k][1] < played[s][k][2]
          /\ played[s][k][2] <= frames[s]
      BY <2>1, <3>1, Zenon DEF PiecesOK
    <3> QED BY <1>t, <1>p, <1>w, <3>2, ZenonT(60)
  <2>3. p[k] \in Nat \X Nat
    BY <1>n
  <2>4. p[k][1] \in Nat /\ p[k][2] \in Nat
    BY <2>3
  <2>5. Lo(p[k][1]) \in 0..p[k][1] /\ Hi(p[k][2], total) \in p[k][2]..total
    BY <1>1, <2>2, <2>4, WindowBounds
  <2> QED BY <2>2, <2>4, <2>5, SMTT(30)
<1>4. /\ DecodedFrames(s) = d[n] /\ d[0] = 0
      /\ \A k \in 1..n : d[k] = d[k - 1] + (Hi(p[k][2], total) - Lo(p[k][1]))
  <2>1. Len(played[s]) \in Nat
    BY <1>p
  <2>2. /\ DecodedFrames(s) = Decoded(s, Len(played[s]))[Len(played[s])]
        /\ Decoded(s, Len(played[s]))[0] = 0
        /\ \A k \in 1..Len(played[s]) :
             Decoded(s, Len(played[s]))[k] =
               Decoded(s, Len(played[s]))[k - 1]
                 + (Hi(played[s][k][2], frames[s]) - Lo(played[s][k][1]))
    BY <2>1, DecodedSteps
  <2>3. d = Decoded(s, Len(played[s])) /\ n = Len(played[s])
    BY <1>d, <1>p, <1>n
  <2> QED BY <1>t, <1>p, <2>2, <2>3
<1>5. w[0][1] = 0
  BY <1>w, WalkSteps
<1> DEFINE T == {k \in Nat : k <= n => d[k] \in Nat /\ w[k][1] <= d[k] /\ w[k][1] \in Nat}
<1>6. \A k \in Nat : k \in T <=> (k <= n => d[k] \in Nat /\ w[k][1] <= d[k] /\ w[k][1] \in Nat)
  OBVIOUS
<1> HIDE DEF T
<1>7. 0 \in T
  BY <1>4, <1>5, <1>6
<1>8. ASSUME NEW k \in Nat, k \in T PROVE k + 1 \in T
  <2> SUFFICES ASSUME k + 1 <= n
               PROVE  d[k + 1] \in Nat /\ w[k + 1][1] <= d[k + 1] /\ w[k + 1][1] \in Nat
    BY <1>6
  <2> DEFINE j == k + 1
  <2>1. j \in 1..n /\ j - 1 = k /\ k <= n
    OBVIOUS
  <2>2. d[k] \in Nat /\ w[k][1] <= d[k] /\ w[k][1] \in Nat
    BY <1>6, <1>8, <2>1
  <2>3. d[j] = d[k] + (Hi(p[j][2], total) - Lo(p[j][1]))
    BY <1>4, <2>1
  <2>4. /\ p[j][1] = w[k][1] /\ p[j][2] = w[j][1] /\ p[j][2] \in Nat /\ p[j][1] \in Nat
        /\ Hi(p[j][2], total) - Lo(p[j][1]) \in Nat
        /\ p[j][2] - p[j][1] <= Hi(p[j][2], total) - Lo(p[j][1])
    BY <1>3, <2>1
  <2> HIDE DEF j
  <2>5. d[j] \in Nat /\ w[j][1] <= d[j] /\ w[j][1] \in Nat
    BY <2>2, <2>3, <2>4, SMTT(30)
  <2> QED BY <2>5 DEF j
<1>9. d[n] \in Nat /\ w[n][1] <= d[n]
  <2>1. Nat \subseteq T
    BY <1>7, <1>8, CountingUp
  <2>2. n \in T /\ n <= n
    BY <2>1
  <2> QED BY <1>6, <2>2
<1>10. Position(s) = 0 => d[n] = 0
  BY <1>2, <1>4
<1> QED BY <1>2, <1>4, <1>9, <1>10

StatsRecord == [chunks : Nat, samples : Nat, decoded : Nat, wasted : Nat]

\* The stats belong to their owner, as long as no other generator has counted.
StatsOK ==
    /\ stats \in StatsRecord
    /\ owner \in Streams \union {none} /\ mixed \in BOOLEAN
    /\ owner # none => outcome[owner] # "new"
    /\ owner # none /\ ~mixed =>
         /\ stats.chunks = Len(played[owner]) /\ stats.samples = Len(audio[owner])
         /\ outcome[owner] = "complete" =>
              /\ stats.wasted <= stats.decoded
              /\ stats.decoded > 0 => stats.wasted < stats.decoded

SizesOK == frames \in [Streams -> Lengths] /\ \A s \in Streams : size[s] <= MaxFrames

Counted == PlanOK /\ SampleOK /\ WalkOK /\ StatsOK /\ SizesOK

LEMMA SizesBounds ==
    ASSUME cfg \in Configs
    PROVE  /\ MaxFrames \in Nat /\ FirstFrames <= MaxFrames
           /\ \A s \in Nat \ {0} : NextSize(s) <= MaxFrames
<1>1. Round(cfg.first, Hop) \in Int /\ Round(cfg.max, Hop) \in Int
  BY Config, RoundType
<1>2. FirstFrames \in Int /\ FirstFrames >= 1
  BY <1>1 DEF FirstFrames, Larger
<1>3. MaxFrames \in Int /\ MaxFrames >= FirstFrames
  BY <1>1, <1>2 DEF MaxFrames, Larger
<1>4. ASSUME NEW s \in Nat \ {0} PROVE NextSize(s) <= MaxFrames
  <2>1. (s * cfg.growthNum) \div cfg.growthDen \in Int
    BY Config
  <2> QED BY <1>3, <2>1 DEF NextSize, Smaller, Larger
<1> QED BY <1>2, <1>3, <1>4

LEMMA InitCounted == Init => Counted
<1> SUFFICES ASSUME Init PROVE Counted
  OBVIOUS
<1>1. StatsOK
  BY DEF Init, StatsOK, StatsRecord, Zero
<1>2. SizesOK
  BY SizesBounds DEF Init, SizesOK
<1> QED BY <1>1, <1>2, InitPlan, InitSamples, InitWalk DEF Counted

LEMMA NextSizes == PlanOK /\ SizesOK /\ [Next]_vars => SizesOK'
<1> SUFFICES ASSUME PlanOK, SizesOK, [Next]_vars PROVE SizesOK'
  OBVIOUS
<1>1. cfg' = cfg /\ frames' = frames
  BY DEF Next, vars, streamVars, CaptureFails, NextChunk, Exhaust, DecodeFails, Close
<1>2. MaxFrames' = MaxFrames
  BY <1>1, WalkStays
<1>3. \A s \in Streams : NextSize(size[s]) <= MaxFrames
  BY SizesBounds DEF PlanOK
<1>4. CASE \E t \in Streams : NextChunk(t)
  <2>1. \A s \in Streams : size'[s] \in {size[s], NextSize(size[s])}
    BY <1>4 DEF NextChunk, PlanOK
  <2> QED BY <1>1, <1>2, <1>3, <2>1 DEF SizesOK
<1>5. CASE UNCHANGED size
  BY <1>1, <1>2, <1>5 DEF SizesOK
<1> QED BY <1>4, <1>5 DEF Next, vars, streamVars, CaptureFails, Exhaust, DecodeFails, Close

\* A chunk has the samples of its frames, and the audio grows by as many.
LEMMA ChunkGrows ==
    ASSUME PlanOK, SampleOK, NEW s \in Streams, NextChunk(s)
    PROVE  \E n \in Nat :
             /\ stats' = [NewStats(s) EXCEPT !.chunks = @ + 1, !.samples = @ + n]
             /\ Len(audio'[s]) = Len(audio[s]) + n
             /\ Len(played'[s]) = Len(played[s]) + 1
             /\ Len(played[s]) \in Nat /\ Len(audio[s]) \in Nat
             /\ outcome[s] = "new" => Len(played[s]) = 0 /\ Len(audio[s]) = 0
<1> DEFINE a == Position(s)
           total == frames[s]
           b == Smaller(a + size[s], total)
           wav == Decode(Lo(a), Hi(b, total), total)
           start == (a - Lo(a)) * Hop
           bodyEnd == start + (b - a) * Hop
           out == Blend(carry[s], Slice(wav, start, bodyEnd))
<1>1. a \in Nat /\ total \in Nat /\ b \in (a + 1)..total
  BY ChunkBounds DEF NextChunk
<1>2. /\ audio' = [audio EXCEPT ![s] = @ \o out]
      /\ played' = [played EXCEPT ![s] = Append(@, <<a, b>>)]
      /\ stats' = [NewStats(s) EXCEPT !.chunks = @ + 1, !.samples = @ + Len(out)]
  BY DEF NextChunk
<1>3. OutRight(out, a * Hop, b * Hop, FadeAfter(carry[s], a * Hop))
  <2>1. TailRight(carry[s], a * Hop) /\ decoder = "real" /\ cfg \in Configs
    BY DEF SampleOK, PlanOK
  <2>2. b \in Nat /\ a < b /\ b <= total
    BY <1>1
  <2> HIDE DEF a, b, total
  <2> QED BY <1>1, <2>1, <2>2, ChunkSamples, Zenon
<1>4. out \in Seq(SUBSET Sample) /\ audio[s] \in Seq(SUBSET Sample) /\ played[s] \in Seq(Nat \X Nat)
      /\ <<a, b>> \in Nat \X Nat
  BY <1>1, <1>3 DEF OutRight, SampleOK, PlanOK
<1>5. outcome[s] = "new" => Len(played[s]) = 0 /\ Len(audio[s]) = 0
  <2> SUFFICES ASSUME outcome[s] = "new" PROVE Len(played[s]) = 0 /\ Len(audio[s]) = 0
    OBVIOUS
  <2>1. played[s] = <<>> /\ Position(s) = 0
    BY DEF PlanOK, Position
  <2>2. OutRight(audio[s], 0, 0 * Hop, FadedAt(s)) /\ 0 * Hop = 0
    BY <2>1, HopAssumption DEF SampleOK
  <2> QED BY <2>1, <2>2 DEF OutRight
<1> HIDE DEF out, a, b
<1>6. Len(out) \in Nat /\ Len(audio[s] \o out) = Len(audio[s]) + Len(out)
      /\ Len(audio[s]) \in Nat /\ Len(played[s]) \in Nat
      /\ Len(Append(played[s], <<a, b>>)) = Len(played[s]) + 1
  BY <1>4
<1>7. audio'[s] = audio[s] \o out /\ played'[s] = Append(played[s], <<a, b>>)
  BY <1>2 DEF SampleOK, PlanOK
<1> QED BY <1>2, <1>5, <1>6, <1>7

LEMMA NextStatsOK == Counted /\ [Next]_vars => StatsOK'
<1> SUFFICES ASSUME Counted, [Next]_vars PROVE StatsOK'
  OBVIOUS
<1>t. /\ PlanOK /\ SampleOK /\ WalkOK /\ StatsOK
      /\ stats \in StatsRecord /\ owner \in Streams \union {none} /\ mixed \in BOOLEAN
      /\ outcome \in [Streams -> Outcomes] /\ none \notin Streams
  BY StreamsAssumption DEF Counted, StatsOK, PlanOK, StatsRecord
<1>z. Zero \in StatsRecord /\ Zero.chunks = 0 /\ Zero.samples = 0
  BY DEF Zero, StatsRecord
<1>n. ASSUME NEW s \in Streams
      PROVE  /\ NewStats(s) \in StatsRecord
             /\ outcome[s] = "new" => NewStats(s).chunks = 0 /\ NewStats(s).samples = 0
             /\ outcome[s] # "new" => NewStats(s) = stats
  BY <1>t, <1>z DEF NewStats
<1>o. ASSUME NEW s \in Streams, Owns(s)
      PROVE  /\ owner' \in Streams \union {none} /\ mixed' \in BOOLEAN
             /\ ~mixed' /\ owner' # none =>
                  owner' = s /\ (outcome[s] # "new" => ~mixed /\ owner = s)
  BY <1>t, <1>o DEF Owns, StatsOK
<1>1. ASSUME NEW s \in Streams, NextChunk(s) PROVE StatsOK'
  <2>1. PICK n \in Nat :
          /\ stats' = [NewStats(s) EXCEPT !.chunks = @ + 1, !.samples = @ + n]
          /\ Len(audio'[s]) = Len(audio[s]) + n
          /\ Len(played'[s]) = Len(played[s]) + 1
          /\ Len(played[s]) \in Nat /\ Len(audio[s]) \in Nat
          /\ outcome[s] = "new" => Len(played[s]) = 0 /\ Len(audio[s]) = 0
    BY <1>t, <1>1, ChunkGrows
  <2>2. /\ outcome' = [outcome EXCEPT ![s] = "streaming"] /\ Owns(s) /\ Live(s)
    BY <1>1 DEF NextChunk
  <2>3. outcome'[s] = "streaming" /\ \A t \in Streams : outcome'[t] # "new" \/ outcome[t] = "new"
    BY <1>t, <2>2
  <2>4. /\ stats' \in StatsRecord
        /\ stats'.chunks = NewStats(s).chunks + 1 /\ stats'.samples = NewStats(s).samples + n
    <3>1. PICK r \in StatsRecord : r = NewStats(s)
      BY <1>n
    <3>2. stats' = [r EXCEPT !.chunks = r.chunks + 1, !.samples = r.samples + n]
      BY <2>1, <3>1
    <3>3. r.chunks + 1 \in Nat /\ r.samples + n \in Nat
      BY DEF StatsRecord
    <3> QED BY <3>1, <3>2, <3>3 DEF StatsRecord
  <2>5. owner' # none => outcome'[owner'] # "new"
    <3>1. owner' \in {s, owner}
      BY <2>2 DEF Owns
    <3> QED BY <1>t, <2>3, <3>1 DEF StatsOK
  <2>6. ASSUME owner' # none, ~mixed'
        PROVE  /\ stats'.chunks = Len(played'[owner']) /\ stats'.samples = Len(audio'[owner'])
               /\ outcome'[owner'] # "complete"
    <3>1. owner' = s /\ (outcome[s] # "new" => ~mixed /\ owner = s)
      BY <1>o, <2>2, <2>6
    <3>2. CASE outcome[s] = "new"
      BY <1>n, <2>1, <2>3, <2>4, <3>1, <3>2
    <3>3. CASE outcome[s] # "new"
      <4>1. stats.chunks = Len(played[s]) /\ stats.samples = Len(audio[s])
        BY <1>t, <3>1, <3>3 DEF StatsOK
      <4> QED BY <1>n, <2>1, <2>3, <2>4, <3>1, <3>3, <4>1
    <3> QED BY <3>2, <3>3
  <2> QED BY <1>o, <2>2, <2>4, <2>5, <2>6 DEF StatsOK, StatsRecord
<1>2. ASSUME NEW s \in Streams, Exhaust(s) \/ DecodeFails(s) PROVE StatsOK'
  <2>1. /\ Owns(s) /\ Live(s) /\ UNCHANGED <<played, audio>>
        /\ \E o \in {"complete", "failed"} : outcome' = [outcome EXCEPT ![s] = o]
    BY <1>2 DEF Exhaust, DecodeFails
  <2>2. outcome'[s] \in {"complete", "failed"}
        /\ \A t \in Streams : outcome'[t] # "new" \/ outcome[t] = "new"
    BY <1>t, <2>1
  <2>3. /\ stats' \in StatsRecord
        /\ stats'.chunks = NewStats(s).chunks /\ stats'.samples = NewStats(s).samples
        /\ outcome'[s] = "complete" =>
             /\ stats'.wasted <= stats'.decoded
             /\ stats'.decoded > 0 => stats'.wasted < stats'.decoded
    <3>1. CASE Exhaust(s)
      <4>1. stats' = [NewStats(s) EXCEPT !.decoded = DecodedFrames(s),
                                         !.wasted = DecodedFrames(s) - frames[s]]
            /\ Position(s) = frames[s]
        BY <3>1 DEF Exhaust
      <4>2. /\ DecodedFrames(s) \in Nat /\ frames[s] \in Nat /\ frames[s] <= DecodedFrames(s)
            /\ frames[s] = 0 => DecodedFrames(s) = 0
        BY <1>t, <4>1, DecodedEnough DEF PlanOK
      <4>3. DecodedFrames(s) - frames[s] \in Nat
        BY <4>2
      <4>4. /\ stats' \in StatsRecord
            /\ stats'.chunks = NewStats(s).chunks /\ stats'.samples = NewStats(s).samples
            /\ stats'.decoded = DecodedFrames(s)
            /\ stats'.wasted = DecodedFrames(s) - frames[s]
        BY <1>n, <4>1, <4>2, <4>3 DEF StatsRecord
      <4> QED BY <4>2, <4>4
    <3>2. CASE DecodeFails(s)
      <4>1. stats' = NewStats(s) /\ outcome'[s] = "failed"
        BY <1>t, <3>2 DEF DecodeFails
      <4> QED BY <1>n, <4>1
    <3> QED BY <1>2, <3>1, <3>2
  <2>4. owner' # none => outcome'[owner'] # "new"
    <3>1. owner' \in {s, owner}
      BY <2>1 DEF Owns
    <3> QED BY <1>t, <2>2, <3>1 DEF StatsOK
  <2>5. ASSUME owner' # none, ~mixed'
        PROVE  /\ owner' = s
               /\ stats'.chunks = Len(played[s]) /\ stats'.samples = Len(audio[s])
    <3>1. owner' = s /\ (outcome[s] # "new" => ~mixed /\ owner = s)
      BY <1>o, <2>1, <2>5
    <3>2. CASE outcome[s] = "new"
      <4>1. Len(played[s]) = 0 /\ Len(audio[s]) = 0
        <5>1. played[s] = <<>> /\ Position(s) = 0
          BY <1>t, <3>2 DEF PlanOK, Position
        <5>2. OutRight(audio[s], 0, 0 * Hop, FadedAt(s)) /\ 0 * Hop = 0
          BY <1>t, <5>1, HopAssumption DEF SampleOK
        <5> QED BY <5>1, <5>2 DEF OutRight
      <4> QED BY <1>n, <2>3, <3>1, <3>2, <4>1
    <3>3. CASE outcome[s] # "new"
      <4>1. stats.chunks = Len(played[s]) /\ stats.samples = Len(audio[s])
        BY <1>t, <3>1, <3>3 DEF StatsOK
      <4> QED BY <1>n, <2>3, <3>1, <3>3, <4>1
    <3> QED BY <3>2, <3>3
  <2>6. owner' \in Streams \union {none} /\ mixed' \in BOOLEAN
    BY <1>o, <2>1
  <2> QED BY <2>1, <2>3, <2>4, <2>5, <2>6 DEF StatsOK, StatsRecord
<1>3. ASSUME NEW s \in Streams, CaptureFails(s) \/ Close(s) PROVE StatsOK'
  <2>1. /\ UNCHANGED <<played, audio, stats, owner, mixed>>
        /\ outcome' = [outcome EXCEPT ![s] = "failed"]
    BY <1>3 DEF CaptureFails, Close
  <2>2. ASSUME NEW t \in Streams
        PROVE  /\ outcome'[t] # "new" \/ outcome[t] = "new"
               /\ outcome'[t] = "complete" => outcome[t] = "complete"
    BY <1>t, <2>1
  <2> QED BY <1>t, <2>1, <2>2 DEF StatsOK
<1>4. CASE UNCHANGED vars
  BY <1>t, <1>4 DEF StatsOK, vars, streamVars
<1> QED BY <1>1, <1>2, <1>3, <1>4 DEF Next

LEMMA CountedAligned == Counted => Aligned
<1> SUFFICES ASSUME Counted PROVE Aligned
  OBVIOUS
<1>t. PlanOK /\ SampleOK /\ StatsOK /\ SizesOK
  BY DEF Counted
<1>1. TypeOK
  <2>1. frames \in [Streams -> Lengths]
    BY <1>t DEF SizesOK
  <2>2. size \in [Streams -> 1..MaxFrames]
    <3>2. MaxFrames \in Int
      BY <1>t, SizesBounds DEF PlanOK
    <3>3. size \in [Streams -> Nat \ {0}] /\ \A s \in Streams : size[s] <= MaxFrames
      BY <1>t DEF PlanOK, SizesOK
    <3>4. ASSUME NEW s \in Streams PROVE size[s] \in 1..MaxFrames
      <4>1. size[s] \in Nat \ {0} /\ size[s] <= MaxFrames
        BY <3>3
      <4> QED BY <3>2, <4>1
    <3> QED BY <3>3, <3>4
  <2> QED BY <1>t, <2>1, <2>2 DEF TypeOK, PlanOK, SampleOK, StatsOK, StatsRecord, Outcomes
<1>2. StatsOfTheStream
  BY <1>t DEF StatsOfTheStream, StatsOK
<1>3. ASSUME NEW s \in Streams
      PROVE  /\ Len(audio[s]) = Position(s) * Hop
             /\ \A k \in 1..Len(audio[s]) : \A x \in audio[s][k] : x.at = k - 1
  <2>1. OutRight(audio[s], 0, Position(s) * Hop, FadedAt(s)) /\ Position(s) \in 0..frames[s]
        /\ frames[s] \in Nat
    BY <1>t DEF SampleOK, PlanOK
  <2>2. PICK p \in Nat : p = Position(s)
    BY <2>1
  <2>3. p * Hop \in Int
    BY <2>2, MulMono
  <2>4. Len(audio[s]) = p * Hop
    <3>1. Len(audio[s]) = p * Hop - 0
      BY <2>1, <2>2, Zenon DEF OutRight
    <3> QED BY <2>3, <3>1
  <2>5. ASSUME NEW k \in 1..Len(audio[s]), NEW x \in audio[s][k] PROVE x.at = k - 1
    <3>1. Fine(x, 0 + (k - 1), FadedAt(s))
      BY <2>1, Zenon DEF OutRight
    <3>2. 0 + (k - 1) = k - 1
      BY <2>3, <2>4
    <3> QED BY <3>1, <3>2 DEF Fine
  <2> QED BY <2>2, <2>4, <2>5
<1> QED BY <1>1, <1>2, <1>3 DEF Aligned

LEMMA NextCounted == Counted /\ [Next]_vars => Counted'
BY NextPlan, NextSamples, NextWalk, NextStatsOK, NextSizes DEF Counted

\* Every output sample is where it belongs, whatever the context, and the stats
\* of a stream that no other was resumed beside are its own (Aligned).
THEOREM AudioIsAligned == Spec => []Aligned
<1> QED BY InitCounted, NextCounted, CountedAligned, PTL DEF Spec
=============================================================================
