--------------------------- MODULE TtsStreamProofs ---------------------------
(***************************************************************************)
(* Proofs, for every configuration ReadConfig accepts and for utterances   *)
(* and batches of any length, of the safety invariants of TtsStream and of *)
(* its refinement of AudioStream.                                          *)
(***************************************************************************)
EXTENDS TtsStream, SequenceTheorems, TLAPS

LEMMA Config ==
    /\ First \in Int /\ Max \in Int /\ 1 <= First /\ First <= Max
    /\ Overlap \in Nat
    /\ GrowthNum \in Nat /\ GrowthDen \in Nat \ {0}
    /\ MinWindow \in Nat
BY ConfigAssumption DEF ReadConfig

InRequest == {"validate", "plan", "decode", "respond", "cleanup"}

\* The plan tiles the utterance from its first frame with chunks of at most Max
\* frames, and where the instance is in it.
PlanOK ==
    /\ r = Count + 1 <=> pc = "done"
    /\ a = IF chunks = <<>> THEN 0 ELSE chunks[Len(chunks)][2]
    /\ \A k \in 1..Len(chunks) :
         /\ chunks[k][1] = IF k = 1 THEN 0 ELSE chunks[k - 1][2]
         /\ chunks[k][1] < chunks[k][2]
         /\ chunks[k][2] <= frames[r]
         /\ chunks[k][2] - chunks[k][1] <= Max
    /\ pc \in {"factory", "validate", "done"} => chunks = <<>>
    /\ pc \in {"factory", "validate", "plan", "done"} => i = 1
    /\ pc # "cleanup" => ~failed
    /\ pc \in {"plan", "decode", "respond"} => frames[r] >= 1
    /\ pc \in {"decode", "respond"} => a = frames[r] /\ i <= Len(chunks) + 1
    /\ pc = "respond" => i <= Len(chunks)

LEMMA NextSizeType == \A s \in 1..Max : NextSize(s) \in 1..Max
<1> SUFFICES ASSUME NEW s \in 1..Max PROVE NextSize(s) \in 1..Max
  OBVIOUS
<1>1. (s * GrowthNum) \div GrowthDen \in Int
  BY Config
<1> QED BY <1>1, Config DEF NextSize, Smaller, Larger

LEMMA InitType == Init => TypeOK /\ PlanOK /\ ReleasedOnce
<1> SUFFICES ASSUME Init PROVE TypeOK /\ PlanOK /\ ReleasedOnce
  OBVIOUS
<1>1. r = 1 /\ 1 \in 1..(Count + 1) /\ Count + 1 # 1 /\ First \in 1..Max
  BY Config, InputAssumption DEF Init
<1>2. TypeOK
  <2>1. /\ <<>> \in Seq(Piece) /\ <<>> \in Seq(Message)
        /\ "factory" \in Labels /\ 1 \in Nat \ {0} /\ 0 \in Nat
    BY DEF Labels
  <2>2. /\ wire \in [Requests -> Seq(Message)] /\ played \in [Requests -> Seq(Piece)]
        /\ released \in [Requests -> Nat] /\ finals \in [Requests -> Nat]
    BY <2>1 DEF Init
  <2>3. /\ closed \in [Requests -> BOOLEAN]
        /\ outcome \in [Requests -> {"streaming", "complete", "failed"}]
        /\ failed \in BOOLEAN /\ factory \in BOOLEAN
    BY Zenon DEF Init
  <2>4. /\ frames \in [Requests -> TotalFrames] /\ wellFormed \in [Requests -> BOOLEAN]
        /\ pc \in Labels /\ chunks \in Seq(Piece) /\ a \in Nat /\ i \in Nat \ {0}
        /\ size \in 1..Max /\ r \in 1..(Count + 1)
    BY <1>1, <2>1 DEF Init
  <2>5. lost \in [Requests -> SUBSET Nat] BY DEF Init
  <2> QED BY <2>2, <2>3, <2>4, <2>5, Zenon DEF TypeOK
<1>3. PlanOK BY <1>1 DEF Init, PlanOK
<1>4. \A q \in Requests : ~(q < 1) BY InputAssumption DEF Requests
<1>5. ReleasedOnce BY <1>1, <1>4 DEF Init, ReleasedOnce
<1> QED BY <1>2, <1>3, <1>5

\* The messages the instance sends.
LEMMA SendType ==
    ASSUME TypeOK, r \in Requests, NEW m \in Message, Send(m)
    PROVE  /\ wire' \in [Requests -> Seq(Message)]
           /\ finals' \in [Requests -> Nat]
           /\ closed' \in [Requests -> BOOLEAN]
<1>1. m.final \in BOOLEAN BY DEF Message
<1> QED BY <1>1 DEF TypeOK, Send

LEMMA FailType ==
    ASSUME TypeOK, r \in Requests, Fail
    PROVE  /\ wire' \in [Requests -> Seq(Message)]
           /\ finals' \in [Requests -> Nat]
           /\ closed' \in [Requests -> BOOLEAN]
           /\ released' \in [Requests -> Nat]
           /\ factory' \in BOOLEAN
<1>1. Error \in Message BY DEF Error, Message, Piece
<1>2. /\ wire' \in [Requests -> Seq(Message)]
      /\ finals' \in [Requests -> Nat]
      /\ closed' \in [Requests -> BOOLEAN]
  <2>1. CASE Send(Error) BY <1>1, <2>1, SendType
  <2>2. CASE UNCHANGED <<wire, finals, closed>> BY <2>2 DEF TypeOK
  <2> QED BY <2>1, <2>2 DEF Fail
<1>3. released' \in [Requests -> Nat] BY DEF Fail, Release, TypeOK
<1>4. factory' \in BOOLEAN BY DEF Fail
<1> QED BY <1>2, <1>3, <1>4

\* The end of an iteration leaves the instance at the start of the next one.
LEMMA NextRequestType ==
    ASSUME TypeOK, r \in Requests, NextRequest
    PROVE  /\ r' \in 1..(Count + 1) /\ pc' \in Labels
           /\ a' \in Nat /\ size' \in 1..Max /\ i' \in Nat \ {0}
           /\ chunks' \in Seq(Piece) /\ failed' \in BOOLEAN
           /\ r' = r + 1 /\ chunks' = <<>> /\ a' = 0 /\ i' = 1 /\ ~failed'
           /\ pc' = IF r' = Count + 1 THEN "done" ELSE "factory"
<1>1. First \in 1..Max BY Config
<1>2. r' = r + 1 /\ r' \in 1..(Count + 1) /\ (r < Count <=> r' # Count + 1)
  BY InputAssumption DEF NextRequest, Requests
<1>3. pc' = IF r' = Count + 1 THEN "done" ELSE "factory"
  BY <1>2 DEF NextRequest, GoTo
<1>4. pc' \in Labels BY <1>3 DEF Labels
<1>5. /\ a' = 0 /\ size' \in 1..Max /\ i' = 1 /\ chunks' = <<>>
      /\ failed' \in BOOLEAN /\ ~failed'
  BY <1>1 DEF NextRequest
<1>6. 0 \in Nat /\ 1 \in Nat \ {0} /\ <<>> \in Seq(Piece)
  OBVIOUS
<1> QED BY <1>2, <1>3, <1>4, <1>5, <1>6, Zenon

\* The backend only moves inside a request.
LEMMA AtRequest ==
    ASSUME TypeOK, PlanOK, Backend
    PROVE  pc # "done" /\ r \in Requests
<1>1. pc # "done"
  BY DEF Backend, NewFactory, NoFactory, Accept, Reject, PlanChunk,
     PlanDone, Decode, Respond, Abort, EndLoop, Cleanup
<1>2. r # Count + 1 BY <1>1 DEF PlanOK
<1>3. r \in 1..(Count + 1) BY DEF TypeOK
<1> QED BY <1>1, <1>2, <1>3, InputAssumption DEF Requests

LEMMA BackendType == TypeOK /\ PlanOK /\ Backend => TypeOK'
<1> SUFFICES ASSUME TypeOK, PlanOK, Backend PROVE TypeOK'
  OBVIOUS
<1>r. r \in Requests BY AtRequest
<1>1. CASE NewFactory \/ Accept \/ PlanDone \/ Decode \/ EndLoop
  BY <1>1 DEF NewFactory, Accept, PlanDone, Decode, EndLoop, GoTo, TypeOK, Labels,
              planning, gateway
<1>2. CASE NoFactory
  <2>1. released' \in [Requests -> Nat] BY <1>2, <1>r DEF NoFactory, Release, TypeOK
  <2> QED BY <1>2, <2>1, <1>r, NextRequestType DEF NoFactory, TypeOK, gateway
<1>3. CASE Reject
  BY <1>3, <1>r, NextRequestType, FailType DEF Reject, TypeOK, gateway
<1>4. CASE PlanChunk
  <2>0. frames[r] \in Nat /\ a \in Nat /\ size \in Nat
    <3>1. /\ frames \in [Requests -> TotalFrames] /\ TotalFrames \subseteq Nat
          /\ a \in Nat /\ size \in 1..Max
      BY InputAssumption, Zenon DEF TypeOK
    <3>2. frames[r] \in TotalFrames BY <3>1, <1>r
    <3>3. frames[r] \in Nat BY <3>1, <3>2, Zenon
    <3>4. size \in Nat BY <3>1, Config
    <3> QED BY <3>1, <3>3, <3>4, Zenon
  <2>1. Smaller(a + size, frames[r]) \in Nat
    BY <2>0 DEF Smaller
  <2>2. chunks' \in Seq(Piece) /\ a' \in Nat
    BY <1>4, <2>1 DEF PlanChunk, TypeOK, Piece
  <2>3. size' \in 1..Max BY <1>4, NextSizeType DEF PlanChunk, TypeOK
  <2> QED BY <1>4, <2>2, <2>3 DEF PlanChunk, TypeOK, gateway
<1>5. CASE Respond
  <2>1. chunks[i] \in Piece
    BY <1>5 DEF Respond, PlanOK, TypeOK
  <2>2. /\ wire' \in [Requests -> Seq(Message)]
        /\ finals' \in [Requests -> Nat]
        /\ closed' \in [Requests -> BOOLEAN]
        /\ lost' \in [Requests -> SUBSET Nat]
    <3>1. ASSUME NEW told \in BOOLEAN,
                 Send([kind |-> "chunk", piece |-> chunks[i],
                       final |-> (i = Len(chunks)), isFinal |-> told]),
                 UNCHANGED lost
          PROVE  /\ wire' \in [Requests -> Seq(Message)]
                 /\ finals' \in [Requests -> Nat]
                 /\ closed' \in [Requests -> BOOLEAN]
                 /\ lost' \in [Requests -> SUBSET Nat]
      <4>1. [kind |-> "chunk", piece |-> chunks[i],
             final |-> (i = Len(chunks)), isFinal |-> told] \in Message
        BY <2>1 DEF Message
      <4>2. lost' \in [Requests -> SUBSET Nat] BY <3>1 DEF TypeOK
      <4> QED BY <1>r, <3>1, <4>1, <4>2, SendType
    <3>2. ASSUME LoseChunk(chunks[i]) PROVE /\ wire' \in [Requests -> Seq(Message)]
                 /\ finals' \in [Requests -> Nat]
                 /\ closed' \in [Requests -> BOOLEAN]
                 /\ lost' \in [Requests -> SUBSET Nat]
      <4>1. chunks[i][1] \in Nat BY <2>1 DEF Piece
      <4>2. chunks[i][1]..(chunks[i][2] - 1) \subseteq Nat BY <2>1 DEF Piece
      <4>3. lost' \in [Requests -> SUBSET Nat]
        BY <3>2, <4>2 DEF LoseChunk, TypeOK
      <4>4. UNCHANGED <<wire, finals, closed>> BY <3>2 DEF LoseChunk
      <4> QED BY <4>3, <4>4 DEF TypeOK
    <3> QED BY <1>5, <3>1, <3>2 DEF Respond
  <2>3. UNCHANGED <<frames, wellFormed, r, a, size, chunks, failed, factory, released,
                    played, outcome>> /\ pc' = "decode" /\ i' = i + 1
    BY <1>5 DEF Respond, GoTo
  <2> QED BY <2>2, <2>3 DEF TypeOK, Labels
<1>6. CASE Abort
  BY <1>6, <1>r, FailType DEF Abort, GoTo, TypeOK, Labels, planning, gateway
<1>7. CASE Cleanup
  <2>1. released' \in [Requests -> Nat]
    BY <1>7, <1>r DEF Cleanup, Release, TypeOK
  <2>2. factory' \in BOOLEAN
    BY <1>7 DEF Cleanup, TypeOK
  <2>3. NextRequest /\ UNCHANGED <<frames, wellFormed, finals, wire, closed, gateway>>
    BY <1>7 DEF Cleanup
  <2> QED BY <2>1, <2>2, <2>3, <1>r, NextRequestType DEF TypeOK, gateway
<1> QED BY <1>1, <1>2, <1>3, <1>4, <1>5, <1>6, <1>7 DEF Backend

LEMMA ReceiveType ==
    ASSUME TypeOK, NEW q \in Requests,
           Receive(q) \/ CallbackFails(q) \/ RecvFails(q)
    PROVE  TypeOK'
<1>w. wire[q] # <<>> => /\ Head(wire[q]).piece \in Piece
                        /\ Tail(wire[q]) \in Seq(Message)
  <2>1. wire[q] \in Seq(Message) BY DEF TypeOK
  <2>2. wire[q] # <<>> => Head(wire[q]) \in Message /\ Tail(wire[q]) \in Seq(Message)
    BY <2>1
  <2>3. \A m \in Message : m.piece \in Piece BY DEF Message
  <2> QED BY <2>2, <2>3
<1>o. \A end \in {"complete", "failed"} :
        Returns(q, end) => outcome' \in [Requests -> {"streaming", "complete", "failed"}]
  BY DEF TypeOK, Returns
<1>1. CASE RecvChunk(q)
  <2>1. played' \in [Requests -> Seq(Piece)] /\ wire' \in [Requests -> Seq(Message)]
    BY <1>1, <1>w DEF RecvChunk, Consume, TypeOK
  <2>2. outcome' \in [Requests -> {"streaming", "complete", "failed"}]
    BY <1>1, <1>o DEF RecvChunk, TypeOK
  <2>3. UNCHANGED backend BY <1>1 DEF RecvChunk
  <2> QED BY <2>1, <2>2, <2>3 DEF TypeOK, backend, planning
<1>2. CASE CallbackFails(q) \/ RecvError(q)
  <2>1. wire' \in [Requests -> Seq(Message)]
    BY <1>2, <1>w DEF CallbackFails, RecvError, Consume, TypeOK
  <2>2. outcome' \in [Requests -> {"streaming", "complete", "failed"}]
    BY <1>2, <1>o DEF CallbackFails, RecvError
  <2>3. UNCHANGED <<backend, played>> BY <1>2 DEF CallbackFails, RecvError
  <2> QED BY <2>1, <2>2, <2>3 DEF TypeOK, backend, planning
<1>3. CASE RecvEOF(q) \/ RecvFails(q)
  <2>1. outcome' \in [Requests -> {"streaming", "complete", "failed"}]
    BY <1>3, <1>o DEF RecvEOF, RecvFails
  <2>2. UNCHANGED <<backend, wire, played>> BY <1>3 DEF RecvEOF, RecvFails
  <2> QED BY <2>1, <2>2 DEF TypeOK, backend, planning
<1> QED BY <1>1, <1>2, <1>3 DEF Receive
-----------------------------------------------------------------------------
(* The plan. *)

LEMMA PlanChunkPlan == TypeOK /\ PlanOK /\ PlanChunk => PlanOK'
<1> SUFFICES ASSUME TypeOK, PlanOK, PlanChunk PROVE PlanOK'
  OBVIOUS
<1>1. r \in Requests BY AtRequest DEF Backend
<1>2. /\ frames[r] \in Nat /\ a \in Nat /\ size \in 1..Max /\ chunks \in Seq(Piece)
  <2>1. frames \in [Requests -> TotalFrames] BY Zenon DEF TypeOK
  <2>2. frames[r] \in TotalFrames BY <2>1, <1>1
  <2> QED BY <2>2, InputAssumption, Zenon DEF TypeOK
<1> DEFINE b == Smaller(a + size, frames[r])
<1>3. /\ chunks' = Append(chunks, <<a, b>>) /\ a' = b /\ a < frames[r]
      /\ pc = "plan" /\ UNCHANGED <<frames, r, pc, i, failed>>
  BY DEF PlanChunk
<1>4. b \in Nat /\ a < b /\ b <= frames[r] /\ b - a <= Max
  BY <1>2, <1>3, Config DEF Smaller
<1> HIDE DEF b
<1>5. <<a, b>>[1] = a /\ <<a, b>>[2] = b /\ <<a, b>> \in Piece
  BY <1>2, <1>4 DEF Piece
<1>6. /\ Len(chunks') = Len(chunks) + 1 /\ Len(chunks) \in Nat
      /\ chunks'[Len(chunks) + 1] = <<a, b>>
      /\ \A k \in 1..Len(chunks) : chunks'[k] = chunks[k]
  BY <1>2, <1>3, <1>5
<1>7. a' = IF chunks' = <<>> THEN 0 ELSE chunks'[Len(chunks')][2]
  BY <1>3, <1>5, <1>6
<1>8. \A k \in 1..Len(chunks') :
         /\ chunks'[k][1] = IF k = 1 THEN 0 ELSE chunks'[k - 1][2]
         /\ chunks'[k][1] < chunks'[k][2]
         /\ chunks'[k][2] <= frames[r]
         /\ chunks'[k][2] - chunks'[k][1] <= Max
  <2> TAKE k \in 1..Len(chunks')
  <2>1. CASE k \in 1..Len(chunks)
    <3>1. k # 1 => k - 1 \in 1..Len(chunks) BY <2>1, <1>6
    <3> QED BY <2>1, <3>1, <1>6 DEF PlanOK
  <2>2. CASE k = Len(chunks) + 1
    <3>1. chunks'[k][1] = a /\ chunks'[k][2] = b BY <2>2, <1>5, <1>6
    <3>2. k # 1 => k - 1 \in 1..Len(chunks) /\ k - 1 = Len(chunks) /\ chunks # <<>>
      BY <2>2, <1>6
    <3>3. k = 1 => chunks = <<>> BY <2>2, <1>2
    <3>4. chunks'[k][1] = IF k = 1 THEN 0 ELSE chunks'[k - 1][2]
      BY <3>1, <3>2, <3>3, <1>6 DEF PlanOK
    <3> QED BY <3>1, <3>4, <1>4
  <2> QED BY <2>1, <2>2, <1>6
<1>9. /\ frames'[r'] = frames[r] /\ (r' = Count + 1 <=> pc' = "done")
      /\ pc' = "plan" /\ i' = 1 /\ ~failed' /\ frames[r] >= 1
  BY <1>3 DEF PlanOK
<1> QED BY <1>3, <1>7, <1>8, <1>9, ZenonT(60) DEF PlanOK

LEMMA NextRequestPlan ==
    ASSUME TypeOK, r \in Requests, NextRequest
    PROVE  PlanOK'
<1>1. /\ chunks' = <<>> /\ a' = 0 /\ i' = 1 /\ ~failed' /\ Len(chunks') = 0
      /\ pc' = IF r' = Count + 1 THEN "done" ELSE "factory"
  BY NextRequestType
<1> QED BY <1>1 DEF PlanOK

LEMMA BackendPlan == TypeOK /\ PlanOK /\ Backend => PlanOK'
<1> SUFFICES ASSUME TypeOK, PlanOK, Backend PROVE PlanOK'
  OBVIOUS
<1>r. r \in Requests BY AtRequest
<1>1. CASE NewFactory \/ Accept
  <2>1. UNCHANGED <<frames, r, planning, failed>> /\ pc' \in {"validate", "plan"}
        /\ pc \in {"factory", "validate"} /\ (pc' = "plan" => frames[r] >= 1)
    BY <1>1 DEF NewFactory, Accept, GoTo
  <2> QED BY <2>1 DEF PlanOK, planning
<1>2. CASE NoFactory \/ Reject \/ Cleanup
  BY <1>2, <1>r, NextRequestPlan DEF NoFactory, Reject, Cleanup
<1>3. CASE PlanChunk
  BY <1>3, PlanChunkPlan
<1>4. CASE PlanDone
  <2>1. UNCHANGED <<frames, r, planning, failed>> /\ pc = "plan" /\ pc' = "decode"
        /\ a >= frames[r]
    BY <1>4 DEF PlanDone, GoTo
  <2>2. chunks \in Seq(Piece) /\ Len(chunks) \in Nat BY DEF TypeOK
  <2>n. frames[r] \in Nat /\ a \in Nat
    <3>1. frames \in [Requests -> TotalFrames] /\ a \in Nat BY Zenon DEF TypeOK
    <3>2. frames[r] \in TotalFrames BY <3>1, <1>r
    <3> QED BY <3>1, <3>2, InputAssumption
  <2>3. chunks # <<>>
    <3>1. frames[r] >= 1 /\ (chunks = <<>> => a = 0) BY <2>1 DEF PlanOK
    <3> QED BY <3>1, <2>n, <2>1
  <2>4. Len(chunks) \in 1..Len(chunks) BY <2>2, <2>3
  <2>5. a = chunks[Len(chunks)][2] /\ chunks[Len(chunks)][2] <= frames[r]
    BY <2>3, <2>4 DEF PlanOK
  <2>6. a = frames[r] BY <2>n, <2>1, <2>5
  <2>7. i = 1 /\ i <= Len(chunks) + 1 BY <2>1, <2>2 DEF PlanOK
  <2> QED BY <2>1, <2>6, <2>7 DEF PlanOK, planning
<1>5. CASE Decode \/ EndLoop
  <2>1. UNCHANGED <<frames, r, planning, failed>> /\ pc = "decode"
        /\ (pc' = "cleanup" \/ (pc' = "respond" /\ i <= Len(chunks)))
    BY <1>5 DEF Decode, EndLoop, GoTo
  <2> QED BY <2>1 DEF PlanOK, planning
<1>6. CASE Respond
  <2>1. UNCHANGED <<frames, r, a, chunks, failed>> /\ pc = "respond"
        /\ pc' = "decode" /\ i' = i + 1
    BY <1>6 DEF Respond, GoTo
  <2>2. i' <= Len(chunks) + 1
    <3>1. i \in Nat /\ Len(chunks) \in Nat BY DEF TypeOK
    <3>2. i <= Len(chunks) BY <2>1 DEF PlanOK
    <3> QED BY <3>1, <3>2, <2>1
  <2> QED BY <2>1, <2>2 DEF PlanOK
<1>7. CASE Abort
  <2>1. UNCHANGED <<frames, r, planning>> /\ pc \in {"decode", "respond"}
        /\ pc' = "cleanup"
    BY <1>7 DEF Abort, GoTo
  <2> QED BY <2>1 DEF PlanOK, planning
<1> QED BY <1>1, <1>2, <1>3, <1>4, <1>5, <1>6, <1>7 DEF Backend

LEMMA ReceivePlan ==
    ASSUME PlanOK, NEW q \in Requests,
           Receive(q) \/ CallbackFails(q) \/ RecvFails(q)
    PROVE  PlanOK'
<1>1. UNCHANGED backend
  BY DEF Receive, RecvChunk, RecvError, RecvEOF, CallbackFails, RecvFails
<1> QED BY <1>1 DEF backend, planning, PlanOK
-----------------------------------------------------------------------------
(* Releases. *)

\* What a released request and a dropped factory make of ReleasedOnce when the
\* iteration ends.
LEMMA ReleaseEnds ==
    ASSUME TypeOK, ReleasedOnce, r \in Requests, NextRequest, ~factory',
           \/ Release /\ released[r] = 0
           \/ UNCHANGED released /\ released[r] = 1
    PROVE  ReleasedOnce'
<1>1. /\ r' = r + 1 /\ pc' \in {"factory", "done"}
  BY NextRequestType
<1>2. r \in Int /\ Requests \subseteq Int /\ released \in [Requests -> Nat]
  BY DEF TypeOK, Requests
<1>3. \A q \in Requests : released'[q] = IF q = r THEN 1 ELSE released[q]
  BY <1>2 DEF Release
<1>4. \A q \in Requests : released'[q] = IF q < r' THEN 1 ELSE 0
  <2> TAKE q \in Requests
  <2>1. q \in Int /\ (q < r' <=> q < r \/ q = r) BY <1>1, <1>2
  <2>2. CASE q = r BY <2>1, <2>2, <1>3
  <2>3. CASE q # r
    <3>1. released[q] = IF q < r THEN 1 ELSE 0 BY <2>3 DEF ReleasedOnce
    <3> QED BY <3>1, <2>1, <2>3, <1>3
  <2> QED BY <2>2, <2>3
<1>5. pc' # "cleanup" /\ pc' \notin {"validate", "plan", "decode", "respond"}
  BY <1>1
<1> QED BY <1>4, <1>5 DEF ReleasedOnce

LEMMA BackendReleases == TypeOK /\ PlanOK /\ ReleasedOnce /\ Backend => ReleasedOnce'
<1> SUFFICES ASSUME TypeOK, PlanOK, ReleasedOnce, Backend PROVE ReleasedOnce'
  OBVIOUS
<1>r. r \in Requests /\ r \in Int /\ Requests \subseteq Int
  BY AtRequest DEF Requests
<1>0. released[r] = IF pc = "cleanup" /\ failed THEN 1 ELSE 0
  <2>1. ~(r < r) BY <1>r
  <2> QED BY <1>r, <2>1 DEF ReleasedOnce
<1>1. CASE NewFactory
  <2>1. /\ UNCHANGED <<r, released>> /\ pc = "factory" /\ pc' = "validate" /\ factory'
    BY <1>1 DEF NewFactory, GoTo
  <2> QED BY <2>1 DEF ReleasedOnce
<1>2. CASE Accept \/ PlanChunk \/ PlanDone \/ Decode \/ Respond
  <2>1. /\ UNCHANGED <<r, released, factory>>
        /\ pc \in {"validate", "plan", "decode", "respond"}
        /\ pc' \in {"validate", "plan", "decode", "respond"}
    BY <1>2 DEF Accept, PlanChunk, PlanDone, Decode, Respond, GoTo, planning
  <2> QED BY <2>1 DEF ReleasedOnce
<1>3. CASE EndLoop
  <2>1. /\ UNCHANGED <<r, released, factory>> /\ pc = "decode" /\ pc' = "cleanup"
        /\ failed' = failed
    BY <1>3 DEF EndLoop, GoTo
  <2>2. ~failed BY <2>1 DEF PlanOK
  <2> QED BY <2>1, <2>2 DEF ReleasedOnce
<1>4. CASE NoFactory
  <2>1. pc = "factory" /\ Release /\ NextRequest /\ factory' = factory
    BY <1>4 DEF NoFactory
  <2>2. ~factory BY <2>1 DEF ReleasedOnce
  <2> QED BY <2>1, <2>2, <1>r, <1>0, ReleaseEnds
<1>5. CASE Reject
  <2>1. pc = "validate" /\ Release /\ NextRequest /\ ~factory'
    BY <1>5 DEF Reject, Fail
  <2> QED BY <2>1, <1>r, <1>0, ReleaseEnds
<1>6. CASE Cleanup
  <2>1. pc = "cleanup" /\ NextRequest BY <1>6 DEF Cleanup
  <2>2. CASE failed
    <3>1. UNCHANGED <<factory, released>> BY <1>6, <2>2 DEF Cleanup
    <3>2. ~factory BY <2>1, <2>2 DEF ReleasedOnce
    <3> QED BY <2>1, <2>2, <3>1, <3>2, <1>r, <1>0, ReleaseEnds
  <2>3. CASE ~failed
    <3>1. Release /\ ~factory' BY <1>6, <2>3 DEF Cleanup
    <3> QED BY <2>1, <2>3, <3>1, <1>r, <1>0, ReleaseEnds
  <2> QED BY <2>2, <2>3
<1>7. CASE Abort
  <2>1. /\ pc \in {"decode", "respond"} /\ pc' = "cleanup" /\ failed' /\ ~factory'
        /\ Release /\ r' = r
    BY <1>7 DEF Abort, GoTo, Fail
  <2>2. released \in [Requests -> Nat] BY DEF TypeOK
  <2>3. \A q \in Requests : released'[q] = IF q = r THEN 1 ELSE released[q]
    BY <2>1, <2>2, <1>0 DEF Release
  <2>4. \A q \in Requests : q # r => released[q] = IF q < r THEN 1 ELSE 0
    BY DEF ReleasedOnce
  <2>5. ~(r < r) BY <1>r
  <2>6. \A q \in Requests : released'[q] = IF q < r THEN 1 ELSE IF q = r THEN 1 ELSE 0
    BY <2>3, <2>4, <2>5
  <2> QED BY <2>1, <2>6 DEF ReleasedOnce
<1> QED BY <1>1, <1>2, <1>3, <1>4, <1>5, <1>6, <1>7 DEF Backend

Core == TypeOK /\ PlanOK /\ ReleasedOnce

\* Every step of the specification keeps the core invariant.
LEMMA CoreStep == Core /\ [Next]_vars => Core'
<1> SUFFICES ASSUME Core, [Next]_vars PROVE Core'
  OBVIOUS
<1>t. TypeOK /\ PlanOK /\ ReleasedOnce BY DEF Core
<1>1. CASE Backend
  BY <1>1, <1>t, BackendType, BackendPlan, BackendReleases DEF Core
<1>2. CASE \E q \in Requests : Receive(q) \/ CallbackFails(q) \/ RecvFails(q)
  <2>1. PICK q \in Requests : Receive(q) \/ CallbackFails(q) \/ RecvFails(q)
    BY <1>2
  <2>2. TypeOK' /\ PlanOK' BY <1>t, <2>1, ReceiveType, ReceivePlan
  <2>3. UNCHANGED backend
    BY <2>1 DEF Receive, RecvChunk, RecvError, RecvEOF, CallbackFails, RecvFails
  <2>4. ReleasedOnce' BY <1>t, <2>3 DEF ReleasedOnce, backend
  <2> QED BY <2>2, <2>4 DEF Core
<1>3. CASE UNCHANGED vars
  BY <1>3, <1>t DEF Core, TypeOK, PlanOK, ReleasedOnce, vars
<1> QED BY <1>1, <1>2, <1>3 DEF Next

THEOREM CoreInvariant == Spec => []Core
<1>1. Init => Core BY InitType DEF Core
<1> QED BY <1>1, CoreStep, PTL DEF Spec

\* Every variable keeps its type, whatever fails (TypeOK).
THEOREM TypeCorrect == Spec => []TypeOK
<1>1. Core => TypeOK BY DEF Core
<1> QED BY <1>1, CoreInvariant, PTL

\* Each request is released exactly once and its factory deleted with it, on the
\* paths of success and of every failure (ReleasedOnce).
THEOREM ReleasesExact == Spec => []ReleasedOnce
<1>1. Core => ReleasedOnce BY DEF Core
<1> QED BY <1>1, CoreInvariant, PTL
-----------------------------------------------------------------------------
(* Windows. *)

\* What the planner's invariant says of one chunk.
LEMMA PlannedChunk ==
    ASSUME TypeOK, PlanOK, NEW k \in 1..Len(chunks)
    PROVE  /\ chunks[k][1] \in Nat /\ chunks[k][2] \in Nat /\ frames[r] \in Nat
           /\ chunks[k][1] < chunks[k][2] /\ chunks[k][2] <= frames[r]
           /\ chunks[k][2] - chunks[k][1] <= Max
<1>1. chunks \in Seq(Piece) BY DEF TypeOK
<1>2. chunks[k] \in Piece BY <1>1
<1>3. pc # "done" /\ r \in Requests
  <2>1. chunks # <<>> BY <1>1
  <2>2. pc # "done" BY <2>1 DEF PlanOK
  <2>3. r # Count + 1 /\ r \in 1..(Count + 1) BY <2>2 DEF PlanOK, TypeOK
  <2> QED BY <2>2, <2>3, InputAssumption DEF Requests
<1>4. frames[r] \in Nat
  <2>1. frames \in [Requests -> TotalFrames] BY Zenon DEF TypeOK
  <2>2. frames[r] \in TotalFrames BY <2>1, <1>3
  <2> QED BY <2>2, InputAssumption
<1> QED BY <1>2, <1>4 DEF Piece, PlanOK

\* No window leaves the buffers, for every configuration ReadConfig accepts and
\* every chunk_growth and min_window_frames (WindowFits).
THEOREM WindowsFit == Spec => []WindowFits
<1>1. Core => WindowFits
  <2> SUFFICES ASSUME Core, NEW k \in 1..Len(chunks)
               PROVE  /\ Window(chunks[k], frames[r]) <= MaxWindow
                      /\ Lo(chunks[k]) <= chunks[k][1] /\ chunks[k][1] < chunks[k][2]
                      /\ chunks[k][2] <= Hi(chunks[k], frames[r])
    BY DEF WindowFits
  <2>1. /\ chunks[k][1] \in Nat /\ chunks[k][2] \in Nat /\ frames[r] \in Nat
        /\ chunks[k][1] < chunks[k][2] /\ chunks[k][2] <= frames[r]
        /\ chunks[k][2] - chunks[k][1] <= Max
    BY PlannedChunk DEF Core
  <2> DEFINE from == chunks[k][1]
             to   == chunks[k][2]
             t    == frames[r]
  <2>2. /\ from \in Nat /\ to \in Nat /\ t \in Nat /\ from < to /\ to <= t
        /\ to - from <= Max /\ Overlap \in Nat /\ Max \in Int /\ MinWindow \in Nat
    BY <2>1, Config
  <2>3. /\ Lo(chunks[k]) = IF 0 > from - Overlap THEN 0 ELSE from - Overlap
        /\ Hi(chunks[k], t) = IF t < to + Overlap THEN t ELSE to + Overlap
    BY DEF Lo, Hi, Larger, Smaller
  <2> HIDE DEF from, to, t
  <2>4. /\ Lo(chunks[k]) \in Nat /\ Hi(chunks[k], t) \in Nat
        /\ Lo(chunks[k]) <= from /\ to <= Hi(chunks[k], t)
        /\ Hi(chunks[k], t) - Lo(chunks[k]) <= Max + 2 * Overlap
    BY <2>2, <2>3
  <2>5. Window(chunks[k], t) <= MaxWindow
    BY <2>2, <2>4 DEF Window, MaxWindow, Larger
  <2> QED BY <2>2, <2>4, <2>5 DEF from, to, t
<1> QED BY <1>1, CoreInvariant, PTL

\* Every frame is decoded with its receptive field (ContextComplete).
THEOREM FullContext == Spec => []ContextComplete
<1>1. Core => ContextComplete
  <2> SUFFICES ASSUME Core, NEW k \in 1..Len(chunks),
                      NEW x \in chunks[k][1]..(chunks[k][2] - 1)
               PROVE  /\ Lo(chunks[k]) <= Larger(0, x - Overlap)
                      /\ Smaller(frames[r], x + Overlap + 1) <= Hi(chunks[k], frames[r])
    BY DEF ContextComplete
  <2> DEFINE from == chunks[k][1]
             to   == chunks[k][2]
             t    == frames[r]
  <2>1. /\ from \in Nat /\ to \in Nat /\ t \in Nat /\ Overlap \in Nat
        /\ x \in from..(to - 1)
    BY PlannedChunk, Config DEF Core
  <2>2. /\ Lo(chunks[k]) = IF 0 > from - Overlap THEN 0 ELSE from - Overlap
        /\ Hi(chunks[k], t) = IF t < to + Overlap THEN t ELSE to + Overlap
    BY DEF Lo, Hi, Larger, Smaller
  <2> HIDE DEF from, to, t
  <2>3. Lo(chunks[k]) <= Larger(0, x - Overlap)
    BY <2>1, <2>2 DEF Larger
  <2>4. Smaller(t, x + Overlap + 1) <= Hi(chunks[k], t)
    BY <2>1, <2>2 DEF Smaller
  <2> QED BY <2>3, <2>4 DEF t
<1> QED BY <1>1, CoreInvariant, PTL
-----------------------------------------------------------------------------
(* The response streams. *)

Position(q) == IF played[q] = <<>> THEN 0 ELSE played[q][Len(played[q])][2]

\* The frame after the last one sent to a caller that has not given up.
SentTo(q) == IF wire[q] = <<>> THEN Position(q) ELSE wire[q][Len(wire[q])].piece[2]

\* From x on a caller may go on at y: what lies between was lost.
Gap(missing, x, y) == x <= y /\ \A n \in Nat : x <= n /\ n < y => n \in missing

\* FINAL ends a stream, and only FINAL does.
FinalOK(q) ==
    /\ finals[q] = IF closed[q] THEN 1 ELSE 0
    /\ \A k \in 1..Len(wire[q]) :
         /\ wire[q][k].final => k = Len(wire[q]) /\ closed[q]
         /\ wire[q][k].kind = "error" => wire[q][k].final
         /\ wire[q][k].isFinal => wire[q][k].final
    /\ closed[q] /\ wire[q] # <<>> => wire[q][Len(wire[q])].final

\* The chunks on a stream continue the ones its caller has had, but for what was
\* lost, and FINAL goes with the end of the utterance.
Before(q, k) == IF k = 1 THEN Position(q) ELSE wire[q][k - 1].piece[2]

OrderOK(q) ==
    outcome[q] = "streaming" =>
      /\ \A k \in 1..Len(wire[q]) : wire[q][k].kind = "chunk" =>
           /\ Gap(lost[q], Before(q, k), wire[q][k].piece[1])
           /\ wire[q][k].piece[1] < wire[q][k].piece[2]
           /\ wire[q][k].piece[2] <= frames[q]
           /\ wire[q][k].final <=> wire[q][k].piece[2] = frames[q]
      /\ closed[q] /\ wire[q] = <<>> => Position(q) = frames[q]

\* A request the instance has not started to decode has an untouched stream.
UntouchedOK(q) ==
    (q > r \/ (q = r /\ pc \in {"factory", "validate", "plan"})) =>
      ~closed[q] /\ wire[q] = <<>> /\ played[q] = <<>>

\* While a request is decoded its stream is open up to the last chunk, and the
\* next chunk continues it, but for what was lost.
DecodingOK(q) ==
    q = r /\ pc \in {"decode", "respond"} =>
      /\ closed[q] => i > Len(chunks)
      /\ outcome[q] = "streaming" /\ i <= Len(chunks) =>
           Gap(lost[q], SentTo(q), chunks[i][1])

StreamOK == \A q \in Requests : FinalOK(q) /\ OrderOK(q) /\ UntouchedOK(q) /\ DecodingOK(q)

\* A step that leaves the stream of q alone.
Same(q) ==
    /\ wire'[q] = wire[q] /\ closed'[q] = closed[q] /\ finals'[q] = finals[q]
    /\ played'[q] = played[q] /\ outcome'[q] = outcome[q] /\ frames'[q] = frames[q]
    /\ lost[q] \subseteq lost'[q]

LEMMA GapGrows ==
    ASSUME NEW missing, NEW more, missing \subseteq more, NEW x, NEW y, Gap(missing, x, y)
    PROVE  Gap(more, x, y)
BY DEF Gap

LEMMA SameKeeps ==
    ASSUME NEW q \in Requests, Same(q), FinalOK(q), OrderOK(q)
    PROVE  FinalOK(q)' /\ OrderOK(q)' /\ SentTo(q)' = SentTo(q)
<1>1. Position(q)' = Position(q) BY DEF Same, Position
<1>2. FinalOK(q)' BY DEF Same, FinalOK
<1>3. OrderOK(q)'
  <2>1. \A k \in 1..Len(wire[q]) : Before(q, k)' = Before(q, k)
    BY <1>1 DEF Same, Before
  <2>2. \A k \in 1..Len(wire[q]) :
          Gap(lost[q], Before(q, k), wire[q][k].piece[1]) =>
            Gap(lost'[q], Before(q, k), wire[q][k].piece[1])
    BY GapGrows DEF Same
  <2> QED BY <1>1, <2>1, <2>2 DEF Same, OrderOK
<1>4. SentTo(q)' = SentTo(q) BY <1>1 DEF Same, SentTo
<1> QED BY <1>2, <1>3, <1>4

LEMMA SendEffect ==
    ASSUME TypeOK, r \in Requests, NEW m \in Message, Send(m)
    PROVE  /\ wire'[r] = Append(wire[r], m)
           /\ finals'[r] = IF m.final THEN finals[r] + 1 ELSE finals[r]
           /\ closed'[r] = (closed[r] \/ m.final)
           /\ \A q \in Requests : q # r => /\ wire'[q] = wire[q]
                                         /\ finals'[q] = finals[q]
                                         /\ closed'[q] = closed[q]
<1>1. /\ wire \in [Requests -> Seq(Message)] /\ finals \in [Requests -> Nat]
      /\ closed \in [Requests -> BOOLEAN]
  BY Zenon DEF TypeOK
<1>2. /\ wire' = [wire EXCEPT ![r] = Append(@, m)]
      /\ finals' = [finals EXCEPT ![r] = IF m.final THEN @ + 1 ELSE @]
      /\ closed' = [closed EXCEPT ![r] = @ \/ m.final]
  BY DEF Send
<1>3. closed'[r] = (closed[r] \/ m.final)
  BY <1>1, <1>2, Zenon
<1>4. \A q \in Requests : q # r => closed'[q] = closed[q]
  BY <1>1, <1>2, Zenon
<1> QED BY <1>1, <1>2, <1>3, <1>4

\* A message that continues an open stream keeps it in order.
LEMMA SendKeeps ==
    ASSUME TypeOK, NEW q \in Requests, r = q, FinalOK(q), OrderOK(q), ~closed[q],
           UNCHANGED <<frames, played, outcome, lost>>,
           NEW m \in Message, Send(m),
           m.kind = "error" \/ m.isFinal => m.final,
           m.kind = "chunk" /\ outcome[q] = "streaming" =>
             /\ Gap(lost[q], SentTo(q), m.piece[1]) /\ m.piece[1] < m.piece[2]
             /\ m.piece[2] <= frames[q] /\ (m.final <=> m.piece[2] = frames[q])
    PROVE  FinalOK(q)' /\ OrderOK(q)' /\ SentTo(q)' = m.piece[2]
<1> DEFINE w == wire[q]
           n == Len(wire[q])
<1>1. w \in Seq(Message) /\ n \in Nat BY DEF TypeOK
<1>2. /\ wire'[q] = Append(w, m)
      /\ finals'[q] = IF m.final THEN finals[q] + 1 ELSE finals[q]
      /\ closed'[q] = m.final
  <2>1. closed'[q] = (closed[q] \/ m.final) BY SendEffect
  <2>2. m.final \in BOOLEAN BY DEF Message
  <2>3. closed'[q] = m.final BY <2>1, <2>2, Zenon
  <2> QED BY <2>3, SendEffect
<1>3. /\ Len(wire'[q]) = n + 1 /\ wire'[q][n + 1] = m /\ wire'[q] # <<>>
      /\ \A k \in 1..n : wire'[q][k] = w[k]
  BY <1>1, <1>2
<1>4. finals[q] = 0 /\ \A k \in 1..n : ~w[k].final
  <2>1. finals[q] = 0 BY DEF FinalOK
  <2>2. \A k \in 1..n : ~w[k].final BY DEF FinalOK
  <2> QED BY <2>1, <2>2
<1>5. Position(q)' = Position(q) BY DEF Position
<1>6. FinalOK(q)'
  <2>1. finals'[q] = IF closed'[q] THEN 1 ELSE 0 BY <1>2, <1>4
  <2>2. ASSUME NEW k \in 1..(n + 1)
        PROVE  /\ wire'[q][k].final => k = n + 1 /\ closed'[q]
               /\ wire'[q][k].kind = "error" => wire'[q][k].final
               /\ wire'[q][k].isFinal => wire'[q][k].final
    <3>1. CASE k = n + 1 BY <3>1, <1>2, <1>3
    <3>2. CASE k \in 1..n
      <4>1. /\ w[k].kind = "error" => w[k].final
            /\ w[k].isFinal => w[k].final
        BY <3>2 DEF FinalOK
      <4> QED BY <4>1, <3>2, <1>3, <1>4
    <3> QED BY <3>1, <3>2, <1>1
  <2>3. closed'[q] => wire'[q][n + 1].final BY <1>2, <1>3
  <2> HIDE DEF w, n
  <2> QED BY <2>1, <2>2, <2>3, <1>3 DEF FinalOK
<1>7. OrderOK(q)'
  <2> SUFFICES ASSUME outcome[q] = "streaming", NEW k \in 1..(n + 1),
                      wire'[q][k].kind = "chunk"
               PROVE  /\ Gap(lost[q], Before(q, k)', wire'[q][k].piece[1])
                      /\ wire'[q][k].piece[1] < wire'[q][k].piece[2]
                      /\ wire'[q][k].piece[2] <= frames[q]
                      /\ wire'[q][k].final <=> wire'[q][k].piece[2] = frames[q]
    <3> HIDE DEF w, n
    <3> QED BY <1>3, <1>5 DEF OrderOK
  <2>1. CASE k = n + 1
    <3>1. wire'[q][k] = m BY <2>1, <1>3
    <3>2. k # 1 => wire'[q][k - 1] = w[n] /\ w # <<>> BY <2>1, <1>1, <1>3
    <3>3. k = 1 => w = <<>> BY <2>1, <1>1
    <3>4. Before(q, k)' = SentTo(q)
      BY <3>1, <3>2, <3>3, <1>5 DEF SentTo, Before
    <3> QED BY <3>1, <3>4
  <2>2. CASE k \in 1..n
    <3>1. wire'[q][k] = w[k] BY <2>2, <1>3
    <3>2. k # 1 => wire'[q][k - 1] = w[k - 1]
      <4>1. k # 1 => k - 1 \in 1..n BY <2>2, <1>1
      <4> QED BY <4>1, <1>3
    <3>4. Before(q, k)' = Before(q, k) BY <3>2, <1>5 DEF Before
    <3>3. /\ Gap(lost[q], Before(q, k), w[k].piece[1])
          /\ w[k].piece[1] < w[k].piece[2]
          /\ w[k].piece[2] <= frames[q]
          /\ w[k].final <=> w[k].piece[2] = frames[q]
      BY <2>2, <3>1 DEF OrderOK
    <3> QED BY <3>1, <3>3, <3>4
  <2> QED BY <2>1, <2>2, <1>1
<1>8. SentTo(q)' = m.piece[2] BY <1>3 DEF SentTo
<1> QED BY <1>6, <1>7, <1>8

Inv == Core /\ StreamOK

LEMMA InitStream == Init => StreamOK
<1> SUFFICES ASSUME Init, NEW q \in Requests
             PROVE  FinalOK(q) /\ OrderOK(q) /\ UntouchedOK(q) /\ DecodingOK(q)
  BY DEF StreamOK
<1>1. /\ finals[q] = 0 /\ closed[q] = FALSE /\ wire[q] = <<>> /\ played[q] = <<>>
      /\ pc = "factory"
  BY DEF Init
<1>2. \A k \in 1..Len(wire[q]) : FALSE BY <1>1
<1>3. FinalOK(q) BY <1>1, <1>2 DEF FinalOK
<1>4. OrderOK(q) BY <1>1, <1>2 DEF OrderOK
<1> QED BY <1>1, <1>3, <1>4 DEF UntouchedOK, DecodingOK

\* What a backend step leaves alone on the gateway's side.
LEMMA BackendLeaves ==
    Backend => /\ UNCHANGED <<frames, played, outcome>>
               /\ Respond \/ UNCHANGED lost
BY DEF Backend, NewFactory, NoFactory, Accept, Reject, PlanChunk, PlanDone, Decode,
       Respond, Abort, EndLoop, Cleanup, gateway

\* Steps of the instance that send nothing.
LEMMA QuietStream ==
    ASSUME Inv, r \in Requests, UNCHANGED <<frames, lost, played, outcome>>,
           NewFactory \/ NoFactory \/ Accept \/ PlanChunk \/ PlanDone \/ Decode
             \/ EndLoop \/ Cleanup
    PROVE  StreamOK'
<1>t. TypeOK /\ PlanOK BY DEF Inv, Core
<1>u. UNCHANGED <<wire, closed, finals>>
  BY DEF NewFactory, NoFactory, Accept, PlanChunk, PlanDone, Decode, EndLoop, Cleanup
<1> SUFFICES ASSUME NEW q \in Requests
             PROVE  (FinalOK(q) /\ OrderOK(q) /\ UntouchedOK(q) /\ DecodingOK(q))'
  BY DEF StreamOK
<1>q. FinalOK(q) /\ OrderOK(q) /\ UntouchedOK(q) /\ DecodingOK(q)
  BY DEF Inv, StreamOK
<1>1. FinalOK(q)' /\ OrderOK(q)' /\ SentTo(q)' = SentTo(q)
  <2>1. Same(q) BY <1>u DEF Same
  <2> QED BY <2>1, <1>q, SameKeeps
<1>i. q \in Int /\ r \in Int BY DEF Requests
<1>2. CASE NewFactory \/ Accept \/ PlanChunk
  <2>1. r' = r /\ pc \in {"factory", "validate", "plan"}
        /\ pc' \in {"factory", "validate", "plan"}
    BY <1>2 DEF NewFactory, Accept, PlanChunk, GoTo
  <2>2. UntouchedOK(q)' BY <2>1, <1>q, <1>u DEF UntouchedOK
  <2>3. DecodingOK(q)' BY <2>1 DEF DecodingOK
  <2> QED BY <1>1, <2>2, <2>3
<1>3. CASE NoFactory \/ Cleanup
  <2>1. NextRequest BY <1>3 DEF NoFactory, Cleanup
  <2>2. r' = r + 1 /\ pc' \in {"factory", "done"}
    BY <2>1, <1>t, NextRequestType
  <2>3. q > r' \/ q = r' => q > r BY <2>2, <1>i
  <2>4. UntouchedOK(q)' BY <2>3, <1>q, <1>u DEF UntouchedOK
  <2>5. DecodingOK(q)' BY <2>2 DEF DecodingOK
  <2> QED BY <1>1, <2>4, <2>5
<1>4. CASE PlanDone
  <2>1. /\ r' = r /\ pc = "plan" /\ pc' = "decode" /\ UNCHANGED <<chunks, i, a>>
    BY <1>4 DEF PlanDone, GoTo, planning
  <2>2. UntouchedOK(q)' BY <2>1, <1>q, <1>u DEF UntouchedOK
  <2>3. PlanOK' BY <1>t, <1>4, BackendPlan DEF Backend
  <2>4. i' = 1 /\ chunks \in Seq(Piece) /\ Len(chunks) \in Nat
    BY <1>t, <2>1 DEF PlanOK, TypeOK
  <2>5. Len(chunks) >= 1 /\ chunks[1][1] = 0
    <3>1. frames[r] >= 1 /\ a' = frames[r] BY <2>1, <2>3 DEF PlanOK
    <3>2. chunks # <<>> BY <3>1, <2>1, <2>3 DEF PlanOK
    <3>3. 1 \in 1..Len(chunks) BY <3>2, <2>4
    <3> QED BY <3>3, <1>t DEF PlanOK
  <2>6. q = r => ~closed[q] /\ wire[q] = <<>> /\ played[q] = <<>>
    BY <2>1, <1>q DEF UntouchedOK
  <2>7. q = r => SentTo(q) = 0 BY <2>6 DEF SentTo, Position
  <2>8. DecodingOK(q)'
    BY <2>1, <2>4, <2>5, <2>6, <2>7, <1>1, <1>u DEF DecodingOK, Gap
  <2> QED BY <1>1, <2>2, <2>8
<1>5. CASE Decode \/ EndLoop
  <2>1. /\ r' = r /\ pc = "decode" /\ pc' \in {"respond", "cleanup"}
        /\ UNCHANGED <<chunks, i>>
    BY <1>5 DEF Decode, EndLoop, GoTo, planning
  <2>2. UntouchedOK(q)' BY <2>1, <1>q, <1>u DEF UntouchedOK
  <2>3. DecodingOK(q)'
    BY <2>1, <1>q, <1>u, <1>1 DEF DecodingOK
  <2> QED BY <1>1, <2>2, <2>3
<1> QED BY <1>2, <1>3, <1>4, <1>5

\* A failure, reported or not.
LEMMA FailStream ==
    ASSUME Inv, r \in Requests, UNCHANGED <<frames, lost, played, outcome>>,
           Reject \/ Abort
    PROVE  StreamOK'
<1>t. TypeOK /\ PlanOK BY DEF Inv, Core
<1>f. Fail BY DEF Reject, Abort
<1>e. Error \in Message /\ Error.kind = "error" /\ Error.final = TRUE
      /\ Error.isFinal = FALSE
  BY DEF Error, Message, Piece
<1> SUFFICES ASSUME NEW q \in Requests
             PROVE  (FinalOK(q) /\ OrderOK(q) /\ UntouchedOK(q) /\ DecodingOK(q))'
  BY DEF StreamOK
<1>q. FinalOK(q) /\ OrderOK(q) /\ UntouchedOK(q) /\ DecodingOK(q)
  BY DEF Inv, StreamOK
<1>i. q \in Int /\ r \in Int BY DEF Requests
<1>1. pc' \in {"factory", "done", "cleanup"} /\ (r' = r + 1 \/ (pc' = "cleanup" /\ r' = r))
  <2>1. CASE Reject BY <2>1, <1>t, NextRequestType DEF Reject
  <2>2. CASE Abort BY <2>2 DEF Abort, GoTo
  <2> QED BY <2>1, <2>2
<1>2. DecodingOK(q)' BY <1>1 DEF DecodingOK
<1>3. q # r => Same(q)
  <2>1. CASE Send(Error)
    <3>1. q # r => wire'[q] = wire[q] /\ closed'[q] = closed[q] /\ finals'[q] = finals[q]
      BY <2>1, <1>t, <1>e, SendEffect
    <3> QED BY <3>1 DEF Same
  <2>2. CASE UNCHANGED <<wire, finals, closed>> BY <2>2 DEF Same
  <2> QED BY <2>1, <2>2, <1>f DEF Fail
<1>4. UntouchedOK(q)'
  <2>1. q > r' \/ (q = r' /\ pc' \in {"factory", "validate", "plan"}) => q > r /\ q # r
    BY <1>1, <1>i
  <2> QED BY <2>1, <1>3, <1>q DEF UntouchedOK, Same
<1>5. q = r => ~closed[q]
  <2>1. CASE Reject BY <2>1, <1>q DEF Reject, UntouchedOK
  <2>2. CASE Abort
    <3>1. pc \in {"decode", "respond"} /\ i <= Len(chunks)
      BY <2>2, <1>t DEF Abort, PlanOK
    <3>2. i \in Nat /\ Len(chunks) \in Nat BY <1>t DEF TypeOK
    <3>3. ~(i > Len(chunks)) BY <3>1, <3>2
    <3> QED BY <3>1, <3>3, <1>q DEF DecodingOK
  <2> QED BY <2>1, <2>2
<1>6. FinalOK(q)' /\ OrderOK(q)'
  <2>1. CASE q # r BY <2>1, <1>3, <1>q, SameKeeps
  <2>2. CASE q = r /\ Send(Error)
    <3> HIDE DEF Error
    <3> QED BY <2>2, <1>t, <1>e, <1>q, <1>5, SendKeeps
  <2>3. CASE q = r /\ UNCHANGED <<wire, finals, closed>>
    <3>1. Same(q) BY <2>3 DEF Same
    <3> QED BY <3>1, <1>q, SameKeeps
  <2> QED BY <2>1, <2>2, <2>3, <1>f DEF Fail
<1> QED BY <1>2, <1>4, <1>6

LEMMA SentToType ==
    ASSUME TypeOK, NEW q \in Requests
    PROVE  Position(q) \in Nat /\ SentTo(q) \in Nat
<1>1. played[q] \in Seq(Piece) /\ wire[q] \in Seq(Message) BY DEF TypeOK
<1>2. Position(q) \in Nat BY <1>1 DEF Position, Piece
<1>3. wire[q] # <<>> => wire[q][Len(wire[q])] \in Message BY <1>1
<1> QED BY <1>2, <1>3 DEF SentTo, Message, Piece

\* A chunk is sent, or lost: it starts where the stream and what was lost after it
\* end, and is FINAL just when it ends the utterance.
LEMMA RespondStream ==
    ASSUME Inv, r \in Requests, UNCHANGED <<frames, played, outcome>>, Respond
    PROVE  StreamOK'
<1>t. TypeOK /\ PlanOK BY DEF Inv, Core
<1>p. /\ pc = "respond" /\ pc' = "decode" /\ r' = r /\ i' = i + 1 /\ chunks' = chunks
  BY DEF Respond, GoTo
<1>n. i \in Nat \ {0} /\ Len(chunks) \in Nat /\ i <= Len(chunks) /\ i \in 1..Len(chunks)
      /\ chunks[i] \in Piece
  <2>1. i \in Nat \ {0} /\ chunks \in Seq(Piece) BY <1>t DEF TypeOK
  <2>2. i <= Len(chunks) BY <1>t, <1>p DEF PlanOK
  <2> QED BY <2>1, <2>2
<1>2. /\ chunks[i][1] < chunks[i][2] /\ chunks[i][2] <= frames[r]
      /\ i < Len(chunks) => /\ chunks[i + 1][1] = chunks[i][2]
                            /\ chunks[i][2] < frames[r]
      /\ i = Len(chunks) => chunks[i][2] = frames[r]
  <2>1. chunks[i][1] < chunks[i][2] /\ chunks[i][2] <= frames[r]
    BY <1>n, <1>t DEF PlanOK
  <2>2. ASSUME i < Len(chunks)
        PROVE  chunks[i + 1][1] = chunks[i][2] /\ chunks[i][2] < frames[r]
    <3>1. i + 1 \in 1..Len(chunks) /\ i + 1 # 1 /\ (i + 1) - 1 = i BY <1>n, <2>2
    <3>2. chunks[i + 1][1] = chunks[i][2] BY <3>1, <1>t DEF PlanOK
    <3>3. /\ chunks[i + 1][1] \in Nat /\ chunks[i + 1][2] \in Nat /\ frames[r] \in Nat
          /\ chunks[i + 1][1] < chunks[i + 1][2] /\ chunks[i + 1][2] <= frames[r]
      BY <3>1, <1>t, PlannedChunk
    <3> QED BY <3>2, <3>3
  <2>3. ASSUME i = Len(chunks) PROVE chunks[i][2] = frames[r]
    <3>1. chunks # <<>> BY <1>n, <1>t DEF TypeOK
    <3> QED BY <3>1, <2>3, <1>t, <1>p DEF PlanOK
  <2> QED BY <2>1, <2>2, <2>3
<1>3. i = Len(chunks) <=> chunks[i][2] = frames[r]
  <2>1. chunks[i][2] \in Nat /\ frames[r] \in Nat BY <1>n, <1>t, PlannedChunk
  <2> QED BY <2>1, <1>2, <1>n
<1>4. ASSUME NEW told \in {i = Len(chunks), FALSE}, UNCHANGED lost,
             Send([kind |-> "chunk", piece |-> chunks[i],
                   final |-> (i = Len(chunks)), isFinal |-> told])
      PROVE  StreamOK'
  <2> DEFINE m == [kind |-> "chunk", piece |-> chunks[i],
                   final |-> (i = Len(chunks)), isFinal |-> told]
  <2>m. /\ m \in Message /\ m.kind = "chunk" /\ m.piece = chunks[i]
        /\ m.final = (i = Len(chunks)) /\ (m.isFinal => m.final)
    BY <1>n, <1>4 DEF Message
  <2>s. Send(m) BY <1>4
  <2> HIDE DEF m
  <2>3. m.final <=> chunks[i][2] = frames[r]
    <3>1. m.final <=> i = Len(chunks) BY <2>m
    <3> QED BY <3>1, <1>3
  <2> SUFFICES ASSUME NEW q \in Requests
               PROVE  (FinalOK(q) /\ OrderOK(q) /\ UntouchedOK(q) /\ DecodingOK(q))'
    BY DEF StreamOK
  <2>q. FinalOK(q) /\ OrderOK(q) /\ UntouchedOK(q) /\ DecodingOK(q)
    BY DEF Inv, StreamOK
  <2>4. CASE q # r
    <3>1. wire'[q] = wire[q] /\ closed'[q] = closed[q] /\ finals'[q] = finals[q]
      BY <2>4, <1>t, <2>m, <2>s, SendEffect
    <3>2. Same(q) BY <3>1, <1>4 DEF Same
    <3>3. UntouchedOK(q)' BY <3>1, <2>4, <1>p, <2>q DEF UntouchedOK
    <3>4. DecodingOK(q)' BY <2>4, <1>p DEF DecodingOK
    <3> QED BY <3>2, <3>3, <3>4, <2>q, SameKeeps
  <2>5. CASE q = r
    <3>1. ~closed[q] /\ (outcome[q] = "streaming" => Gap(lost[q], SentTo(q), chunks[i][1]))
      <4>1. ~(i > Len(chunks)) BY <1>n
      <4> QED BY <4>1, <2>5, <1>n, <1>p, <2>q DEF DecodingOK
    <3>2. FinalOK(q)' /\ OrderOK(q)' /\ SentTo(q)' = chunks[i][2]
      <4>1. m.kind = "error" \/ m.isFinal => m.final BY <2>m
      <4>2. m.kind = "chunk" /\ outcome[q] = "streaming" =>
              /\ Gap(lost[q], SentTo(q), m.piece[1]) /\ m.piece[1] < m.piece[2]
              /\ m.piece[2] <= frames[q] /\ (m.final <=> m.piece[2] = frames[q])
        BY <3>1, <2>5, <2>m, <1>2, <2>3
      <4>3. FinalOK(q)' /\ OrderOK(q)' /\ SentTo(q)' = m.piece[2]
        BY <4>1, <4>2, <3>1, <1>t, <1>4, <2>5, <2>m, <2>s, <2>q, SendKeeps
      <4> QED BY <4>3, <2>m
    <3>3. UntouchedOK(q)'
      <4>1. ~(q > r) BY <2>5 DEF Requests
      <4> QED BY <4>1, <1>p DEF UntouchedOK
    <3>4. closed'[q] => i' > Len(chunks')
      <4>1. closed'[q] = (closed[q] \/ m.final) BY <2>5, <1>t, <2>m, <2>s, SendEffect
      <4>2. i' > Len(chunks') <=> i = Len(chunks) BY <1>n, <1>p
      <4> QED BY <4>1, <4>2, <3>1, <2>m
    <3>5. i' <= Len(chunks') => chunks'[i'][1] = chunks[i][2] /\ chunks[i][2] \in Nat
      BY <1>n, <1>p, <1>2 DEF Piece
    <3>6. DecodingOK(q)' BY <3>2, <3>4, <3>5, <1>p DEF DecodingOK, Gap
    <3> QED BY <3>2, <3>3, <3>6
  <2> QED BY <2>4, <2>5
<1>5. ASSUME LoseChunk(chunks[i]) PROVE StreamOK'
  <2>1. /\ UNCHANGED <<wire, closed, finals>>
        /\ \A q \in Requests : lost'[q] = IF q = r
             THEN lost[r] \cup chunks[i][1]..(chunks[i][2] - 1) ELSE lost[q]
    BY <1>5, <1>t DEF LoseChunk, TypeOK
  <2> SUFFICES ASSUME NEW q \in Requests
               PROVE  (FinalOK(q) /\ OrderOK(q) /\ UntouchedOK(q) /\ DecodingOK(q))'
    BY DEF StreamOK
  <2>q. FinalOK(q) /\ OrderOK(q) /\ UntouchedOK(q) /\ DecodingOK(q)
    BY DEF Inv, StreamOK
  <2>2. Same(q) BY <2>1 DEF Same
  <2>3. FinalOK(q)' /\ OrderOK(q)' /\ SentTo(q)' = SentTo(q) BY <2>2, <2>q, SameKeeps
  <2>4. UntouchedOK(q)' BY <2>1, <1>p, <2>q DEF UntouchedOK, Requests
  <2>5. DecodingOK(q)'
    <3> SUFFICES ASSUME q = r
                 PROVE  /\ ~closed[q]
                        /\ outcome[q] = "streaming" /\ i + 1 <= Len(chunks) =>
                             Gap(lost'[q], SentTo(q), chunks[i + 1][1])
      BY <1>p, <2>1, <2>3 DEF DecodingOK
    <3>1. ~(i > Len(chunks)) BY <1>n
    <3>2. ~closed[q] /\ (outcome[q] = "streaming" => Gap(lost[q], SentTo(q), chunks[i][1]))
      BY <3>1, <1>n, <1>p, <2>q DEF DecodingOK
    <3>3. ASSUME outcome[q] = "streaming", i + 1 <= Len(chunks)
          PROVE  Gap(lost'[q], SentTo(q), chunks[i + 1][1])
      <4>1. chunks[i + 1][1] = chunks[i][2] BY <1>2, <1>n, <3>3
      <4>2. Gap(lost[q], SentTo(q), chunks[i][1]) BY <3>2, <3>3
      <4>3. SentTo(q) \in Nat BY <1>t, SentToType
      <4>4. chunks[i][1] \in Nat /\ chunks[i][2] \in Nat /\ chunks[i][1] < chunks[i][2]
        BY <1>n, <1>2 DEF Piece
      <4>5. \A n \in Nat : chunks[i][1] <= n /\ n < chunks[i][2] => n \in lost'[q]
        BY <2>1, <4>4
      <4>6. lost[q] \subseteq lost'[q] BY <2>1
      <4> QED BY <4>1, <4>2, <4>3, <4>4, <4>5, <4>6 DEF Gap
    <3> QED BY <3>2, <3>3
  <2> QED BY <2>3, <2>4, <2>5
<1> QED BY <1>4, <1>5 DEF Respond

\* What the gateway reads of a stream, and what is left of it.
LEMMA HeadTail ==
    ASSUME TypeOK, NEW q \in Requests, wire[q] # <<>>
    PROVE  /\ 1 \in 1..Len(wire[q]) /\ Len(wire[q]) \in Nat
           /\ Head(wire[q]) = wire[q][1] /\ wire[q][1] \in Message
           /\ Len(Tail(wire[q])) = Len(wire[q]) - 1
           /\ Tail(wire[q]) = <<>> <=> Len(wire[q]) = 1
           /\ \A k \in 1..(Len(wire[q]) - 1) :
                Tail(wire[q])[k] = wire[q][k + 1] /\ k + 1 \in 1..Len(wire[q])
<1>1. wire[q] \in Seq(Message) BY DEF TypeOK
<1> DEFINE w == wire[q]
<1>2. Len(w) \in Nat /\ Len(w) >= 1 /\ w \in Seq(Message) /\ w # <<>> BY <1>1
<1> HIDE DEF w
<1>3. /\ Len(Tail(w)) = Len(w) - 1 /\ Head(w) = w[1] /\ Tail(w) \in Seq(Message)
      /\ \A k \in 1..(Len(w) - 1) : Tail(w)[k] = w[k + 1]
  BY <1>2
<1>4. Tail(w) = <<>> <=> Len(w) = 1
  <2>1. Tail(w) = <<>> <=> Len(Tail(w)) = 0 BY <1>3, EmptySeq
  <2> QED BY <2>1, <1>2, <1>3
<1>5. 1 \in 1..Len(w) /\ w[1] \in Message BY <1>2
<1>6. \A k \in 1..(Len(w) - 1) : k + 1 \in 1..Len(w) BY <1>2
<1> QED BY <1>2, <1>3, <1>4, <1>5, <1>6 DEF w

\* Taking the head off a stream keeps FINAL at its end.
LEMMA ConsumeFinal ==
    ASSUME TypeOK, NEW q \in Requests, wire[q] # <<>>, FinalOK(q), Consume(q),
           UNCHANGED <<closed, finals>>
    PROVE  FinalOK(q)'
<1> DEFINE n == Len(wire[q])
<1>1. wire'[q] = Tail(wire[q]) BY DEF Consume, TypeOK
<1>2. /\ Len(wire'[q]) = n - 1 /\ n \in Nat /\ (wire'[q] = <<>> <=> n = 1) /\ n >= 1
      /\ \A k \in 1..(n - 1) : wire'[q][k] = wire[q][k + 1] /\ k + 1 \in 1..n
  BY <1>1, HeadTail
<1>3. /\ finals[q] = IF closed[q] THEN 1 ELSE 0
      /\ \A k \in 1..n :
           /\ wire[q][k].final => k = n /\ closed[q]
           /\ wire[q][k].kind = "error" => wire[q][k].final
           /\ wire[q][k].isFinal => wire[q][k].final
      /\ closed[q] => wire[q][n].final
  BY DEF FinalOK
<1> HIDE DEF n
<1>4. \A k \in 1..(n - 1) :
        /\ wire'[q][k].final => k = n - 1 /\ closed[q]
        /\ wire'[q][k].kind = "error" => wire'[q][k].final
        /\ wire'[q][k].isFinal => wire'[q][k].final
  <2> TAKE k \in 1..(n - 1)
  <2>1. wire'[q][k] = wire[q][k + 1] /\ k + 1 \in 1..n BY <1>2
  <2>2. k + 1 = n => k = n - 1 BY <1>2
  <2> QED BY <2>1, <2>2, <1>3
<1>5. closed[q] /\ wire'[q] # <<>> => wire'[q][n - 1].final
  <2>1. n # 1 => n - 1 \in 1..(n - 1) /\ (n - 1) + 1 = n BY <1>2
  <2> QED BY <2>1, <1>2, <1>3
<1> QED BY <1>2, <1>3, <1>4, <1>5 DEF FinalOK

\* A chunk handed over moves the caller's position past it.
LEMMA RecvChunkOrder ==
    ASSUME TypeOK, NEW q \in Requests, FinalOK(q), OrderOK(q), RecvChunk(q)
    PROVE  /\ Position(q)' = Head(wire[q]).piece[2] /\ UNCHANGED lost
           /\ OrderOK(q)'
           /\ SentTo(q)' = SentTo(q)
<1> DEFINE n == Len(wire[q])
           h == wire[q][1]
<1>1. /\ outcome[q] = "streaming" /\ wire[q] # <<>> /\ h.kind = "chunk"
      /\ Head(wire[q]) = h /\ Consume(q) /\ UNCHANGED <<closed, frames, lost>>
      /\ played' = [played EXCEPT ![q] = Append(@, h.piece)]
  BY HeadTail DEF RecvChunk, backend
<1>2. wire'[q] = Tail(wire[q]) BY <1>1 DEF Consume, TypeOK
<1>3. /\ Len(wire'[q]) = n - 1 /\ n \in Nat /\ (wire'[q] = <<>> <=> n = 1)
      /\ \A k \in 1..(n - 1) : wire'[q][k] = wire[q][k + 1] /\ k + 1 \in 1..n
      /\ 1 \in 1..n /\ h \in Message
  BY <1>1, <1>2, HeadTail
<1>4. Position(q)' = h.piece[2]
  <2>1. played[q] \in Seq(Piece) /\ h.piece \in Piece
    BY <1>3 DEF TypeOK, Message
  <2>2. played'[q] = Append(played[q], h.piece) BY <1>1 DEF TypeOK
  <2>3. played'[q] # <<>> /\ played'[q][Len(played'[q])] = h.piece
    BY <2>1, <2>2
  <2> QED BY <2>3 DEF Position
<1>5. \A k \in 1..n : wire[q][k].kind = "chunk" =>
        /\ Gap(lost[q], Before(q, k), wire[q][k].piece[1])
        /\ wire[q][k].piece[1] < wire[q][k].piece[2]
        /\ wire[q][k].piece[2] <= frames[q]
        /\ wire[q][k].final <=> wire[q][k].piece[2] = frames[q]
  BY <1>1 DEF OrderOK
<1>6. OrderOK(q)'
  <2>1. ASSUME NEW k \in 1..(n - 1), wire'[q][k].kind = "chunk"
        PROVE  /\ Gap(lost[q], Before(q, k)', wire'[q][k].piece[1])
               /\ wire'[q][k].piece[1] < wire'[q][k].piece[2]
               /\ wire'[q][k].piece[2] <= frames[q]
               /\ wire'[q][k].final <=> wire'[q][k].piece[2] = frames[q]
    <3>1. wire'[q][k] = wire[q][k + 1] /\ k + 1 \in 1..n /\ k + 1 # 1 /\ (k + 1) - 1 = k
      <4>1. wire'[q][k] = wire[q][k + 1] /\ k + 1 \in 1..n BY <1>3
      <4>2. k + 1 # 1 /\ (k + 1) - 1 = k BY <1>3
      <4> QED BY <4>1, <4>2
    <3>2. k # 1 => wire'[q][k - 1] = wire[q][k]
      <4>1. k # 1 => k - 1 \in 1..(n - 1) /\ (k - 1) + 1 = k BY <2>1, <1>3
      <4> QED BY <4>1, <1>3
    <3>3. Before(q, k)' = Before(q, k + 1)
      <4>1. Before(q, k + 1) = wire[q][k].piece[2] BY <3>1 DEF Before
      <4>2. CASE k = 1
        <5>1. Before(q, k)' = Position(q)' BY <4>2 DEF Before
        <5> QED BY <4>1, <4>2, <5>1, <1>4
      <4>3. CASE k # 1
        <5>1. Before(q, k)' = wire'[q][k - 1].piece[2] BY <4>3 DEF Before
        <5> QED BY <4>1, <4>3, <5>1, <3>2
      <4> QED BY <4>2, <4>3
    <3> QED BY <2>1, <3>1, <3>3, <1>5
  <2>2. closed[q] /\ wire'[q] = <<>> => h.piece[2] = frames[q]
    <3>1. closed[q] => wire[q][n].final BY <1>1 DEF FinalOK
    <3> QED BY <3>1, <1>1, <1>3, <1>5
  <2> HIDE DEF n, h
  <2> QED BY <2>1, <2>2, <1>1, <1>3, <1>4 DEF OrderOK
<1>7. SentTo(q)' = SentTo(q)
  <2>1. CASE n = 1 BY <2>1, <1>1, <1>3, <1>4 DEF SentTo
  <2>2. CASE n # 1
    <3>1. n - 1 \in 1..(n - 1) /\ (n - 1) + 1 = n BY <2>2, <1>3
    <3>2. wire'[q][n - 1] = wire[q][n] BY <3>1, <1>3
    <3> QED BY <2>2, <3>2, <1>1, <1>3 DEF SentTo
  <2> QED BY <2>1, <2>2
<1> QED BY <1>1, <1>4, <1>6, <1>7

\* The gateway's side of a stream keeps all streams in order.
LEMMA ReceiveStream ==
    ASSUME Inv, NEW q \in Requests,
           Receive(q) \/ CallbackFails(q) \/ RecvFails(q)
    PROVE  StreamOK'
<1>t. TypeOK BY DEF Inv, Core
<1>b. UNCHANGED backend
  BY DEF Receive, RecvChunk, RecvError, RecvEOF, CallbackFails, RecvFails
<1>c. UNCHANGED <<frames, r, pc, chunks, i, closed, finals, lost>>
  BY <1>b DEF backend, planning
<1>i. \A p \in Requests : FinalOK(p) /\ OrderOK(p) /\ UntouchedOK(p) /\ DecodingOK(p)
  BY DEF Inv, StreamOK
<1> SUFFICES ASSUME NEW p \in Requests
             PROVE  (FinalOK(p) /\ OrderOK(p) /\ UntouchedOK(p) /\ DecodingOK(p))'
  BY DEF StreamOK
<1>1. CASE p # q
  <2>1. wire'[p] = wire[p] /\ played'[p] = played[p] /\ outcome'[p] = outcome[p]
    BY <1>1, <1>t DEF Receive, RecvChunk, RecvError, RecvEOF, CallbackFails,
       RecvFails, Consume, Returns, TypeOK
  <2>2. Same(p) BY <2>1, <1>c DEF Same
  <2>3. FinalOK(p)' /\ OrderOK(p)' /\ SentTo(p)' = SentTo(p) BY <2>2, <1>i, SameKeeps
  <2>4. UntouchedOK(p)' BY <2>1, <1>c, <1>i DEF UntouchedOK
  <2>5. DecodingOK(p)' BY <2>1, <2>3, <1>c, <1>i DEF DecodingOK
  <2> QED BY <2>3, <2>4, <2>5
<1>2. CASE p = q
  <2>e. \A end \in {"complete", "failed"} : Returns(p, end) => outcome'[p] # "streaming"
    BY <1>t DEF Returns, TypeOK
  <2>1. CASE RecvChunk(p)
    <3>1. wire[p] # <<>> /\ Consume(p) /\ outcome[p] = "streaming" BY <2>1 DEF RecvChunk
    <3>2. FinalOK(p)' BY <3>1, <1>t, <1>i, <1>c, ConsumeFinal
    <3>3. OrderOK(p)' /\ SentTo(p)' = SentTo(p) BY <2>1, <1>t, <1>i, RecvChunkOrder
    <3>4. UntouchedOK(p)' BY <3>1, <1>c, <1>i DEF UntouchedOK
    <3>5. DecodingOK(p)' BY <3>1, <3>3, <1>c, <1>i DEF DecodingOK
    <3> QED BY <3>2, <3>3, <3>4, <3>5
  <2>2. CASE CallbackFails(p) \/ RecvError(p)
    <3>1. wire[p] # <<>> /\ Consume(p) /\ outcome'[p] # "streaming"
      BY <2>2, <2>e DEF CallbackFails, RecvError
    <3>2. FinalOK(p)' BY <3>1, <1>t, <1>i, <1>c, ConsumeFinal
    <3>3. OrderOK(p)' BY <3>1 DEF OrderOK
    <3>4. UntouchedOK(p)' BY <3>1, <1>c, <1>i DEF UntouchedOK
    <3>5. DecodingOK(p)' BY <3>1, <1>c, <1>i DEF DecodingOK
    <3> QED BY <3>2, <3>3, <3>4, <3>5
  <2>3. CASE RecvEOF(p) \/ RecvFails(p)
    <3>1. UNCHANGED <<wire, played>> /\ outcome'[p] # "streaming"
      BY <2>3, <2>e DEF RecvEOF, RecvFails
    <3>2. FinalOK(p)' BY <3>1, <1>c, <1>i DEF FinalOK
    <3>3. OrderOK(p)' BY <3>1 DEF OrderOK
    <3>4. UntouchedOK(p)' BY <3>1, <1>c, <1>i DEF UntouchedOK
    <3>5. DecodingOK(p)' BY <3>1, <1>c, <1>i DEF DecodingOK
    <3> QED BY <3>2, <3>3, <3>4, <3>5
  <2> QED BY <1>2, <2>1, <2>2, <2>3 DEF Receive
<1> QED BY <1>1, <1>2

LEMMA InvStep == Inv /\ [Next]_vars => Inv'
<1> SUFFICES ASSUME Inv, [Next]_vars PROVE Inv'
  OBVIOUS
<1>c. Core /\ Core' BY CoreStep DEF Inv
<1>1. CASE Backend
  <2>1. r \in Requests BY <1>1, <1>c, AtRequest DEF Core
  <2>2. UNCHANGED <<frames, played, outcome>> /\ (Respond \/ UNCHANGED lost)
    BY <1>1, BackendLeaves
  <2>3. CASE NewFactory \/ NoFactory \/ Accept \/ PlanChunk \/ PlanDone \/ Decode
               \/ EndLoop \/ Cleanup
    <3>1. UNCHANGED lost
      BY <2>3 DEF NewFactory, NoFactory, Accept, PlanChunk, PlanDone, Decode, EndLoop,
         Cleanup, gateway
    <3>2. StreamOK' BY <2>1, <2>2, <2>3, <3>1, QuietStream
    <3> QED BY <3>2, <1>c DEF Inv
  <2>4. CASE Reject \/ Abort
    <3>1. UNCHANGED lost BY <2>4 DEF Reject, Abort, gateway
    <3>2. StreamOK' BY <2>1, <2>2, <2>4, <3>1, FailStream
    <3> QED BY <3>2, <1>c DEF Inv
  <2>5. CASE Respond BY <2>1, <2>2, <2>5, <1>c, RespondStream DEF Inv
  <2> QED BY <1>1, <2>3, <2>4, <2>5 DEF Backend
<1>2. CASE \E q \in Requests : Receive(q) \/ CallbackFails(q) \/ RecvFails(q)
  <2>1. PICK q \in Requests : Receive(q) \/ CallbackFails(q) \/ RecvFails(q)
    BY <1>2
  <2>2. StreamOK' BY <2>1, ReceiveStream
  <2> QED BY <2>2, <1>c DEF Inv
<1>3. CASE UNCHANGED vars
  <2>1. StreamOK'
    <3> SUFFICES ASSUME NEW q \in Requests
                 PROVE  (FinalOK(q) /\ OrderOK(q) /\ UntouchedOK(q) /\ DecodingOK(q))'
      BY DEF StreamOK
    <3>1. FinalOK(q) /\ OrderOK(q) /\ UntouchedOK(q) /\ DecodingOK(q)
      BY DEF Inv, StreamOK
    <3>2. Same(q) /\ UNCHANGED <<r, pc, i, chunks, outcome, closed, lost>>
      BY <1>3 DEF vars, Same
    <3>3. FinalOK(q)' /\ OrderOK(q)' /\ SentTo(q)' = SentTo(q) BY <3>1, <3>2, SameKeeps
    <3>4. UntouchedOK(q)' BY <3>1, <3>2 DEF UntouchedOK, Same
    <3>5. DecodingOK(q)' BY <3>1, <3>2, <3>3 DEF DecodingOK
    <3> QED BY <3>3, <3>4, <3>5
  <2> QED BY <2>1, <1>c DEF Inv
<1> QED BY <1>1, <1>2, <1>3 DEF Next

THEOREM Invariant == Spec => []Inv
<1>1. Init => Inv BY InitType, InitStream DEF Core, Inv
<1> QED BY <1>1, InvStep, PTL DEF Spec

\* A stream has at most one FINAL response, and it is the last (NothingAfterFinal).
THEOREM FinalIsLast == Spec => []NothingAfterFinal
<1>1. Inv => NothingAfterFinal
  <2> SUFFICES ASSUME Inv, NEW q \in Requests
               PROVE  /\ finals[q] <= 1
                      /\ \A k \in 1..Len(wire[q]) : wire[q][k].final => k = Len(wire[q])
    BY DEF NothingAfterFinal
  <2>1. FinalOK(q) BY DEF Inv, StreamOK
  <2> QED BY <2>1 DEF FinalOK
<1> QED BY <1>1, Invariant, PTL
-----------------------------------------------------------------------------
(* The promise. *)

LEMMA InitPromise == Init => Promise!Init
<1> SUFFICES ASSUME Init PROVE Promise!Init
  OBVIOUS
<1>1. frames \in [Requests -> Int]
  <2>1. frames \in [Requests -> TotalFrames] BY Zenon DEF Init
  <2>2. TotalFrames \subseteq Int BY InputAssumption
  <2>3. [Requests -> TotalFrames] \subseteq [Requests -> Int] BY <2>2, Zenon
  <2> QED BY <2>1, <2>3, Zenon
<1> QED BY <1>1 DEF Init, Promise!Init

\* A chunk handed over is the next piece of the utterance, and the IS_FINAL that
\* makes StreamAudio return comes with its last frame.
LEMMA RecvChunkPromise ==
    ASSUME Inv, NEW q \in Requests, RecvChunk(q)
    PROVE  Promise!Play(q) \/ Promise!PlayLast(q)
<1> DEFINE h == wire[q][1]
<1>t. TypeOK /\ FinalOK(q) /\ OrderOK(q) BY DEF Inv, Core, StreamOK
<1>1. /\ outcome[q] = "streaming" /\ wire[q] # <<>> /\ h.kind = "chunk"
      /\ Head(wire[q]) = h /\ frames' = frames
      /\ 1 \in 1..Len(wire[q]) /\ h \in Message
  BY <1>t, HeadTail DEF RecvChunk, backend
<1>2. /\ played' = [played EXCEPT ![q] = Append(@, h.piece)]
      /\ h.isFinal => Returns(q, "complete")
      /\ ~h.isFinal => outcome' = outcome
  BY <1>1 DEF RecvChunk
<1>3. /\ Gap(lost[q], Position(q), h.piece[1]) /\ h.piece[1] < h.piece[2]
      /\ h.piece[2] <= frames[q] /\ (h.final <=> h.piece[2] = frames[q])
  <2>1. Before(q, 1) = Position(q) BY DEF Before
  <2> QED BY <1>t, <1>1, <2>1 DEF OrderOK
<1>4. h.isFinal => h.final BY <1>t, <1>1 DEF FinalOK
<1>5. h.piece[1] \in Nat /\ h.piece[2] \in Nat /\ h.piece = <<h.piece[1], h.piece[2]>>
  BY <1>1 DEF Message, Piece
<1>6. frames[q] \in Nat
  <2>1. frames \in [Requests -> TotalFrames] BY <1>t, Zenon DEF TypeOK
  <2> QED BY <2>1, InputAssumption
<1>7. Position(q) = Promise!Position(q) BY DEF Position, Promise!Position
<1>u. UNCHANGED <<frames, lost>> BY DEF RecvChunk, backend
<1> DEFINE from == h.piece[1]
           end  == h.piece[2]
<1>s. from \in Promise!Starts(q)
  <2>1. Position(q) \in Nat
    <3>1. played[q] \in Seq(Piece) BY <1>t DEF TypeOK
    <3>2. played[q] # <<>> => played[q][Len(played[q])] \in Piece BY <3>1
    <3> QED BY <3>2 DEF Position, Piece
  <2>2. from \in Position(q)..frames[q] BY <2>1, <1>3, <1>5, <1>6 DEF Gap
  <2>3. Position(q)..(from - 1) \subseteq lost[q]
    <3> SUFFICES ASSUME NEW n \in Position(q)..(from - 1) PROVE n \in lost[q]
      OBVIOUS
    <3>1. n \in Nat /\ Position(q) <= n /\ n < from BY <2>1, <1>5
    <3> QED BY <3>1, <1>3 DEF Gap
  <2> QED BY <2>2, <2>3, <1>7 DEF Promise!Starts
<1>e. played' = [played EXCEPT ![q] = Append(@, <<from, end>>)] BY <1>2, <1>5
<1>l. from \in Nat /\ end \in Nat /\ from < end /\ end <= frames[q] BY <1>3, <1>5
<1>8. CASE h.isFinal
  <2>1. end = frames[q] BY <1>8, <1>3, <1>4
  <2>2. Promise!Ends(q, "complete") BY <1>8, <1>2 DEF Returns, Promise!Ends
  <2> HIDE DEF from, end, h
  <2>3. /\ from < frames[q]
        /\ played' = [played EXCEPT ![q] = Append(@, <<from, frames[q]>>)]
    BY <2>1, <1>e, <1>l
  <2>4. Promise!PlayLast(q) BY <2>2, <2>3, <1>s, <1>1, <1>u DEF Promise!PlayLast
  <2> QED BY <2>4
<1>9. CASE ~h.isFinal
  <2>1. outcome' = outcome BY <1>9, <1>2
  <2> HIDE DEF from, end, h
  <2>2. end \in (from + 1)..frames[q] BY <1>l, <1>6
  <2>3. Promise!Deliver(q) BY <2>2, <1>s, <1>e DEF Promise!Deliver
  <2>4. Promise!Play(q) BY <2>1, <2>3, <1>1, <1>u DEF Promise!Play
  <2> QED BY <2>4
<1> QED BY <1>8, <1>9

\* A chunk whose response cannot be sent is a piece that is lost.
LEMMA RespondPromise ==
    ASSUME Inv, r \in Requests, Respond, UNCHANGED <<frames, played, outcome>>
    PROVE  Promise!Lose(r) \/ UNCHANGED lost
<1>t. TypeOK /\ PlanOK BY DEF Inv, Core
<1> SUFFICES ASSUME LoseChunk(chunks[i]) PROVE Promise!Lose(r)
  BY DEF Respond
<1>1. chunks[i] \in Piece /\ i \in 1..Len(chunks)
  <2>1. chunks \in Seq(Piece) /\ i \in Nat \ {0} BY <1>t DEF TypeOK
  <2>2. i <= Len(chunks) BY <1>t DEF Respond, PlanOK
  <2> QED BY <2>1, <2>2
<1>2. chunks[i][1] \in Nat /\ chunks[i][2] \in Nat BY <1>1 DEF Piece
<1>3. chunks[i][1] < chunks[i][2] /\ chunks[i][2] <= frames[r]
  BY <1>t, <1>1 DEF PlanOK
<1>4. frames[r] \in Nat
  <2>1. frames \in [Requests -> TotalFrames] BY <1>t, Zenon DEF TypeOK
  <2> QED BY <2>1, InputAssumption
<1>5. chunks[i][1] \in 0..frames[r] /\ chunks[i][2] \in 0..frames[r]
  BY <1>2, <1>3, <1>4
<1>6. lost' = [lost EXCEPT ![r] = @ \cup chunks[i][1]..(chunks[i][2] - 1)]
  BY DEF LoseChunk
<1> QED BY <1>5, <1>6 DEF Promise!Lose

LEMMA PromiseStep == Inv /\ [Next]_vars => [Promise!Next]_(Promise!vars)
<1> SUFFICES ASSUME Inv, [Next]_vars PROVE Promise!Next \/ UNCHANGED Promise!vars
  OBVIOUS
<1>1. CASE Backend
  <2>1. UNCHANGED <<frames, played, outcome>> /\ (Respond \/ UNCHANGED lost)
    BY <1>1, BackendLeaves
  <2>2. r \in Requests BY <1>1, AtRequest DEF Inv, Core
  <2>3. Promise!Lose(r) \/ UNCHANGED lost BY <2>1, <2>2, RespondPromise
  <2> QED BY <2>1, <2>2, <2>3 DEF Promise!vars, Promise!Next
<1>2. CASE \E q \in Requests : Receive(q) \/ CallbackFails(q) \/ RecvFails(q)
  <2>1. PICK q \in Requests : Receive(q) \/ CallbackFails(q) \/ RecvFails(q)
    BY <1>2
  <2>2. UNCHANGED <<frames, lost>>
    BY <2>1 DEF Receive, RecvChunk, RecvError, RecvEOF, CallbackFails, RecvFails, backend
  <2>3. CASE RecvChunk(q)
    BY <2>3, RecvChunkPromise DEF Promise!Next
  <2>4. CASE RecvError(q) \/ CallbackFails(q) \/ RecvFails(q)
    <3>1. Promise!Fail(q)
      BY <2>2, <2>4 DEF RecvError, CallbackFails, RecvFails, Returns, Promise!Fail,
         Promise!Ends
    <3> QED BY <3>1 DEF Promise!Next
  <2>5. CASE RecvEOF(q)
    <3>1. OrderOK(q) BY DEF Inv, StreamOK
    <3>2. outcome[q] = "streaming" /\ closed[q] /\ wire[q] = <<>> BY <2>5 DEF RecvEOF
    <3>3. Position(q) = frames[q] BY <3>1, <3>2 DEF OrderOK
    <3>4. Promise!Complete(q)
      BY <2>2, <2>5, <3>3 DEF RecvEOF, Returns, Position, Promise!Position,
         Promise!Complete, Promise!Ends
    <3> QED BY <3>4 DEF Promise!Next
  <2> QED BY <2>1, <2>3, <2>4, <2>5 DEF Receive
<1>3. CASE UNCHANGED vars
  BY <1>3 DEF vars, Promise!vars
<1> QED BY <1>1, <1>2, <1>3 DEF Next

\* The backend, its streams and StreamAudio together keep the promise of
\* AudioStream, whatever fails on the way (KeepsPromise).
THEOREM Refinement == Spec => KeepsPromise
<1>1. Init => Promise!Init BY InitPromise
<1>2. Spec => []Inv BY Invariant
<1> QED BY <1>1, <1>2, PromiseStep, PTL DEF Spec, KeepsPromise, Promise!Spec
=============================================================================
