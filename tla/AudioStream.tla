----------------------------- MODULE AudioStream -----------------------------
(***************************************************************************)
(* What the streaming path promises for each request: the caller is handed *)
(* the utterance piece by piece, without an overlap or a piece out of      *)
(* order, and without a gap other than pieces that were lost on their way; *)
(* it is told that the utterance is complete only when the last frame has  *)
(* been handed over; and it may be told at any time that the utterance     *)
(* failed, after which nothing comes.  A path that loses nothing promises  *)
(* whole utterances.                                                       *)
(***************************************************************************)
EXTENDS Integers, Sequences

CONSTANTS Requests

VARIABLES
    frames,   \* the length of each utterance, in latent frames; fixed
    lost,     \* the frames of each utterance that were lost on their way
    played,   \* the pieces handed over, each <<first frame, end>>
    outcome   \* "streaming", "complete" or "failed"

vars == <<frames, lost, played, outcome>>

Init ==
    /\ frames \in [Requests -> Int]
    /\ lost = [r \in Requests |-> {}]
    /\ played = [r \in Requests |-> <<>>]
    /\ outcome = [r \in Requests |-> "streaming"]

\* Where the next piece has to start, if none is lost.
Position(r) == IF played[r] = <<>> THEN 0 ELSE played[r][Len(played[r])][2]

\* Where it may start: nothing but what was lost is left out.
Starts(r) == {from \in Position(r)..frames[r] : Position(r)..(from - 1) \subseteq lost[r]}

Ends(r, end) == outcome' = [outcome EXCEPT ![r] = end]

Deliver(r) ==
    \E from \in Starts(r) : \E end \in (from + 1)..frames[r] :
      played' = [played EXCEPT ![r] = Append(@, <<from, end>>)]

Play(r) ==
    /\ outcome[r] = "streaming"
    /\ Deliver(r)
    /\ UNCHANGED <<frames, lost, outcome>>

\* The last piece and the news that it is the last may come together.
PlayLast(r) ==
    /\ outcome[r] = "streaming"
    /\ \E from \in Starts(r) :
         /\ from < frames[r]
         /\ played' = [played EXCEPT ![r] = Append(@, <<from, frames[r]>>)]
    /\ Ends(r, "complete")
    /\ UNCHANGED <<frames, lost>>

Complete(r) ==
    /\ outcome[r] = "streaming"
    /\ Position(r) = frames[r]
    /\ Ends(r, "complete")
    /\ UNCHANGED <<frames, lost, played>>

Fail(r) ==
    /\ outcome[r] = "streaming"
    /\ Ends(r, "failed")
    /\ UNCHANGED <<frames, lost, played>>

\* Requests that were served as one batch fail as one.
FailTogether(S) ==
    /\ \A r \in S : outcome[r] = "streaming"
    /\ outcome' = [r \in Requests |-> IF r \in S THEN "failed" ELSE outcome[r]]
    /\ UNCHANGED <<frames, lost, played>>

\* A piece gets lost.
Lose(r) ==
    /\ \E from, end \in 0..frames[r] :
         lost' = [lost EXCEPT ![r] = @ \cup from..(end - 1)]
    /\ UNCHANGED <<frames, played, outcome>>

Next ==
    \/ \E r \in Requests : Play(r) \/ PlayLast(r) \/ Complete(r) \/ Fail(r) \/ Lose(r)
    \/ \E S \in SUBSET Requests : FailTogether(S)

Spec == Init /\ [][Next]_vars
=============================================================================
