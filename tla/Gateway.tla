------------------------------- MODULE Gateway -------------------------------
(***************************************************************************)
(* The two routes of the gateway (gateway/cmd/gateway/main.go): the        *)
(* handler of a live session (handleStream, synthesizeToSocket), from the  *)
(* admission that Admission models to the deferred Release, and the        *)
(* handler of an offline request (handleBatch), which takes no slot.       *)
(*                                                                         *)
(* Both lease an endpoint from the pool for one utterance at a time and    *)
(* update gauges that no lock ties to the controller's counter; deferred   *)
(* calls run one after the other, so each is an action of its own, and     *)
(* handleHealth reads them one after the other while they move.  What      *)
(* Acquire chooses is TritonPool's matter and free here; what StreamAudio  *)
(* delivers is AudioStream's promise.  Text and audio are left out: an     *)
(* utterance is the number of its chunks.                                  *)
(***************************************************************************)
EXTENDS Admission, Sequences

CONSTANTS
    Batches,                 \* goroutines of the offline route
    Endpoints,               \* what the pool leases
    none,                    \* no endpoint
    UnhealthyAfterFailures,  \* of the pool
    MaxRequests,             \* bound: requests a client sends on a connection
    MaxChunks                \* bound: chunks of an utterance

ASSUME RoutesAssumption ==
    /\ Clients \cap Batches = {} /\ IsFiniteSet(Batches) /\ IsFiniteSet(Endpoints)
    /\ none \notin Endpoints /\ UnhealthyAfterFailures \in Nat \ {0}
    /\ MaxRequests \in Nat /\ MaxChunks \in Nat \ {0}

Handlers == Clients \cup Batches

VARIABLES
    phase,     \* where each handler is between TryAdmit and the last defer
    sessions,  \* server.sessions
    gauge,     \* metrics.InFlight, of each route
    lease,     \* the endpoint a handler has leased
    load,      \* the leases out on each endpoint
    leaseErr,  \* leaseErr
    streak,    \* consecutive failures reported of each endpoint, up to the limit
    atFault,   \* history: has a call on the endpoint failed in that streak?
    total,     \* the chunks of a handler's current utterance
    sent,      \* those that have arrived
    failed,    \* is synthesizeToSocket about to return an error?
    inbox,     \* requests a client has sent that were not read yet
    asked,     \* how many requests it has sent
    taken,     \* history: the requests read from the connection
    heard,     \* what the client has received
    gone,      \* has the client hung up?
    writable,  \* a connection whose write has failed takes no other
    deadline,  \* the write deadline last set: "none", "ahead" or "past"
    scrape     \* a /healthz request between its two reads: [open, slots, fresh]

conns   == <<inbox, asked, taken, heard, gone, writable, deadline>>
work    == <<lease, load, leaseErr, streak, atFault, total, sent, failed>>
routes  == <<vars, phase, sessions, gauge, work, conns>>
gvars   == <<routes, scrape>>

\* No /healthz request is being answered.
NoScrape == [open |-> FALSE, slots |-> 0, fresh |-> {}]

GatewayInit ==
    /\ Init
    /\ phase = [h \in Handlers |-> "out"]
    /\ sessions = 0
    /\ gauge = [stream |-> 0, batch |-> 0]
    /\ lease = [h \in Handlers |-> none]
    /\ load = [e \in Endpoints |-> 0]
    /\ leaseErr = [h \in Handlers |-> FALSE]
    /\ streak = [e \in Endpoints |-> 0]
    /\ atFault = [e \in Endpoints |-> FALSE]
    /\ total = [h \in Handlers |-> 0]
    /\ sent = [h \in Handlers |-> 0]
    /\ failed = [c \in Clients |-> FALSE]
    /\ inbox = [c \in Clients |-> <<>>]
    /\ asked = [c \in Clients |-> 0]
    /\ taken = [c \in Clients |-> <<>>]
    /\ heard = [c \in Clients |-> <<>>]
    /\ gone = [c \in Clients |-> FALSE]
    /\ writable = [c \in Clients |-> TRUE]
    /\ deadline = [c \in Clients |-> "none"]
    /\ scrape = NoScrape

Go(h, label) == phase' = [phase EXCEPT ![h] = label]
-----------------------------------------------------------------------------
(* The connection. *)

\* The handler is between the upgrade and its deferred calls.
Connected(c) == phase[c] \notin {"out", "upgrade", "leave", "uncount", "return"}

\* A client sends a request, well-formed or not, whenever it likes: it need not
\* wait for the answer to the one before.
Ask(c) ==
    /\ Connected(c) /\ ~gone[c]
    /\ asked[c] < MaxRequests
    /\ \E request \in {"good", "bad"} : inbox' = [inbox EXCEPT ![c] = Append(@, request)]
    /\ asked' = [asked EXCEPT ![c] = @ + 1]
    /\ UNCHANGED <<vars, phase, sessions, gauge, work, taken, heard, gone, writable, deadline>>

HangUp(c) ==
    /\ Connected(c) /\ ~gone[c]
    /\ gone' = [gone EXCEPT ![c] = TRUE]
    /\ UNCHANGED <<vars, phase, sessions, gauge, work, inbox, asked, taken, heard, writable, deadline>>

\* Time passes, and with it the write deadline last set.
Expire(c) ==
    /\ Connected(c) /\ deadline[c] = "ahead"
    /\ deadline' = [deadline EXCEPT ![c] = "past"]
    /\ UNCHANGED <<vars, phase, sessions, gauge, work, inbox, asked, taken, heard, gone, writable>>

\* A write that returns nil; to a client that has hung up it goes nowhere.
Written(c, message) ==
    /\ writable[c]
    /\ heard' = [heard EXCEPT ![c] = IF gone[c] THEN @ ELSE Append(@, message)]
    /\ UNCHANGED writable

\* A write that returns an error: the client is gone, too slow, or the
\* connection has failed before.
WriteFails(c) ==
    /\ writable' = [writable EXCEPT ![c] = FALSE]
    /\ UNCHANGED heard

\* SetWriteDeadline and the write.
SetDeadline(c) == deadline' = [deadline EXCEPT ![c] = "ahead"]

\* A write under the deadline of an earlier one, its result ignored: it cannot
\* succeed when that deadline is past.
WriteIgnored(c, message) ==
    /\ (deadline[c] # "past" /\ Written(c, message)) \/ WriteFails(c)
    /\ UNCHANGED deadline
-----------------------------------------------------------------------------
(* handleStream. *)

\* TryAdmit returns: handleStream goes on with the slot, or has answered 503.
Admit(c) ==
    /\ TryAdmit(c)
    /\ IF pc'[c] = "held" THEN Go(c, "upgrade") ELSE UNCHANGED phase
    /\ UNCHANGED <<sessions, gauge, work, conns>>

Upgrade(c) ==
    /\ phase[c] = "upgrade"
    /\ Go(c, "count") \/ Go(c, "return")
    /\ UNCHANGED <<vars, sessions, gauge, work, conns>>

CountGauge(c) ==
    /\ phase[c] = "count"
    /\ gauge' = [gauge EXCEPT !.stream = @ + 1]
    /\ Go(c, "enter")
    /\ UNCHANGED <<vars, sessions, work, conns>>

CountSession(c) ==
    /\ phase[c] = "enter"
    /\ sessions' = sessions + 1
    /\ Go(c, "read")
    /\ UNCHANGED <<vars, gauge, work, conns>>

\* Faulty ReadFails: without a read deadline a vanished client is waited for.
ReadWaits(c) ==
    /\ phase[c] = "read"
    /\ inbox[c] = <<>> /\ ~gone[c]
    /\ Go(c, "leave")
    /\ UNCHANGED <<vars, sessions, gauge, work, conns>>

\* ReadMessage fails: the client hung up, or sent nothing for five minutes.
ReadFails(c) ==
    /\ phase[c] = "read"
    /\ inbox[c] = <<>> \/ gone[c]
    /\ Go(c, "leave")
    /\ UNCHANGED <<vars, sessions, gauge, work, conns>>

Take(c) ==
    /\ phase[c] = "read" /\ inbox[c] # <<>>
    /\ inbox' = [inbox EXCEPT ![c] = Tail(@)]
    /\ taken' = [taken EXCEPT ![c] = Append(@, Head(inbox[c]))]

\* Not JSON, or no text: an error is written and the session goes on.
Refuse(c) ==
    /\ Take(c) /\ Head(inbox[c]) = "bad"
    /\ WriteIgnored(c, <<"refused", 0>>)
    /\ UNCHANGED <<vars, phase, sessions, gauge, work, asked, gone>>

Begin(c) ==
    /\ Take(c) /\ Head(inbox[c]) = "good"
    /\ Go(c, "acquire")
    /\ UNCHANGED <<vars, sessions, gauge, work, asked, heard, gone, writable, deadline>>

\* Faulty Leave: the session is not uncounted.
LeaveCounted(c) ==
    /\ phase[c] = "leave"
    /\ Go(c, "uncount")
    /\ UNCHANGED <<vars, sessions, gauge, work, conns>>

\* The deferred calls, last one first.
Leave(c) ==
    /\ phase[c] = "leave"
    /\ sessions' = sessions - 1
    /\ Go(c, "uncount")
    /\ UNCHANGED <<vars, gauge, work, conns>>

UncountGauge(c) ==
    /\ phase[c] = "uncount"
    /\ gauge' = [gauge EXCEPT !.stream = @ - 1]
    /\ Go(c, "return")
    /\ UNCHANGED <<vars, sessions, work, conns>>

\* conn.Close touches nothing shared and is taken with adm.Release; the next
\* connection of this client starts afresh.
Return(c) ==
    /\ phase[c] = "return"
    /\ Release(c)
    /\ Go(c, "out")
    /\ inbox' = [inbox EXCEPT ![c] = <<>>] /\ asked' = [asked EXCEPT ![c] = 0]
    /\ taken' = [taken EXCEPT ![c] = <<>>] /\ heard' = [heard EXCEPT ![c] = <<>>]
    /\ gone' = [gone EXCEPT ![c] = FALSE] /\ writable' = [writable EXCEPT ![c] = TRUE]
    /\ deadline' = [deadline EXCEPT ![c] = "none"]
    /\ total' = [total EXCEPT ![c] = 0] /\ sent' = [sent EXCEPT ![c] = 0]
    /\ failed' = [failed EXCEPT ![c] = FALSE]
    /\ UNCHANGED <<sessions, gauge, lease, load, leaseErr, streak, atFault>>
-----------------------------------------------------------------------------
(* The three hops, of synthesizeToSocket and of handleBatch. *)

\* Faulty Acquire: the count of chunks goes on from the last utterance.
AcquireCountsOn(h) ==
    /\ phase[h] = "acquire"
    /\ \E e \in Endpoints :
         /\ lease' = [lease EXCEPT ![h] = e]
         /\ load' = [load EXCEPT ![e] = @ + 1]
    /\ leaseErr' = [leaseErr EXCEPT ![h] = FALSE]
    /\ total' = [total EXCEPT ![h] = 0]
    /\ failed' = IF h \in Clients THEN [failed EXCEPT ![h] = FALSE] ELSE failed
    /\ Go(h, "frontend")
    /\ UNCHANGED <<vars, sessions, gauge, sent, streak, atFault, conns>>

\* pool.Acquire, which fails only on an empty pool.
Acquire(h) ==
    /\ phase[h] = "acquire"
    /\ \E e \in Endpoints :
         /\ lease' = [lease EXCEPT ![h] = e]
         /\ load' = [load EXCEPT ![e] = @ + 1]
    /\ leaseErr' = [leaseErr EXCEPT ![h] = FALSE]
    /\ sent' = [sent EXCEPT ![h] = 0]
    /\ total' = [total EXCEPT ![h] = 0]
    /\ failed' = IF h \in Clients THEN [failed EXCEPT ![h] = FALSE] ELSE failed
    /\ Go(h, "frontend")
    /\ UNCHANGED <<vars, sessions, gauge, streak, atFault, conns>>

Frontend(h) ==
    /\ phase[h] = "frontend"
    /\ Go(h, "latents")
    /\ UNCHANGED <<vars, sessions, gauge, work, conns>>

Latents(h) ==
    /\ phase[h] = "latents"
    /\ \E n \in 1..MaxChunks : total' = [total EXCEPT ![h] = n]
    /\ Go(h, "stream")
    /\ UNCHANGED <<vars, sessions, gauge, lease, load, leaseErr, streak, atFault, sent, failed, conns>>

\* The utterance is given up with an error that the lease reports.
GiveUp(h) ==
    /\ leaseErr' = [leaseErr EXCEPT ![h] = TRUE]
    /\ failed' = IF h \in Clients THEN [failed EXCEPT ![h] = TRUE] ELSE failed
    /\ Go(h, "release")

\* Faulty CallFails: an early return that does not release the lease.
CallFailsUnreleased(h) ==
    /\ phase[h] \in {"frontend", "latents", "stream"}
    /\ Go(h, IF h \in Batches THEN "uncount" ELSE "report")
    /\ failed' = IF h \in Clients THEN [failed EXCEPT ![h] = TRUE] ELSE failed
    /\ UNCHANGED <<vars, sessions, gauge, lease, load, leaseErr, streak, atFault, total, sent,
                   conns>>

\* A call into the endpoint fails.  A batch's calls also fail when its caller
\* disconnects and the request's context is cancelled; a WebSocket's do not.
CallFails(h) ==
    /\ phase[h] \in {"frontend", "latents", "stream"}
    /\ GiveUp(h)
    /\ \E endpoint \in {TRUE} \cup (IF h \in Batches THEN {FALSE} ELSE {}) :
         atFault' = [atFault EXCEPT ![lease[h]] = @ \/ endpoint]
    /\ UNCHANGED <<vars, sessions, gauge, lease, load, streak, total, sent, conns>>

\* A chunk arrives and is written to the socket.
Chunk(c) ==
    /\ phase[c] = "stream" /\ sent[c] < total[c]
    /\ SetDeadline(c)
    /\ \/ /\ Written(c, <<"audio", 0>>)
          /\ sent' = [sent EXCEPT ![c] = @ + 1]
          /\ UNCHANGED <<phase, leaseErr, failed>>
       \/ /\ WriteFails(c)
          /\ GiveUp(c)
          /\ UNCHANGED sent
    /\ UNCHANGED <<vars, sessions, gauge, lease, load, streak, atFault, total, inbox, asked, taken, gone>>

\* StreamAudio returns nil after the last chunk: the done message.  A failure to
\* write it ends the session, but is not reported of the endpoint.
SayDone(c) ==
    /\ phase[c] = "stream" /\ sent[c] = total[c]
    /\ SetDeadline(c)
    /\ \/ Written(c, <<"done", sent[c]>>) /\ UNCHANGED failed
       \/ WriteFails(c) /\ failed' = [failed EXCEPT ![c] = TRUE]
    /\ Go(c, "release")
    /\ UNCHANGED <<vars, sessions, gauge, lease, load, leaseErr, streak, atFault, total, sent,
                   inbox, asked, taken, gone>>

\* The deferred lease.Release(leaseErr).
ReleaseLease(h) ==
    LET e == lease[h] IN
    /\ phase[h] = "release"
    /\ load' = [load EXCEPT ![e] = @ - 1]
    /\ lease' = [lease EXCEPT ![h] = none]
    /\ leaseErr' = [leaseErr EXCEPT ![h] = FALSE]
    /\ streak' = [streak EXCEPT ![e] = IF ~leaseErr[h] THEN 0
                                       ELSE IF @ < UnhealthyAfterFailures THEN @ + 1 ELSE @]
    /\ atFault' = [atFault EXCEPT ![e] = @ /\ leaseErr[h]]
    /\ Go(h, IF h \in Batches THEN "uncount" ELSE IF failed[h] THEN "report" ELSE "read")
    /\ UNCHANGED <<vars, sessions, gauge, total, sent, failed, conns>>

\* The error is written to the client, if it still can be, and the session ends.
Report(c) ==
    /\ phase[c] = "report"
    /\ WriteIgnored(c, <<"failed", 0>>)
    /\ Go(c, "leave")
    /\ UNCHANGED <<vars, sessions, gauge, work, inbox, asked, taken, gone>>
-----------------------------------------------------------------------------
(* handleBatch. *)

\* A request that does not yield to the live path.
BatchStarts(b) ==
    /\ phase[b] = "out"
    /\ ~(queueDepth > Quarter)
    /\ gauge' = [gauge EXCEPT !.batch = @ + 1]
    /\ Go(b, "acquire")
    /\ UNCHANGED <<vars, sessions, work, conns>>

BatchYields(b) ==
    /\ phase[b] = "out"
    /\ queueDepth > Quarter
    /\ UNCHANGED routes

BatchChunk(b) ==
    /\ phase[b] = "stream" /\ sent[b] < total[b]
    /\ sent' = [sent EXCEPT ![b] = @ + 1]
    /\ UNCHANGED <<vars, phase, sessions, gauge, lease, load, leaseErr, streak, atFault, total,
                   failed, conns>>

\* The WAV is written; that it may fail changes only a counter.
BatchAnswers(b) ==
    /\ phase[b] = "stream" /\ sent[b] = total[b]
    /\ Go(b, "release")
    /\ UNCHANGED <<vars, sessions, gauge, work, conns>>

BatchReturns(b) ==
    /\ phase[b] = "uncount"
    /\ gauge' = [gauge EXCEPT !.batch = @ - 1]
    /\ Go(b, "out")
    /\ total' = [total EXCEPT ![b] = 0] /\ sent' = [sent EXCEPT ![b] = 0]
    /\ UNCHANGED <<vars, sessions, lease, load, leaseErr, streak, atFault, failed, conns>>
-----------------------------------------------------------------------------
(* handleHealth. *)

\* adm.InFlight() is read first.
ReadSlots ==
    /\ ~scrape.open
    /\ scrape' = [open |-> TRUE, slots |-> inFlight, fresh |-> {}]
    /\ UNCHANGED routes

\* sessions.Load() is read last, and the two are answered side by side.
ReadSessions ==
    /\ scrape.open
    /\ scrape' = NoScrape
    /\ UNCHANGED routes

\* History: the clients that have taken a slot since adm.InFlight() was read.
Overtaken ==
    LET admitted == {c \in Clients : phase[c] = "out" /\ phase'[c] # "out"} IN
    scrape' = [scrape EXCEPT !.fresh = IF scrape.open THEN @ \cup admitted ELSE @]
-----------------------------------------------------------------------------
\* The rest of the gateway: the poller and the clock.
Around ==
    /\ (\E d \in QueueDepths : ObserveQueueDepth(d)) \/ Tick
    /\ UNCHANGED <<phase, sessions, gauge, work, conns>>

Hops(h) ==
    Acquire(h) \/ Frontend(h) \/ Latents(h) \/ CallFails(h) \/ ReleaseLease(h)

\* What the handler of a live session does once it is admitted.
HandleStream(c) ==
    \/ Upgrade(c) \/ CountGauge(c) \/ CountSession(c)
    \/ ReadFails(c) \/ Refuse(c) \/ Begin(c)
    \/ Hops(c) \/ Chunk(c) \/ SayDone(c) \/ Report(c)
    \/ Leave(c) \/ UncountGauge(c) \/ Return(c)

HandleBatch(b) ==
    \/ BatchStarts(b) \/ BatchYields(b)
    \/ Hops(b) \/ BatchChunk(b) \/ BatchAnswers(b) \/ BatchReturns(b)

RoutesNext ==
    \/ \E c \in Clients : Admit(c) \/ HandleStream(c) \/ Ask(c) \/ HangUp(c) \/ Expire(c)
    \/ \E b \in Batches : HandleBatch(b)
    \/ Around

GatewayNext == (RoutesNext /\ Overtaken) \/ ReadSlots \/ ReadSessions

GatewaySpec == GatewayInit /\ [][GatewayNext]_gvars

\* The phases in which a handler waits for Triton, with no deadline of its own.
Calls == {"frontend", "latents", "stream"}

\* A handler that can go on does, and a read ends when the client has gone or
\* five minutes are over.  Nothing is said of the calls into Triton: they may
\* never return.
FairGateway ==
    GatewaySpec /\ \A c \in Clients :
        WF_gvars(phase[c] \notin Calls /\ HandleStream(c) /\ Overtaken)
-----------------------------------------------------------------------------
(* Properties. *)

Phases == {"out", "upgrade", "count", "enter", "read", "acquire", "frontend", "latents",
           "stream", "release", "report", "leave", "uncount", "return"}
Leased == {"frontend", "latents", "stream", "release"}
Messages == {<<"audio", 0>>, <<"refused", 0>>, <<"failed", 0>>} \cup
            {<<"done", n>> : n \in 0..MaxChunks}
Requests == {"good", "bad"}

\* Every variable stays in its type.
GatewayTypeOK ==
    /\ TypeOK
    /\ phase \in [Handlers -> Phases]
    /\ sessions \in Nat /\ gauge \in [stream : Nat, batch : Nat]
    /\ lease \in [Handlers -> Endpoints \cup {none}]
    /\ load \in [Endpoints -> Nat]
    /\ leaseErr \in [Handlers -> BOOLEAN]
    /\ streak \in [Endpoints -> 0..UnhealthyAfterFailures]
    /\ atFault \in [Endpoints -> BOOLEAN]
    /\ total \in [Handlers -> 0..MaxChunks] /\ sent \in [Handlers -> 0..MaxChunks]
    /\ failed \in [Clients -> BOOLEAN]
    /\ inbox \in [Clients -> Seq(Requests)] /\ taken \in [Clients -> Seq(Requests)]
    /\ asked \in [Clients -> 0..MaxRequests]
    /\ heard \in [Clients -> Seq(Messages)]
    /\ gone \in [Clients -> BOOLEAN] /\ writable \in [Clients -> BOOLEAN]
    /\ deadline \in [Clients -> {"none", "ahead", "past"}]
    /\ scrape \in [open : BOOLEAN, slots : Nat, fresh : SUBSET Clients]

\* Whatever path a handler returns by, what it took is given back, and given back
\* once: the slot, the endpoint's load, the gauge and the session count are at
\* every moment what the handlers on their way through account for.
NothingLeaks ==
    /\ inFlight = Cardinality({c \in Clients : phase[c] # "out"})
    /\ \A e \in Endpoints :
         load[e] = Cardinality({h \in Handlers : phase[h] \in Leased /\ lease[h] = e})
    /\ gauge.batch = Cardinality({b \in Batches : phase[b] # "out"})
    /\ gauge.stream =
         Cardinality({c \in Clients : phase[c] \notin {"out", "upgrade", "count", "return"}})

\* handleHealth reads the slots and the sessions at different moments, and
\* handlers come and go in between, each of which counts itself in three steps:
\* the answer may show more sessions than slots.  But not without cause: whenever
\* the second read comes, every session too many is a client let in since the
\* first.
ScrapeExplained ==
    /\ GatewayTypeOK
    /\ scrape.open => sessions <= scrape.slots + Cardinality(scrape.fresh)

\* The positions, in what was said, of the messages that end an answer.
Ends(said) == {k \in 1..Len(said) : said[k][1] # "audio"}

\* The answers that have ended at position k.
Answered(said, k) == Cardinality({j \in Ends(said) : j <= k})

\* The audio since the last of them before position k.
AudioBefore(said, k) ==
    Cardinality({j \in 1..(k - 1) : \A x \in j..(k - 1) : said[x][1] = "audio"})

\* What was said are answers to the requests, in their order: a refusal to a
\* malformed one and to no other, without audio; a done message that counts
\* exactly the chunks before it; a failure only as the last word.
InOrder(said, requests) ==
    /\ Answered(said, Len(said)) <= Len(requests)
    /\ \A k \in Ends(said) :
         (said[k][1] = "refused") <=> (requests[Answered(said, k)] = "bad")
    /\ \A k \in 1..Len(said) :
         /\ said[k][1] = "refused" => AudioBefore(said, k) = 0
         /\ said[k][1] = "done" => AudioBefore(said, k) = said[k][2] /\ said[k][2] > 0
         /\ said[k][1] = "failed" => k = Len(said)

\* Does the connection still carry what the handler says?
Carried(c) == writable[c] /\ ~gone[c]

\* What a client hears are answers to its requests, in the order it sent them,
\* however many it sends ahead (handleStream's loop).  While the connection
\* carries them none is skipped: when the next request is read the last was
\* answered.
AnswersInOrder ==
    \A c \in Clients :
      /\ InOrder(heard[c], taken[c])
      /\ phase[c] = "read" /\ Carried(c) =>
           Answered(heard[c], Len(heard[c])) = Len(taken[c])

\* A session whose client has hung up gives its slot back: the handler finds
\* out, at a write or at the next read, whatever was still waiting in the inbox.
\* Unless a call into Triton never returns: none has a deadline (client.go:157,
\* 233 and 268), and the context of a hijacked connection is not cancelled when
\* its client goes, so that such a slot is gone for good.
SlotComesBack ==
    \A c \in Clients :
        []<>(phase[c] \notin Calls) => (gone[c] ~> phase[c] = "out")

\* main.go:458-459: batch work "yields whenever the live path is under any
\* pressure".  When live sessions are being turned away, it is.  This does NOT
\* hold: only the queue's depth is looked at (README, "Met while modelling").
BatchYieldsToLive ==
    [][\A b \in Batches :
         phase[b] = "out" /\ phase'[b] # "out" => ~Cooling /\ inFlight < MaxInFlight]_gvars

\* pool.go:32-33: "One transient error should not evict an endpoint; a persistent
\* one should stop receiving traffic."  An endpoint on which no call has failed
\* has had neither.  This does NOT hold: an error of the client's own socket
\* counts against the endpoint (README, "Met while modelling").
EvictionDeserved ==
    \A e \in Endpoints : streak[e] >= UnhealthyAfterFailures => atFault[e]
=============================================================================
