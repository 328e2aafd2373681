------------------------------ MODULE Broker ------------------------------
(***************************************************************************)
(* The realtime bridge of the API process (internal/realtime): Redis       *)
(* pub/sub feeds SubscribeRedis, the pump, which fans every message out to *)
(* the buffered channels of the clients; each client is served by its own  *)
(* ServeHTTP goroutine, which registers and deregisters under the lock     *)
(* that the pump holds for reading while it iterates over the clients.     *)
(*                                                                         *)
(* An event is its number in the order of publication.  A stream stands    *)
(* for one HTTP request, so it is connected once; a browser that comes     *)
(* back is another stream.  Broker.Publish has the same body as the pump's *)
(* loop but nobody calls it: both processes publish through Redis.         *)
(***************************************************************************)
EXTENDS Integers, Sequences

CONSTANTS
  Streams,     \* requests to GET /api/events
  BufferSize,  \* capacity of a client channel (16 in the code)
  MaxEvents    \* bound on the number of events published

ASSUME BufferSizeAssumption == BufferSize \in Nat \ {0}
ASSUME MaxEventsAssumption == MaxEvents \in Nat

VARIABLES
  published,   \* number of events published so far
  connected,   \* the pump's subscription to the Redis channel is up
  pending,     \* messages received from Redis, not yet taken by the pump
  current,     \* the message the pump is fanning out, 0 when it waits
  fan,         \* the clients the pump's loop has still to visit
  spc,         \* where the ServeHTTP goroutine of each stream is
  clients,     \* Broker.clients
  buffer,      \* the client channels
  closed,      \* the client channels that are closed
  writing,     \* the message ServeHTTP is writing to the response, 0 if none
  latest,      \* the last event written to each response
  dropped,     \* history: events the default branch threw away
  missed       \* history: events published while the pump was disconnected

pumpVars == <<current, fan>>
streamVars == <<spc, clients, closed, writing, latest>>
redisVars == <<published, connected, missed>>
brokerVars == <<redisVars, pending, pumpVars, streamVars, buffer, dropped>>

Events == 1..MaxEvents

TypeOK ==
  /\ published \in 0..MaxEvents
  /\ connected \in BOOLEAN
  /\ pending \in Seq(Events)
  /\ current \in 0..MaxEvents
  /\ fan \in SUBSET Streams
  /\ spc \in [Streams -> {"new", "joining", "serving", "leaving", "closing",
                          "done"}]
  /\ clients \in SUBSET Streams
  /\ buffer \in [Streams -> Seq(Events)]
  /\ closed \in SUBSET Streams
  /\ writing \in [Streams -> 0..MaxEvents]
  /\ latest \in [Streams -> 0..MaxEvents]
  /\ dropped \in [Streams -> SUBSET Events]
  /\ missed \in SUBSET Events

Init ==
  /\ published = 0
  /\ connected = TRUE
  /\ pending = <<>>
  /\ current = 0
  /\ fan = {}
  /\ spc = [c \in Streams |-> "new"]
  /\ clients = {}
  /\ buffer = [c \in Streams |-> <<>>]
  /\ closed = {}
  /\ writing = [c \in Streams |-> 0]
  /\ latest = [c \in Streams |-> 0]
  /\ dropped = [c \in Streams |-> {}]
  /\ missed = {}

----------------------------------------------------------------------------
(***************************************************************************)
(* Redis pub/sub (external): a message reaches the API process only while  *)
(* its subscription is up; the client library reconnects by itself, and    *)
(* what was published in between is lost.                                  *)
(***************************************************************************)
Publish ==
  /\ published < MaxEvents
  /\ published' = published + 1
  /\ IF connected
       THEN pending' = Append(pending, published') /\ UNCHANGED missed
       ELSE missed' = missed \cup {published'} /\ UNCHANGED pending
  /\ UNCHANGED <<connected, pumpVars, streamVars, buffer, dropped>>

ConnectionChanges ==
  /\ connected' = ~connected
  /\ UNCHANGED <<published, missed, pending, pumpVars, streamVars, buffer,
                 dropped>>

----------------------------------------------------------------------------
(***************************************************************************)
(* The pump.  It holds the read lock from TakeMessage to EndFanOut.        *)
(***************************************************************************)
\* Sections under the write lock cannot run.
ReadLocked == current # 0

\* Mutant: every message is handled by a goroutine of its own, so any of them
\* may be the first to get the lock.
TakeAnyMessage ==
  /\ ~ReadLocked
  /\ \E n \in DOMAIN pending :
       /\ current' = pending[n]
       /\ pending' = SubSeq(pending, 1, n - 1) \o SubSeq(pending, n + 1, Len(pending))
  /\ fan' = clients
  /\ UNCHANGED <<redisVars, streamVars, buffer, dropped>>

\* Mutant: messages that have come in meanwhile are merged into the last one.
TakeLatestMessage ==
  /\ ~ReadLocked
  /\ pending # <<>>
  /\ current' = pending[Len(pending)]
  /\ pending' = <<>>
  /\ fan' = clients
  /\ UNCHANGED <<redisVars, streamVars, buffer, dropped>>

\* A message arrives and the pump gets the read lock.
TakeMessage ==
  /\ ~ReadLocked
  /\ pending # <<>>
  /\ current' = Head(pending)
  /\ pending' = Tail(pending)
  /\ fan' = clients
  /\ UNCHANGED <<redisVars, streamVars, buffer, dropped>>

\* Mutant: a send without the default branch waits for a slow client.
OfferBlocking(c) ==
  /\ c \in fan
  /\ Len(buffer[c]) < BufferSize
  /\ fan' = fan \ {c}
  /\ buffer' = [buffer EXCEPT ![c] = Append(@, current)]
  /\ UNCHANGED <<redisVars, pending, current, streamVars, dropped>>

\* One round of the loop: a send that does not wait.
Offer(c) ==
  /\ c \in fan
  /\ fan' = fan \ {c}
  /\ IF Len(buffer[c]) < BufferSize
       THEN /\ buffer' = [buffer EXCEPT ![c] = Append(@, current)]
            /\ UNCHANGED dropped
       ELSE /\ dropped' = [dropped EXCEPT ![c] = @ \cup {current}]
            /\ UNCHANGED buffer
  /\ UNCHANGED <<redisVars, pending, current, streamVars>>

\* Mutant: without clients publishRaw returns early and keeps the lock.
EndFanOutLocked ==
  /\ ReadLocked
  /\ fan = {}
  /\ current' = IF clients = {} THEN current ELSE 0
  /\ UNCHANGED <<redisVars, pending, fan, streamVars, buffer, dropped>>

\* The loop ends and the read lock is released.
EndFanOut ==
  /\ ReadLocked
  /\ fan = {}
  /\ current' = 0
  /\ UNCHANGED <<redisVars, pending, fan, streamVars, buffer, dropped>>

----------------------------------------------------------------------------
(***************************************************************************)
(* ServeHTTP of one stream                                                 *)
(***************************************************************************)
StreamGoes(c, pc) == spc' = [spc EXCEPT ![c] = pc]

\* A request arrives: its channel is made.
Connect(c) ==
  /\ spc[c] = "new"
  /\ StreamGoes(c, "joining")
  /\ UNCHANGED <<redisVars, pending, pumpVars, clients, closed, writing,
                 latest, buffer, dropped>>

\* The section under the lock that registers the channel.
Register(c) ==
  /\ spc[c] = "joining"
  /\ ~ReadLocked
  /\ StreamGoes(c, "serving")
  /\ clients' = clients \cup {c}
  /\ UNCHANGED <<redisVars, pending, pumpVars, closed, writing, latest, buffer,
                 dropped>>

\* The loop receives a message and starts to write it.
ReceiveMessage(c) ==
  /\ spc[c] = "serving"
  /\ writing[c] = 0
  /\ buffer[c] # <<>>
  /\ writing' = [writing EXCEPT ![c] = Head(buffer[c])]
  /\ buffer' = [buffer EXCEPT ![c] = Tail(@)]
  /\ UNCHANGED <<redisVars, pending, pumpVars, spc, clients, closed, latest,
                 dropped>>

\* Mutant: without Flush a message goes out when the next one is there.
FlushWithNext(c) ==
  /\ spc[c] = "serving"
  /\ writing[c] # 0
  /\ buffer[c] # <<>>
  /\ latest' = [latest EXCEPT ![c] = writing[c]]
  /\ writing' = [writing EXCEPT ![c] = 0]
  /\ UNCHANGED <<redisVars, pending, pumpVars, spc, clients, closed, buffer,
                 dropped>>

\* The write and flush return; until then the goroutine reads nothing.
FlushMessage(c) ==
  /\ spc[c] = "serving"
  /\ writing[c] # 0
  /\ latest' = [latest EXCEPT ![c] = writing[c]]
  /\ writing' = [writing EXCEPT ![c] = 0]
  /\ UNCHANGED <<redisVars, pending, pumpVars, spc, clients, closed, buffer,
                 dropped>>

\* The request's context is done.  select may prefer it to a waiting message;
\* a write in progress fails, its error is ignored.
HangUp(c) ==
  /\ spc[c] = "serving"
  /\ StreamGoes(c, "leaving")
  /\ writing' = [writing EXCEPT ![c] = 0]
  /\ UNCHANGED <<redisVars, pending, pumpVars, clients, closed, latest, buffer,
                 dropped>>

\* Mutant: the deferred function forgets the lock.
DeregisterUnlocked(c) ==
  /\ spc[c] = "leaving"
  /\ StreamGoes(c, "closing")
  /\ clients' = clients \ {c}
  /\ UNCHANGED <<redisVars, pending, pumpVars, closed, writing, latest, buffer,
                 dropped>>

\* The section under the lock that removes the channel.
Deregister(c) ==
  /\ spc[c] = "leaving"
  /\ ~ReadLocked
  /\ StreamGoes(c, "closing")
  /\ clients' = clients \ {c}
  /\ UNCHANGED <<redisVars, pending, pumpVars, closed, writing, latest, buffer,
                 dropped>>

\* close(client), after the lock has been released.
CloseChannel(c) ==
  /\ spc[c] = "closing"
  /\ StreamGoes(c, "done")
  /\ closed' = closed \cup {c}
  /\ UNCHANGED <<redisVars, pending, pumpVars, clients, writing, latest,
                 buffer, dropped>>

----------------------------------------------------------------------------
PumpStep == TakeMessage \/ EndFanOut \/ \E c \in Streams : Offer(c)

\* What ServeHTTP does by itself.  FlushMessage is not among it: how long a
\* write takes is up to the network and the browser.
StreamStep(c) == ReceiveMessage(c) \/ CloseChannel(c)

LockStep(c) == Register(c) \/ Deregister(c)

Next ==
  \/ Publish \/ ConnectionChanges
  \/ PumpStep
  \/ \E c \in Streams : \/ Connect(c) \/ HangUp(c) \/ FlushMessage(c)
                        \/ StreamStep(c) \/ LockStep(c)

Spec == Init /\ [][Next]_brokerVars

(***************************************************************************)
(* Goroutines are scheduled.  A blocked Lock call of a sync.RWMutex keeps  *)
(* new readers out, so a stream that waits for the lock gets it even if    *)
(* the pump never pauses: strong fairness for the two locked sections.     *)
(* Browsers owe nothing: neither FlushMessage nor HangUp is fair.          *)
(***************************************************************************)
Fairness ==
  /\ WF_brokerVars(PumpStep)
  /\ \A c \in Streams :
       WF_brokerVars(StreamStep(c)) /\ SF_brokerVars(LockStep(c))

FairSpec == Spec /\ Fairness

\* Browsers read what is written to them.
BrowsersRead == \A c \in Streams : WF_brokerVars(FlushMessage(c))

----------------------------------------------------------------------------
(***************************************************************************)
(* Safety                                                                  *)
(***************************************************************************)
\* The pump never sends on a closed channel, which would panic and end the
\* API process: a client is removed under the lock before its channel is
\* closed, and the pump keeps the lock while it walks the clients.
NoSendOnClosed == fan \cap closed = {}

Elems(s) == {s[n] : n \in 1..Len(s)}

Ascending(s) == \A m, n \in 1..Len(s) : m < n => s[m] < s[n]

Before(S, T) == \A a \in S, b \in T : a < b

\* The stages between Redis and the response of stream c, last stage first.
InResponse(c) == IF writing[c] = 0 THEN {} ELSE {writing[c]}
InChannel(c) == Elems(buffer[c])
InPump(c) == IF c \in fan THEN {current} ELSE {}
InRedis == Elems(pending)

\* What a stream has written and what is on its way to it is in the order of
\* publication, without repetition, through the subscription, the pump, the
\* channel and the response.
InOrder ==
  /\ Ascending(pending)
  /\ \A c \in Streams :
       /\ Ascending(buffer[c])
       /\ Before({latest[c]}, InResponse(c))
       /\ Before({latest[c]} \cup InResponse(c), InChannel(c))
       /\ Before({latest[c]} \cup InResponse(c) \cup InChannel(c), InPump(c))
       /\ Before({latest[c]} \cup InResponse(c) \cup InChannel(c) \cup InPump(c),
                 InRedis)

\* The strengthening that makes both inductive: who is registered, whose
\* channel is closed and when the lock is held follow from where the ServeHTTP
\* goroutines are, and nothing in the bridge is newer than the last event.
Registered ==
  /\ clients = {c \in Streams : spc[c] \in {"serving", "leaving"}}
  /\ closed = {c \in Streams : spc[c] = "done"}
  /\ fan \subseteq clients
  /\ fan # {} => ReadLocked
  /\ \A c \in Streams : writing[c] # 0 => spc[c] = "serving"

NotNewer ==
  /\ current <= published
  /\ \A e \in InRedis : e <= published
  /\ \A c \in Streams : /\ writing[c] <= published
                        /\ latest[c] <= published
                        /\ \A e \in InChannel(c) : e <= published

BrokerInv == TypeOK /\ Registered /\ NotNewer /\ InOrder

\* Once a stream has written an event, every later one is on its way, or was
\* thrown away because BufferSize others were waiting, or was published while
\* Redis was out of reach: nothing gets lost anywhere else.
Accounted ==
  \A c \in Streams : spc[c] = "serving" /\ latest[c] # 0 =>
    (latest[c] + 1)..published \subseteq
      InResponse(c) \cup InChannel(c) \cup InPump(c) \cup InRedis
        \cup dropped[c] \cup missed

PhaseOf ==
  [c \in Streams |-> CASE spc[c] \in {"new", "joining"} -> "new"
                       [] spc[c] = "serving" -> "open"
                       [] OTHER -> "ended"]

Stream == INSTANCE EventStream WITH phase <- PhaseOf

\* The broker implements the event stream a dashboard relies on.
ImplementsStream == Stream!Spec

----------------------------------------------------------------------------
(***************************************************************************)
(* Progress                                                                *)
(***************************************************************************)
\* No client can hold up the others, not even one that never reads: the fan
\* out of a message ends.
FanOutEnds == \A e \in Events : current = e ~> current # e

\* Whoever waits for the lock gets it: a new client is registered, and one
\* that has hung up is removed and its channel closed.
LockIsGranted ==
  \A c \in Streams : /\ spc[c] = "joining" ~> spc[c] = "serving"
                     /\ spc[c] = "leaving" ~> spc[c] = "done"

\* If browsers read, an event in a client's channel is written, unless the
\* client hangs up.
BufferedIsWritten ==
  BrowsersRead => \A c \in Streams, e \in Events :
    e \in InChannel(c)
      ~> latest[c] = e \/ spc[c] # "serving"
=============================================================================
