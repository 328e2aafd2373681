--------------------------- MODULE BrokerProofs ---------------------------
(***************************************************************************)
(* Proofs about Broker, for any streams, buffer size and number of events. *)
(***************************************************************************)
EXTENDS Broker, TLAPS

USE BufferSizeAssumption, MaxEventsAssumption

\* What Append and Tail do to the elements and the order of a sequence.
LEMMA AppendElems ==
  ASSUME NEW s \in Seq(Events), NEW e \in Events
  PROVE  /\ Append(s, e) \in Seq(Events)
         /\ Elems(Append(s, e)) = Elems(s) \cup {e}
<1>1. Len(Append(s, e)) = Len(s) + 1
  OBVIOUS
<1>2. \A n \in 1..Len(s) : Append(s, e)[n] = s[n]
  OBVIOUS
<1>3. Append(s, e)[Len(s) + 1] = e
  OBVIOUS
<1> QED
  BY <1>1, <1>2, <1>3 DEF Elems

LEMMA AppendAscending ==
  ASSUME NEW s \in Seq(Events), NEW e \in Events,
         Ascending(s), Before(Elems(s), {e})
  PROVE  Ascending(Append(s, e))
<1>1. \A n \in 1..Len(s) : s[n] < e
  BY DEF Before, Elems
<1> QED
  BY <1>1 DEF Ascending

LEMMA TailElems ==
  ASSUME NEW s \in Seq(Events), s # <<>>
  PROVE  /\ Head(s) \in Events
         /\ Tail(s) \in Seq(Events)
         /\ Elems(s) = {Head(s)} \cup Elems(Tail(s))
         /\ Ascending(s) => /\ Ascending(Tail(s))
                            /\ Before({Head(s)}, Elems(Tail(s)))
<1>1. /\ Tail(s) \in Seq(Events)
      /\ Len(Tail(s)) = Len(s) - 1
      /\ Len(s) \in Nat \ {0}
      /\ Head(s) = s[1]
      /\ \A n \in 1..Len(s) : s[n] \in Events
  OBVIOUS
<1>2. \A n \in 1..(Len(s) - 1) : Tail(s)[n] = s[n + 1]
  OBVIOUS
<1>3. Elems(s) = {Head(s)} \cup Elems(Tail(s))
  <2>1. \A n \in 1..Len(s) : n = 1 \/ n - 1 \in 1..Len(Tail(s))
    BY <1>1
  <2>2. \A n \in 1..Len(s) : n # 1 => s[n] = Tail(s)[n - 1]
    BY <1>1, <1>2
  <2>3. \A n \in 1..Len(Tail(s)) : n + 1 \in 1..Len(s) /\ Tail(s)[n] = s[n + 1]
    BY <1>1, <1>2
  <2>4. 1 \in 1..Len(s)
    BY <1>1
  <2> QED
    BY <1>1, <2>1, <2>2, <2>3, <2>4 DEF Elems
<1>4. Ascending(s) => Ascending(Tail(s)) /\ Before({Head(s)}, Elems(Tail(s)))
  BY <1>1, <1>2 DEF Ascending, Before, Elems
<1> QED
  BY <1>1, <1>3, <1>4

\* The stages of the bridge hold numbers.
LEMMA Stages ==
  ASSUME TypeOK
  PROVE  /\ InRedis \subseteq 1..MaxEvents
         /\ \A c \in Streams : /\ latest[c] \in 0..MaxEvents
                               /\ writing[c] \in 0..MaxEvents
                               /\ InChannel(c) \subseteq 1..MaxEvents
                               /\ InResponse(c) \subseteq 0..MaxEvents
                               /\ InPump(c) \subseteq 0..MaxEvents
<1>1. ASSUME NEW s \in Seq(Events)
      PROVE  Elems(s) \subseteq 1..MaxEvents
  BY DEF Elems, Events
<1>2. InRedis \subseteq 1..MaxEvents
  BY <1>1 DEF TypeOK, InRedis
<1>3. \A c \in Streams : buffer[c] \in Seq(Events)
  BY DEF TypeOK
<1>4. \A c \in Streams : InChannel(c) \subseteq 1..MaxEvents
  BY <1>1, <1>3 DEF InChannel
<1> QED
  BY <1>2, <1>4 DEF TypeOK, InResponse, InPump

----------------------------------------------------------------------------
LEMMA InvInit == Init => BrokerInv
<1> SUFFICES ASSUME Init
             PROVE  BrokerInv
  OBVIOUS
<1>1. TypeOK
  BY DEF Init, TypeOK, Events
<1>2. InRedis = {} /\ \A c \in Streams : /\ InChannel(c) = {}
                                        /\ InPump(c) = {}
                                        /\ InResponse(c) = {}
  BY DEF Init, InRedis, InChannel, InPump, InResponse, Elems
<1>3. Registered
  BY DEF Init, Registered
<1>4. NotNewer
  BY <1>2 DEF Init, NotNewer
<1>5. InOrder
  BY <1>2 DEF Init, InOrder, Before, Ascending
<1> QED
  BY <1>1, <1>3, <1>4, <1>5 DEF BrokerInv

LEMMA PublishInv ==
  ASSUME BrokerInv, Publish
  PROVE  BrokerInv'
<1> USE DEF BrokerInv
<1>1. /\ published' = published + 1
      /\ published \in 0..MaxEvents
      /\ published' \in 1..MaxEvents
      /\ published' \in Events
      /\ pending \in Seq(Events)
  BY DEF Publish, TypeOK, Events
<1>2. /\ pending' \in Seq(Events)
      /\ InRedis' \subseteq InRedis \cup {published'}
      /\ Ascending(pending)'
  <2>1. CASE connected
    <3>1. pending' = Append(pending, published')
      BY <2>1 DEF Publish
    <3>2. Before(Elems(pending), {published'})
      BY <1>1, Stages DEF NotNewer, InRedis, Before
    <3>3. Ascending(pending)
      BY DEF InOrder
    <3>4. Ascending(pending')
      BY <1>1, <3>1, <3>2, <3>3, AppendAscending
    <3>5. pending' \in Seq(Events) /\ Elems(pending') = Elems(pending) \cup {published'}
      BY <1>1, <3>1, AppendElems
    <3> QED
      BY <3>4, <3>5 DEF InRedis, Ascending
  <2>2. CASE ~connected
    BY <1>1, <2>2 DEF Publish, InOrder, InRedis, Ascending
  <2> QED
    BY <2>1, <2>2
<1>3. TypeOK'
  <2>1. missed' \in SUBSET Events
    BY <1>1 DEF Publish, TypeOK
  <2>2. /\ published' \in 0..MaxEvents
        /\ UNCHANGED <<connected, pumpVars, streamVars, buffer, dropped>>
    BY <1>1 DEF Publish
  <2> QED
    BY <1>2, <2>1, <2>2 DEF TypeOK, pumpVars, streamVars
<1>4. /\ UNCHANGED <<current, fan, spc, clients, closed, writing, latest, buffer>>
      /\ \A c \in Streams : /\ InResponse(c)' = InResponse(c)
                            /\ InChannel(c)' = InChannel(c)
                            /\ InPump(c)' = InPump(c)
  BY DEF Publish, pumpVars, streamVars, InResponse, InChannel, InPump
<1>5. Registered'
  BY <1>4 DEF Registered, ReadLocked
<1>6. NotNewer'
  <2>1. \A e \in 0..MaxEvents : e <= published => e <= published'
    BY <1>1
  <2>2. current' <= published'
    BY <1>4, <2>1 DEF NotNewer, TypeOK
  <2>3. \A e \in InRedis' : e <= published'
    BY <1>1, <1>2, <2>1, Stages DEF NotNewer
  <2>4. ASSUME NEW c \in Streams
        PROVE  (/\ writing[c] <= published
                /\ latest[c] <= published
                /\ \A e \in InChannel(c) : e <= published)'
    BY <1>4, <2>1, Stages DEF NotNewer
  <2> QED
    BY <2>2, <2>3, <2>4 DEF NotNewer
<1>7. InOrder'
  <2>1. ASSUME NEW c \in Streams
        PROVE  /\ latest[c] < published'
               /\ \A e \in InResponse(c) \cup InChannel(c) \cup InPump(c) :
                    e < published'
    <3>1. /\ latest[c] <= published
          /\ writing[c] <= published
          /\ current <= published
          /\ \A e \in InChannel(c) : e <= published
      BY DEF NotNewer
    <3> QED
      BY <1>1, <3>1, Stages DEF InResponse, InPump, TypeOK
  <2>2. \A c \in Streams : Ascending(buffer[c])'
    BY <1>4 DEF InOrder, Ascending
  <2>3. ASSUME NEW c \in Streams
        PROVE  Before({latest[c]} \cup InResponse(c) \cup InChannel(c)
                        \cup InPump(c), InRedis)'
    BY <1>2, <1>4, <2>1 DEF InOrder, Before
  <2> QED
    BY <1>2, <1>4, <2>2, <2>3 DEF InOrder, Before
<1> QED
  BY <1>3, <1>5, <1>6, <1>7

LEMMA TakeMessageInv ==
  ASSUME BrokerInv, TakeMessage
  PROVE  BrokerInv'
<1> USE DEF BrokerInv
<1>1. /\ current = 0 /\ fan = {} /\ fan' = clients
      /\ pending \in Seq(Events) /\ pending # <<>>
      /\ current' = Head(pending) /\ pending' = Tail(pending)
      /\ UNCHANGED <<redisVars, streamVars, buffer, dropped>>
  BY DEF TakeMessage, ReadLocked, Registered, TypeOK
<1>2. /\ current' \in Events /\ current' \in 1..MaxEvents
      /\ pending' \in Seq(Events)
      /\ InRedis = {current'} \cup InRedis'
      /\ Ascending(pending)'
      /\ Before({current'}, InRedis')
  <2>1. Ascending(pending)
    BY DEF InOrder
  <2> QED
    BY <1>1, <2>1, TailElems DEF InRedis, Events, Ascending
<1>3. \A c \in Streams : /\ InResponse(c)' = InResponse(c)
                         /\ InChannel(c)' = InChannel(c)
                         /\ InPump(c)' \subseteq {current'}
  BY <1>1 DEF streamVars, InResponse, InChannel, InPump
<1>4. TypeOK'
  BY <1>1, <1>2 DEF TypeOK, redisVars, streamVars
<1>5. Registered'
  BY <1>1, <1>2 DEF Registered, ReadLocked, streamVars
<1>6. NotNewer'
  BY <1>1, <1>2, <1>3 DEF NotNewer, redisVars, streamVars
<1>7. InOrder'
  <2>1. \A c \in Streams : Ascending(buffer[c])'
    BY <1>1 DEF InOrder, Ascending
  <2> QED
    BY <1>1, <1>2, <1>3, <2>1 DEF InOrder, Before, streamVars
<1> QED
  BY <1>4, <1>5, <1>6, <1>7

LEMMA OfferInv ==
  ASSUME BrokerInv, NEW c \in Streams, Offer(c)
  PROVE  BrokerInv'
<1> USE DEF BrokerInv
<1>1. /\ c \in fan /\ fan' = fan \ {c}
      /\ UNCHANGED <<redisVars, pending, current, streamVars>>
      /\ current \in Events /\ current \in 1..MaxEvents
      /\ buffer[c] \in Seq(Events)
  BY DEF Offer, Registered, ReadLocked, TypeOK, Events
<1>2. InPump(c) = {current} /\ InPump(c)' = {}
  BY <1>1 DEF InPump
<1>3. /\ buffer' \in [Streams -> Seq(Events)]
      /\ dropped' \in [Streams -> SUBSET Events]
      /\ \A d \in Streams : d # c => buffer'[d] = buffer[d]
      /\ InChannel(c)' \subseteq InChannel(c) \cup {current}
      /\ Ascending(buffer'[c])
  <2>1. CASE Len(buffer[c]) < BufferSize
    <3>1. /\ buffer' = [buffer EXCEPT ![c] = Append(@, current)]
          /\ UNCHANGED dropped
      BY <2>1 DEF Offer
    <3>2. buffer'[c] = Append(buffer[c], current)
      BY <3>1 DEF TypeOK
    <3>3. Before(Elems(buffer[c]), {current}) /\ Ascending(buffer[c])
      BY <1>1, <1>2 DEF InOrder, Before, InChannel
    <3>4. /\ buffer'[c] \in Seq(Events)
          /\ Elems(buffer'[c]) = Elems(buffer[c]) \cup {current}
      BY <1>1, <3>2, AppendElems
    <3>5. Ascending(buffer'[c])
      BY <1>1, <3>2, <3>3, AppendAscending
    <3> QED
      BY <3>1, <3>4, <3>5 DEF TypeOK, InChannel
  <2>2. CASE ~(Len(buffer[c]) < BufferSize)
    <3>1. /\ buffer' = buffer
          /\ dropped' = [dropped EXCEPT ![c] = @ \cup {current}]
      BY <2>2 DEF Offer
    <3>2. dropped' \in [Streams -> SUBSET Events]
      BY <1>1, <3>1 DEF TypeOK
    <3>3. Ascending(buffer'[c]) /\ InChannel(c)' = InChannel(c)
      BY <3>1 DEF InOrder, InChannel
    <3> QED
      BY <3>1, <3>2, <3>3 DEF TypeOK
  <2> QED
    BY <2>1, <2>2
<1>4. /\ \A d \in Streams : /\ InResponse(d)' = InResponse(d)
                            /\ d # c => InChannel(d)' = InChannel(d)
                            /\ d # c => InPump(d)' = InPump(d)
      /\ InRedis' = InRedis
  BY <1>1, <1>3 DEF streamVars, InResponse, InChannel, InPump, InRedis
<1>5. TypeOK'
  BY <1>1, <1>3 DEF TypeOK, redisVars, streamVars
<1>6. Registered'
  BY <1>1 DEF Registered, ReadLocked, streamVars
<1>7. NotNewer'
  BY <1>1, <1>3, <1>4 DEF NotNewer, redisVars, streamVars
<1>8. InOrder'
  <2>1. Ascending(pending)'
    BY <1>1 DEF InOrder, Ascending
  <2>2. \A d \in Streams : Ascending(buffer[d])'
    BY <1>3 DEF InOrder, Ascending
  <2>3. /\ \A d \in Streams : latest'[d] = latest[d]
        /\ \A d \in Streams :
             (InChannel(d) \cup InPump(d))' \subseteq InChannel(d) \cup InPump(d)
    BY <1>1, <1>2, <1>3, <1>4 DEF streamVars
  <2>4. ASSUME NEW d \in Streams
        PROVE  /\ Before({latest[d]}, InResponse(d))'
               /\ Before({latest[d]} \cup InResponse(d), InChannel(d))'
               /\ Before({latest[d]} \cup InResponse(d) \cup InChannel(d)
                           \cup InPump(d), InRedis)'
    BY <1>4, <2>3 DEF InOrder, Before
  <2>5. ASSUME NEW d \in Streams
        PROVE  Before({latest[d]} \cup InResponse(d) \cup InChannel(d),
                      InPump(d))'
    <3>1. CASE d = c
      BY <1>2, <3>1 DEF Before
    <3>2. CASE d # c
      BY <1>4, <2>3, <3>2 DEF InOrder
    <3> QED
      BY <3>1, <3>2
  <2> QED
    BY <2>1, <2>2, <2>4, <2>5 DEF InOrder
<1> QED
  BY <1>5, <1>6, <1>7, <1>8

LEMMA ReceiveMessageInv ==
  ASSUME BrokerInv, NEW c \in Streams, ReceiveMessage(c)
  PROVE  BrokerInv'
<1> USE DEF BrokerInv
<1>1. /\ spc[c] = "serving" /\ writing[c] = 0
      /\ buffer[c] \in Seq(Events) /\ buffer[c] # <<>>
      /\ writing' = [writing EXCEPT ![c] = Head(buffer[c])]
      /\ buffer' = [buffer EXCEPT ![c] = Tail(buffer[c])]
      /\ UNCHANGED <<redisVars, pending, pumpVars, spc, clients, closed,
                     latest, dropped>>
  BY DEF ReceiveMessage, TypeOK
<1>2. /\ writing'[c] \in Events /\ writing'[c] \in 1..MaxEvents
      /\ buffer'[c] \in Seq(Events)
      /\ InChannel(c) = {writing'[c]} \cup InChannel(c)'
      /\ Ascending(buffer'[c])
      /\ Before({writing'[c]}, InChannel(c)')
  <2>1. Ascending(buffer[c])
    BY DEF InOrder
  <2>2. writing'[c] = Head(buffer[c]) /\ buffer'[c] = Tail(buffer[c])
    BY <1>1 DEF TypeOK
  <2> QED
    BY <1>1, <2>1, <2>2, TailElems DEF InChannel, Events
<1>3. InResponse(c) = {} /\ InResponse(c)' = {writing'[c]}
  BY <1>1, <1>2 DEF InResponse
<1>4. /\ \A d \in Streams : d # c => /\ buffer'[d] = buffer[d]
                                     /\ writing'[d] = writing[d]
                                     /\ InResponse(d)' = InResponse(d)
                                     /\ InChannel(d)' = InChannel(d)
      /\ \A d \in Streams : InPump(d)' = InPump(d)
      /\ InRedis' = InRedis
  BY <1>1 DEF pumpVars, InResponse, InChannel, InPump, InRedis, TypeOK
<1>5. TypeOK'
  BY <1>1, <1>2 DEF TypeOK, redisVars, pumpVars
<1>6. Registered'
  BY <1>1, <1>4 DEF Registered, ReadLocked, pumpVars
<1>7. NotNewer'
  BY <1>1, <1>2, <1>4 DEF NotNewer, redisVars, pumpVars
<1>8. InOrder'
  <2>1. Ascending(pending)'
    BY <1>1 DEF InOrder, Ascending
  <2>2. \A d \in Streams : Ascending(buffer[d])'
    BY <1>2, <1>4 DEF InOrder, Ascending
  <2>3. \A d \in Streams :
          /\ latest'[d] = latest[d]
          /\ (InResponse(d) \cup InChannel(d))' = InResponse(d) \cup InChannel(d)
          /\ InResponse(d)' \subseteq InResponse(d) \cup InChannel(d)
          /\ InChannel(d)' \subseteq InChannel(d)
    BY <1>1, <1>2, <1>3, <1>4
  <2>4. ASSUME NEW d \in Streams
        PROVE  Before({latest[d]}, InResponse(d))'
    BY <2>3 DEF InOrder, Before
  <2>5. ASSUME NEW d \in Streams
        PROVE  Before({latest[d]} \cup InResponse(d), InChannel(d))'
    <3>1. CASE d = c
      BY <1>2, <1>3, <2>3, <3>1 DEF InOrder, Before
    <3>2. CASE d # c
      BY <1>4, <2>3, <3>2 DEF InOrder
    <3> QED
      BY <3>1, <3>2
  <2>6. ASSUME NEW d \in Streams
        PROVE  /\ Before({latest[d]} \cup InResponse(d) \cup InChannel(d),
                         InPump(d))'
               /\ Before({latest[d]} \cup InResponse(d) \cup InChannel(d)
                           \cup InPump(d), InRedis)'
    BY <1>4, <2>3 DEF InOrder, Before
  <2> QED
    BY <2>1, <2>2, <2>4, <2>5, <2>6 DEF InOrder
<1> QED
  BY <1>5, <1>6, <1>7, <1>8

\* FlushMessage and HangUp empty the response; the rest stays.
LEMMA ResponseInv ==
  ASSUME BrokerInv, NEW c \in Streams, FlushMessage(c) \/ HangUp(c)
  PROVE  BrokerInv'
<1> USE DEF BrokerInv
<1>1. /\ spc[c] = "serving"
      /\ spc' = spc \/ spc' = [spc EXCEPT ![c] = "leaving"]
      /\ writing' = [writing EXCEPT ![c] = 0]
      /\ \A d \in Streams : d # c => latest'[d] = latest[d]
      /\ latest'[c] \in {latest[c]} \cup InResponse(c)
      /\ latest' \in [Streams -> 0..MaxEvents]
      /\ UNCHANGED <<redisVars, pending, pumpVars, clients, closed, buffer,
                     dropped>>
  BY DEF FlushMessage, HangUp, StreamGoes, TypeOK, InResponse
<1>2. InResponse(c)' = {}
  BY <1>1 DEF InResponse, TypeOK
<1>3. /\ \A d \in Streams : /\ d # c => InResponse(d)' = InResponse(d)
                            /\ InChannel(d)' = InChannel(d)
                            /\ InPump(d)' = InPump(d)
      /\ InRedis' = InRedis
  BY <1>1 DEF pumpVars, InResponse, InChannel, InPump, InRedis, TypeOK
<1>4. TypeOK'
  <2>1. /\ spc' \in [Streams -> {"new", "joining", "serving", "leaving",
                                 "closing", "done"}]
        /\ writing' \in [Streams -> 0..MaxEvents]
    BY <1>1 DEF TypeOK
  <2> QED
    BY <1>1, <2>1 DEF TypeOK, redisVars, pumpVars
<1>5. Registered'
  BY <1>1 DEF Registered, ReadLocked, pumpVars, TypeOK
<1>6. NotNewer'
  <2>1. \A d \in Streams : /\ InChannel(d)' = InChannel(d)
                           /\ writing'[d] \in {writing[d], 0}
                           /\ latest'[d] \in {latest[d], writing[d]}
    BY <1>1, <1>3 DEF TypeOK, InResponse
  <2>2. 0 <= published /\ published' = published /\ current' = current
    BY <1>1 DEF TypeOK, redisVars, pumpVars
  <2> QED
    BY <1>3, <2>1, <2>2 DEF NotNewer
<1>7. InOrder'
  <2>1. Ascending(pending)' /\ \A d \in Streams : Ascending(buffer[d])'
    BY <1>1 DEF InOrder, Ascending
  <2> QED
    BY <1>1, <1>2, <1>3, <2>1 DEF InOrder, Before
<1> QED
  BY <1>4, <1>5, <1>6, <1>7

\* The steps that move no event.
LEMMA QuietInv ==
  ASSUME BrokerInv,
         \/ ConnectionChanges \/ EndFanOut
         \/ \E c \in Streams : \/ Connect(c) \/ Register(c) \/ Deregister(c)
                               \/ CloseChannel(c)
         \/ UNCHANGED brokerVars
  PROVE  BrokerInv'
<1> USE DEF BrokerInv
<1>1. /\ UNCHANGED <<published, missed, pending, buffer, writing, latest,
                     dropped>>
      /\ connected' \in BOOLEAN
      /\ current' \in {current, 0}
      /\ fan' = fan
      /\ fan # {} => current' = current
  BY DEF ConnectionChanges, EndFanOut, Connect, Register, Deregister,
         CloseChannel, brokerVars, redisVars, pumpVars, streamVars, TypeOK
<1>2. /\ \A c \in Streams : /\ InResponse(c)' = InResponse(c)
                            /\ InChannel(c)' = InChannel(c)
                            /\ InPump(c)' = InPump(c)
      /\ InRedis' = InRedis
  BY <1>1 DEF InResponse, InChannel, InPump, InRedis
<1>3. TypeOK' /\ Registered'
  <2>1. CASE ConnectionChanges \/ EndFanOut \/ UNCHANGED brokerVars
    BY <1>1, <2>1 DEF TypeOK, Registered, ReadLocked, ConnectionChanges,
       EndFanOut, brokerVars, redisVars, pumpVars, streamVars
  <2>2. ASSUME NEW c \in Streams,
               Connect(c) \/ Register(c) \/ Deregister(c) \/ CloseChannel(c)
        PROVE  TypeOK' /\ Registered'
    <3>1. TypeOK'
      BY <1>1, <2>2 DEF TypeOK, Connect, Register, Deregister, CloseChannel,
         StreamGoes, redisVars, pumpVars
    <3>2. /\ fan' = fan /\ current' = current /\ writing' = writing
          /\ writing[c] = 0
      BY <2>2 DEF TypeOK, Registered, Connect, Register, Deregister,
         CloseChannel, pumpVars
    <3>3. /\ \A d \in Streams : d # c => spc'[d] = spc[d]
          /\ \A d \in Streams : d # c => (d \in clients' <=> d \in clients)
          /\ \A d \in Streams : d # c => (d \in closed' <=> d \in closed)
          /\ clients' \subseteq Streams /\ closed' \subseteq Streams
      BY <2>2 DEF TypeOK, Connect, Register, Deregister, CloseChannel,
         StreamGoes
    <3>4. /\ c \in clients' <=> spc'[c] \in {"serving", "leaving"}
          /\ c \in closed' <=> spc'[c] = "done"
      <4>1. /\ c \in clients <=> spc[c] \in {"serving", "leaving"}
            /\ c \in closed <=> spc[c] = "done"
        BY DEF Registered
      <4>2. CASE Connect(c)
        BY <4>1, <4>2 DEF TypeOK, Connect, StreamGoes
      <4>3. CASE Register(c)
        BY <4>1, <4>3 DEF TypeOK, Register, StreamGoes
      <4>4. CASE Deregister(c)
        BY <4>1, <4>4 DEF TypeOK, Deregister, StreamGoes
      <4>5. CASE CloseChannel(c)
        BY <4>1, <4>5 DEF TypeOK, CloseChannel, StreamGoes
      <4> QED
        BY <2>2, <4>2, <4>3, <4>4, <4>5
    <3>5. clients' = {d \in Streams : spc'[d] \in {"serving", "leaving"}}
      BY <3>3, <3>4 DEF Registered
    <3>6. closed' = {d \in Streams : spc'[d] = "done"}
      BY <3>3, <3>4 DEF Registered
    <3>7. fan \subseteq clients'
      BY <2>2 DEF Registered, ReadLocked, Connect, Register, Deregister,
         CloseChannel
    <3>8. Registered'
      BY <3>2, <3>3, <3>5, <3>6, <3>7 DEF Registered, ReadLocked
    <3> QED
      BY <3>1, <3>8
  <2> QED
    BY <2>1, <2>2
<1>4. NotNewer'
  BY <1>1, <1>2 DEF NotNewer, TypeOK
<1>5. InOrder'
  <2>1. Ascending(pending)' /\ \A d \in Streams : Ascending(buffer[d])'
    BY <1>1 DEF InOrder, Ascending
  <2> QED
    BY <1>1, <1>2, <2>1 DEF InOrder, Before
<1> QED
  BY <1>3, <1>4, <1>5

\* The inductive invariant of the broker holds in every reachable state.
THEOREM BrokerCorrect == Spec => []BrokerInv
<1>1. Init => BrokerInv
  BY InvInit
<1>2. BrokerInv /\ [Next]_brokerVars => BrokerInv'
  <2> SUFFICES ASSUME BrokerInv, [Next]_brokerVars
               PROVE  BrokerInv'
    OBVIOUS
  <2>1. CASE Publish
    BY <2>1, PublishInv
  <2>2. CASE TakeMessage
    BY <2>2, TakeMessageInv
  <2>3. CASE \E c \in Streams : Offer(c)
    BY <2>3, OfferInv
  <2>4. CASE \E c \in Streams : ReceiveMessage(c)
    BY <2>4, ReceiveMessageInv
  <2>5. CASE \E c \in Streams : FlushMessage(c) \/ HangUp(c)
    BY <2>5, ResponseInv
  <2>6. CASE \/ ConnectionChanges \/ EndFanOut
             \/ \E c \in Streams : \/ Connect(c) \/ Register(c)
                                   \/ Deregister(c) \/ CloseChannel(c)
             \/ UNCHANGED brokerVars
    BY <2>6, QuietInv
  <2> QED
    BY <2>1, <2>2, <2>3, <2>4, <2>5, <2>6
    DEF Next, PumpStep, StreamStep, LockStep
<1> QED
  BY <1>1, <1>2, PTL DEF Spec

\* The pump never sends on a closed channel.
THEOREM NoPanic == Spec => []NoSendOnClosed
<1>1. BrokerInv => NoSendOnClosed
  BY DEF BrokerInv, Registered, NoSendOnClosed
<1> QED
  BY <1>1, BrokerCorrect, PTL

\* Every client gets events in the order of publication, none twice.
THEOREM OrderCorrect == Spec => []InOrder
<1>1. BrokerInv => InOrder
  BY DEF BrokerInv
<1> QED
  BY <1>1, BrokerCorrect, PTL

----------------------------------------------------------------------------
\* The broker implements the event stream of EventStream.
THEOREM StreamRefined == Spec => ImplementsStream
<1>1. Init => Stream!Init
  BY DEF Init, Stream!Init, PhaseOf
<1>2. BrokerInv /\ [Next]_brokerVars => [Stream!Next]_(Stream!streamVars)
  <2> SUFFICES ASSUME BrokerInv, [Next]_brokerVars
               PROVE  Stream!Next \/ UNCHANGED Stream!streamVars
    OBVIOUS
  <2> USE DEF BrokerInv
  <2>1. CASE Publish
    BY <2>1 DEF Publish, streamVars, PhaseOf, Stream!Next, Stream!PublishNext
  <2>2. ASSUME NEW c \in Streams, Register(c)
        PROVE  Stream!Next
    <3>1. /\ UNCHANGED <<published, latest>>
          /\ spc[c] = "joining" /\ spc' = [spc EXCEPT ![c] = "serving"]
      BY <2>2 DEF Register, StreamGoes, redisVars
    <3>2. PhaseOf[c] = "new" /\ PhaseOf' = [PhaseOf EXCEPT ![c] = "open"]
      BY <3>1 DEF PhaseOf, TypeOK
    <3> QED
      BY <3>1, <3>2 DEF Stream!Next, Stream!Open
  <2>3. ASSUME NEW c \in Streams, HangUp(c)
        PROVE  Stream!Next
    <3>1. /\ UNCHANGED <<published, latest>>
          /\ spc[c] = "serving" /\ spc' = [spc EXCEPT ![c] = "leaving"]
      BY <2>3 DEF HangUp, StreamGoes, redisVars
    <3>2. PhaseOf[c] = "open" /\ PhaseOf' = [PhaseOf EXCEPT ![c] = "ended"]
      BY <3>1 DEF PhaseOf, TypeOK
    <3> QED
      BY <3>1, <3>2 DEF Stream!Next, Stream!End
  <2>4. ASSUME NEW c \in Streams, FlushMessage(c)
        PROVE  Stream!Next
    <3>1. /\ UNCHANGED <<published, spc>>
          /\ spc[c] = "serving" /\ writing[c] # 0
          /\ latest' = [latest EXCEPT ![c] = writing[c]]
      BY <2>4 DEF FlushMessage, redisVars
    <3>2. latest[c] < writing[c] /\ writing[c] \in 1..published
      BY <3>1 DEF InOrder, Before, InResponse, NotNewer, TypeOK
    <3>3. PhaseOf[c] = "open" /\ PhaseOf' = PhaseOf
      BY <3>1 DEF PhaseOf
    <3> QED
      BY <3>1, <3>2, <3>3 DEF Stream!Next, Stream!Deliver
  <2>5. ASSUME NEW c \in Streams,
               \/ Connect(c) \/ Deregister(c) \/ CloseChannel(c)
        PROVE  UNCHANGED Stream!streamVars
    <3>1. /\ UNCHANGED <<published, latest>>
          /\ \E pc \in {"joining", "closing", "done"} :
               /\ spc' = [spc EXCEPT ![c] = pc]
               /\ pc = "joining" <=> spc[c] = "new"
               /\ pc # "joining" => spc[c] \in {"leaving", "closing"}
      BY <2>5 DEF Connect, Deregister, CloseChannel, StreamGoes, redisVars
    <3>2. PhaseOf' = PhaseOf
      BY <3>1 DEF PhaseOf, TypeOK
    <3> QED
      BY <3>1, <3>2 DEF Stream!streamVars
  <2>6. CASE \/ ConnectionChanges \/ TakeMessage \/ EndFanOut
             \/ \E c \in Streams : Offer(c) \/ ReceiveMessage(c)
             \/ UNCHANGED brokerVars
    <3>1. UNCHANGED <<published, latest, spc>>
      BY <2>6 DEF ConnectionChanges, TakeMessage, EndFanOut, Offer,
         ReceiveMessage, brokerVars, redisVars, streamVars
    <3> QED
      BY <3>1 DEF Stream!streamVars, PhaseOf
  <2> QED
    BY <2>1, <2>2, <2>3, <2>4, <2>5, <2>6
    DEF Next, PumpStep, StreamStep, LockStep
<1> QED
  BY <1>1, <1>2, BrokerCorrect, PTL DEF Spec, ImplementsStream, Stream!Spec

----------------------------------------------------------------------------
(***************************************************************************)
(* Nothing gets lost on the way.                                           *)
(***************************************************************************)
\* Every event after e, up to the last one published, is in S.
Covered(e, S, last) == \A n \in Events : e < n /\ n <= last => n \in S

\* What is on its way to stream c, or will never be and is known to be lost.
OnTheWay(c) == InResponse(c) \cup InChannel(c) \cup InPump(c) \cup InRedis
                 \cup dropped[c] \cup missed

\* The events stream c has got so far, one by one: the last one written, and
\* those offered since.
Got(c) == ({latest[c]} \ {0}) \cup InResponse(c) \cup InChannel(c) \cup InPump(c)

\* The strengthening: what follows any event in the bridge is still behind it.
\* A stream that has not joined has got nothing.
BehindPump ==
  \A e \in ({current} \ {0}) \cup InRedis :
    Covered(e, InRedis \cup missed, published)

BehindStream ==
  \A c \in Streams : spc[c] = "serving" =>
    \A e \in Got(c) : Covered(e, OnTheWay(c), published)

FreshStream ==
  \A c \in Streams : spc[c] \in {"new", "joining"} =>
    latest[c] = 0 /\ InChannel(c) = {}

LossInv == BehindPump /\ BehindStream /\ FreshStream

\* The stages hold integers, so that they can be compared.
LEMMA Numbers ==
  ASSUME TypeOK
  PROVE  /\ published \in Int /\ current \in Int /\ Events \subseteq Int
         /\ InRedis \subseteq Int
         /\ \A c \in Streams : Got(c) \subseteq Int
BY Stages DEF TypeOK, Got, Events

\* More events may be there, and the one published next.
LEMMA CoveredGrows ==
  ASSUME NEW e, NEW S, NEW T, NEW last \in Int, Covered(e, S, last)
  PROVE  /\ S \subseteq T => Covered(e, T, last)
         /\ S \cup {last + 1} \subseteq T => Covered(e, T, last + 1)
<1>1. \A n \in Events : n \in Int
  BY DEF Events
<1>2. \A n \in Events : n <= last + 1 => n <= last \/ n = last + 1
  BY <1>1
<1> QED
  BY <1>2 DEF Covered

\* A new event goes to the end of the queue, or is missed.
LEMMA PublishLoss ==
  ASSUME BrokerInv, LossInv, Publish
  PROVE  LossInv'
<1> USE DEF BrokerInv
<1>1. /\ published' = published + 1
      /\ published \in Int
      /\ UNCHANGED <<current, fan, spc, writing, latest, buffer, dropped>>
  BY Numbers DEF Publish, pumpVars, streamVars
<1>2. /\ InRedis \cup missed \cup {published'} \subseteq InRedis' \cup missed'
      /\ InRedis' \subseteq InRedis \cup {published'}
  <2>1. pending \in Seq(Events) /\ published' \in Events
    BY DEF Publish, TypeOK, Events
  <2>2. Elems(Append(pending, published')) = Elems(pending) \cup {published'}
    BY <2>1, AppendElems
  <2> QED
    BY <2>2 DEF Publish, InRedis
<1>3. \A c \in Streams : /\ InResponse(c)' = InResponse(c)
                         /\ InChannel(c)' = InChannel(c)
                         /\ InPump(c)' = InPump(c)
  BY <1>1 DEF InResponse, InChannel, InPump
<1>4. BehindPump'
  <2>1. ASSUME NEW e \in ({current} \ {0}) \cup InRedis
        PROVE  Covered(e, InRedis' \cup missed', published')
    BY <1>1, <1>2, CoveredGrows DEF LossInv, BehindPump
  <2>2. Covered(published', InRedis' \cup missed', published')
    BY <1>1 DEF Covered, Events
  <2>3. (({current} \ {0}) \cup InRedis)'
          \subseteq ({current} \ {0}) \cup InRedis \cup {published'}
    BY <1>1, <1>2
  <2> QED
    BY <2>1, <2>2, <2>3 DEF BehindPump
<1>5. BehindStream'
  <2>1. ASSUME NEW c \in Streams, spc[c] = "serving", NEW e \in Got(c)
        PROVE  Covered(e, OnTheWay(c)', published')
    <3>1. OnTheWay(c) \cup {published'} \subseteq OnTheWay(c)'
      BY <1>1, <1>2, <1>3 DEF OnTheWay
    <3> QED
      BY <1>1, <2>1, <3>1, CoveredGrows DEF LossInv, BehindStream
  <2>2. \A c \in Streams : Got(c)' = Got(c) /\ spc'[c] = spc[c]
    BY <1>1, <1>3 DEF Got
  <2> QED
    BY <2>1, <2>2 DEF BehindStream
<1>6. FreshStream'
  BY <1>1, <1>3 DEF LossInv, FreshStream
<1> QED
  BY <1>4, <1>5, <1>6 DEF LossInv

\* The message the pump takes goes to every stream that is served.
LEMMA TakeMessageLoss ==
  ASSUME BrokerInv, LossInv, TakeMessage
  PROVE  LossInv'
<1> USE DEF BrokerInv
<1>1. /\ current = 0 /\ fan = {} /\ fan' = clients
      /\ pending \in Seq(Events) /\ pending # <<>>
      /\ current' = Head(pending) /\ pending' = Tail(pending)
      /\ UNCHANGED <<published, missed, spc, writing, latest, buffer, dropped>>
  BY DEF TakeMessage, ReadLocked, Registered, TypeOK, redisVars, streamVars
<1>2. /\ InRedis = {current'} \cup InRedis'
      /\ \A e \in InRedis' : current' < e
      /\ current' \in Events
  <2>1. Ascending(pending)
    BY DEF InOrder
  <2> QED
    BY <1>1, <2>1, TailElems DEF InRedis, Before
<1>3. \A c \in Streams : /\ InResponse(c)' = InResponse(c)
                         /\ InChannel(c)' = InChannel(c)
                         /\ InPump(c) = {}
                         /\ spc[c] = "serving" => InPump(c)' = {current'}
  BY <1>1 DEF InResponse, InChannel, InPump, Registered
<1>4. BehindPump'
  <2>1. ASSUME NEW e \in {current'} \cup InRedis'
        PROVE  Covered(e, InRedis' \cup missed', published')
    <3>1. Covered(e, InRedis \cup missed, published)
      BY <1>2, <2>1 DEF LossInv, BehindPump, TypeOK, Events
    <3>2. ~(e < current') /\ missed' = missed /\ published' = published
      BY <1>1, <1>2, <2>1, Numbers DEF Events
    <3> QED
      BY <1>2, <3>1, <3>2 DEF Covered
  <2> QED
    BY <2>1 DEF BehindPump
<1>5. BehindStream'
  <2>1. ASSUME NEW c \in Streams, spc[c] = "serving", NEW e \in Got(c)'
        PROVE  Covered(e, OnTheWay(c)', published')
    <3>1. OnTheWay(c)' = OnTheWay(c) /\ published' = published /\ published \in Int
      BY <1>1, <1>2, <1>3, <2>1, Numbers DEF OnTheWay
    <3>2. CASE e \in Got(c)
      BY <2>1, <3>1, <3>2 DEF LossInv, BehindStream
    <3>3. CASE e = current'
      <4>1. Covered(e, InRedis \cup missed, published)
        BY <1>2, <3>3 DEF LossInv, BehindPump
      <4>2. InRedis \cup missed \subseteq OnTheWay(c)
        BY DEF OnTheWay
      <4> QED
        BY <3>1, <4>1, <4>2, CoveredGrows
    <3> QED
      BY <1>1, <1>3, <2>1, <3>2, <3>3 DEF Got
  <2> QED
    BY <1>1, <2>1 DEF BehindStream
<1>6. FreshStream'
  BY <1>1, <1>3 DEF LossInv, FreshStream
<1> QED
  BY <1>4, <1>5, <1>6 DEF LossInv

\* The other steps move an event from a place to the next one, throw it away
\* and say so, or write it; Redis and what was missed stay as they are.
LEMMA MoveLoss ==
  ASSUME BrokerInv, LossInv, UNCHANGED <<published, pending, missed>>,
         current' \in {current, 0},
         \A c \in Streams :
           /\ spc'[c] = "serving" => spc[c] \in {"serving", "joining"}
           /\ spc[c] = "serving" /\ spc'[c] = "serving" =>
                /\ Got(c)' \subseteq Got(c)
                /\ OnTheWay(c) \subseteq OnTheWay(c)' \cup {latest'[c]}
                /\ \A e \in Got(c)' : latest'[c] <= e
           /\ spc[c] = "joining" /\ spc'[c] = "serving" => Got(c)' = {}
           /\ spc'[c] \in {"new", "joining"} => /\ spc[c] \in {"new", "joining"}
                                                /\ latest'[c] = latest[c]
                                                /\ InChannel(c)' = InChannel(c)
  PROVE  LossInv'
<1> USE DEF BrokerInv
<1>1. BehindPump'
  BY DEF LossInv, BehindPump, InRedis
<1>2. FreshStream'
  BY DEF LossInv, FreshStream
<1>3. BehindStream'
  <2>1. ASSUME NEW c \in Streams, spc'[c] = "serving", NEW e \in Got(c)'
        PROVE  Covered(e, OnTheWay(c)', published)
    <3>1. spc[c] = "serving"
      BY <2>1
    <3>2. Covered(e, OnTheWay(c), published) /\ e \in Int /\ latest'[c] <= e
      BY <2>1, <3>1, Numbers DEF LossInv, BehindStream
    <3>3. OnTheWay(c) \subseteq OnTheWay(c)' \cup {latest'[c]}
      BY <2>1, <3>1
    <3>4. \A n \in Events : e < n => n # latest'[c]
      BY <3>2, Numbers
    <3> QED
      BY <3>2, <3>3, <3>4 DEF Covered
  <2> QED
    BY <2>1 DEF BehindStream
<1> QED
  BY <1>1, <1>2, <1>3 DEF LossInv

\* The last event written is the oldest of those a stream has got.
LEMMA LatestIsOldest ==
  ASSUME BrokerInv', NEW c \in Streams
  PROVE  \A e \in Got(c)' : latest'[c] <= e
<1>1. latest'[c] \in Int /\ latest'[c] <= latest'[c]
  BY DEF BrokerInv, TypeOK
<1>2. \A e \in (InResponse(c) \cup InChannel(c) \cup InPump(c))' :
        e \in Int /\ latest'[c] < e
  <2>1. \A e \in (InResponse(c) \cup InChannel(c) \cup InPump(c))' : latest'[c] < e
    BY DEF BrokerInv, InOrder, Before
  <2>2. /\ InChannel(c)' \subseteq Int
        /\ InResponse(c)' \subseteq Int
        /\ InPump(c)' \subseteq Int
    BY DEF BrokerInv, TypeOK, Events, InResponse, InChannel, InPump, Elems
  <2> QED
    BY <2>1, <2>2
<1> QED
  BY <1>1, <1>2 DEF Got

\* A round of the pump's loop.
LEMMA OfferLoss ==
  ASSUME BrokerInv, BrokerInv', LossInv, NEW c \in Streams, Offer(c)
  PROVE  LossInv'
<1>1. /\ c \in fan /\ fan' = fan \ {c}
      /\ UNCHANGED <<published, pending, missed, current, spc, writing, latest>>
      /\ current \in Events
      /\ spc[c] \in {"serving", "leaving"}
      /\ buffer[c] \in Seq(Events)
  BY DEF Offer, BrokerInv, Registered, ReadLocked, TypeOK, Events, redisVars,
         streamVars
<1>2. /\ \A d \in Streams \ {c} : buffer'[d] = buffer[d] /\ dropped'[d] = dropped[d]
      /\ \/ InChannel(c)' = InChannel(c) \cup {current} /\ dropped'[c] = dropped[c]
         \/ InChannel(c)' = InChannel(c) /\ dropped'[c] = dropped[c] \cup {current}
  <2>1. Elems(Append(buffer[c], current)) = Elems(buffer[c]) \cup {current}
    BY <1>1, AppendElems
  <2> QED
    BY <2>1 DEF Offer, InChannel, BrokerInv, TypeOK
<1>3. /\ \A d \in Streams \ {c} : /\ InChannel(d)' = InChannel(d)
                                  /\ InPump(d)' = InPump(d)
      /\ \A d \in Streams : InResponse(d)' = InResponse(d)
      /\ InPump(c) = {current} /\ InPump(c)' = {}
      /\ InRedis' = InRedis
  BY <1>1, <1>2 DEF InChannel, InPump, InResponse, InRedis
<1>4. \A d \in Streams : Got(d)' \subseteq Got(d) /\ OnTheWay(d) \subseteq OnTheWay(d)'
  BY <1>1, <1>2, <1>3 DEF Got, OnTheWay
<1>5. \A d \in Streams : spc'[d] \in {"new", "joining"} => InChannel(d)' = InChannel(d)
  BY <1>1, <1>3
<1> QED
  BY <1>1, <1>4, <1>5, LatestIsOldest, MoveLoss

\* A stream that receives, writes or ends.
LEMMA ServeLoss ==
  ASSUME BrokerInv, BrokerInv', LossInv, NEW c \in Streams,
         ReceiveMessage(c) \/ FlushMessage(c) \/ HangUp(c)
  PROVE  LossInv'
<1>1. /\ UNCHANGED <<published, pending, missed, current, fan, dropped>>
      /\ spc[c] = "serving"
      /\ spc'[c] \notin {"new", "joining"}
      /\ \A d \in Streams \ {c} : /\ spc'[d] = spc[d] /\ latest'[d] = latest[d]
                                  /\ writing'[d] = writing[d]
                                  /\ buffer'[d] = buffer[d]
  BY DEF ReceiveMessage, FlushMessage, HangUp, StreamGoes, BrokerInv, TypeOK,
         redisVars, pumpVars
<1>2. InRedis' = InRedis /\ \A d \in Streams : InPump(d)' = InPump(d)
  BY <1>1 DEF InRedis, InPump
<1>3. \A d \in Streams \ {c} : /\ Got(d)' = Got(d)
                               /\ OnTheWay(d)' = OnTheWay(d)
                               /\ InChannel(d)' = InChannel(d)
  BY <1>1, <1>2 DEF Got, OnTheWay, InResponse, InChannel
<1>4. CASE ReceiveMessage(c)
  <2>1. /\ writing[c] = 0 /\ spc'[c] = spc[c] /\ latest'[c] = latest[c]
        /\ buffer[c] \in Seq(Events) /\ buffer[c] # <<>>
        /\ writing'[c] = Head(buffer[c])
        /\ buffer'[c] = Tail(buffer[c])
    BY <1>4 DEF ReceiveMessage, BrokerInv, TypeOK
  <2>2. /\ InChannel(c) = {writing'[c]} \cup InChannel(c)'
        /\ writing'[c] # 0
    <3>1. /\ Head(buffer[c]) \in Events
          /\ Elems(buffer[c]) = {Head(buffer[c])} \cup Elems(Tail(buffer[c]))
      BY <2>1, TailElems
    <3>2. writing'[c] \in 1..MaxEvents
      BY <2>1, <3>1 DEF Events
    <3> QED
      BY <2>1, <3>1, <3>2 DEF InChannel
  <2>3. InResponse(c) = {} /\ InResponse(c)' = {writing'[c]}
    BY <2>1, <2>2 DEF InResponse
  <2>4. Got(c)' \subseteq Got(c) /\ OnTheWay(c) \subseteq OnTheWay(c)'
    BY <1>1, <1>2, <2>1, <2>2, <2>3 DEF Got, OnTheWay
  <2> QED
    BY <1>1, <1>3, <2>1, <2>4, LatestIsOldest, MoveLoss
<1>5. CASE FlushMessage(c)
  <2>1. /\ writing[c] # 0 /\ spc'[c] = spc[c] /\ latest'[c] = writing[c]
        /\ writing'[c] = 0 /\ buffer'[c] = buffer[c]
    BY <1>5 DEF FlushMessage, BrokerInv, TypeOK
  <2>2. /\ InResponse(c) = {latest'[c]} /\ InResponse(c)' = {}
        /\ InChannel(c)' = InChannel(c)
    BY <2>1 DEF InResponse, InChannel
  <2>3. Got(c)' \subseteq Got(c) /\ OnTheWay(c) \subseteq OnTheWay(c)' \cup {latest'[c]}
    BY <1>1, <1>2, <2>2 DEF Got, OnTheWay
  <2> QED
    BY <1>1, <1>3, <2>1, <2>3, LatestIsOldest, MoveLoss
<1>6. CASE HangUp(c)
  <2>1. spc'[c] = "leaving"
    BY <1>6 DEF HangUp, StreamGoes, BrokerInv, TypeOK
  <2> QED
    BY <1>1, <1>3, <2>1, LatestIsOldest, MoveLoss
<1> QED
  BY <1>4, <1>5, <1>6

\* The steps that move no event.
LEMMA QuietLoss ==
  ASSUME BrokerInv, BrokerInv', LossInv,
         \/ ConnectionChanges \/ EndFanOut
         \/ \E c \in Streams : \/ Connect(c) \/ Register(c) \/ Deregister(c)
                               \/ CloseChannel(c)
         \/ UNCHANGED brokerVars
  PROVE  LossInv'
<1>1. /\ UNCHANGED <<published, missed, pending, buffer, writing, latest,
                     dropped>>
      /\ current' \in {current, 0}
      /\ fan' = fan
      /\ fan # {} => current' = current
  BY DEF ConnectionChanges, EndFanOut, Connect, Register, Deregister,
         CloseChannel, brokerVars, redisVars, pumpVars, streamVars
<1>2. \A c \in Streams : /\ Got(c)' = Got(c) /\ OnTheWay(c)' = OnTheWay(c)
                         /\ InChannel(c)' = InChannel(c)
  BY <1>1 DEF Got, OnTheWay, InResponse, InChannel, InPump, InRedis
<1>3. \A c \in Streams :
        /\ spc'[c] = "serving" => spc[c] \in {"serving", "joining"}
        /\ spc'[c] \in {"new", "joining"} => spc[c] \in {"new", "joining"}
        /\ spc[c] = "joining" /\ spc'[c] = "serving" => ~ReadLocked
  BY DEF ConnectionChanges, EndFanOut, Connect, Register, Deregister,
         CloseChannel, StreamGoes, brokerVars, streamVars, BrokerInv, TypeOK
<1>4. ASSUME NEW c \in Streams, spc[c] = "joining", ~ReadLocked
      PROVE  Got(c) = {}
  <2>1. latest[c] = 0 /\ InChannel(c) = {}
    BY <1>4 DEF LossInv, FreshStream
  <2>2. InPump(c) = {} /\ InResponse(c) = {}
    BY <1>4 DEF BrokerInv, Registered, InPump, InResponse
  <2> QED
    BY <2>1, <2>2 DEF Got
<1> QED
  BY <1>1, <1>2, <1>3, <1>4, LatestIsOldest, MoveLoss

\* The inductive invariant about losses.
LEMMA LossCorrect == Spec => []LossInv
<1>1. Init => LossInv
  BY DEF Init, LossInv, BehindPump, BehindStream, FreshStream, InRedis,
         InChannel, Elems
<1>2. BrokerInv /\ BrokerInv' /\ LossInv /\ [Next]_brokerVars => LossInv'
  BY PublishLoss, TakeMessageLoss, OfferLoss, ServeLoss, QuietLoss
     DEF Next, PumpStep, StreamStep, LockStep
<1> QED
  BY <1>1, <1>2, BrokerCorrect, PTL DEF Spec

\* Once a stream has written an event, every later one is on its way to it, or
\* was thrown away because its channel was full, or was published while Redis
\* was out of reach: registering, leaving and the select of ServeHTTP lose none.
THEOREM AccountedCorrect == Spec => []Accounted
<1>1. BrokerInv /\ LossInv => Accounted
  <2> SUFFICES ASSUME BrokerInv, LossInv, NEW c \in Streams,
                      spc[c] = "serving", latest[c] # 0,
                      NEW n \in (latest[c] + 1)..published
               PROVE  n \in OnTheWay(c)
    BY DEF Accounted, OnTheWay
  <2>1. Covered(latest[c], OnTheWay(c), published)
    BY DEF LossInv, BehindStream, Got
  <2>2. n \in Events /\ latest[c] < n /\ n <= published
    BY DEF BrokerInv, TypeOK, Events
  <2> QED
    BY <2>1, <2>2 DEF Covered
<1> QED
  BY <1>1, BrokerCorrect, LossCorrect, PTL
=============================================================================
