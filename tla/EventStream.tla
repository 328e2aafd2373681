---------------------------- MODULE EventStream ----------------------------
(***************************************************************************)
(* What the realtime bridge promises a dashboard that holds a stream open: *)
(* events that were really published, each at most once, in the order of   *)
(* publication, and nothing before the stream is open or after it ended.   *)
(* It does not promise that every event arrives.  Events are numbered as   *)
(* they are published.                                                     *)
(***************************************************************************)
EXTENDS Integers

CONSTANTS
  Streams  \* requests to GET /api/events

VARIABLES
  published,  \* how many events have been published
  latest,     \* the last event each stream delivered, 0 if none
  phase       \* "new", "open" or "ended"

streamVars == <<published, latest, phase>>

Init ==
  /\ published = 0
  /\ latest = [c \in Streams |-> 0]
  /\ phase = [c \in Streams |-> "new"]

PublishNext ==
  /\ published' = published + 1
  /\ UNCHANGED <<latest, phase>>

Open(c) ==
  /\ phase[c] = "new"
  /\ phase' = [phase EXCEPT ![c] = "open"]
  /\ UNCHANGED <<published, latest>>

Deliver(c, e) ==
  /\ phase[c] = "open"
  /\ latest[c] < e
  /\ latest' = [latest EXCEPT ![c] = e]
  /\ UNCHANGED <<published, phase>>

End(c) ==
  /\ phase[c] = "open"
  /\ phase' = [phase EXCEPT ![c] = "ended"]
  /\ UNCHANGED <<published, latest>>

Next ==
  \/ PublishNext
  \/ \E c \in Streams : Open(c) \/ End(c) \/ \E e \in 1..published : Deliver(c, e)

Spec == Init /\ [][Next]_streamVars
=============================================================================
