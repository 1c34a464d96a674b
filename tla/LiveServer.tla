------------------------------ MODULE LiveServer ------------------------------
(***************************************************************************)
(* One connection of the live channel, server side                         *)
(* (internal/handler/data_handler_v3.go, LiveWSV3): the reader goroutine   *)
(* handles subscribe and unsubscribe messages, the handler's own goroutine *)
(* streams the subscribed topics on every tick.  Both run                  *)
(* streamTopicSnapshot, which reads a payload, marks it under stateMu and  *)
(* sends it under writeMu: three steps between which the other goroutine,  *)
(* the data and the connection may change.                                 *)
(*                                                                         *)
(* The payload of a topic is a version of its data: two payloads have one  *)
(* hash exactly when they are one version (stableTopicHash leaves out what *)
(* only the clock changes).  A version may come back.  The order in which  *)
(* a goroutine goes through its list of topics is left open.               *)
(***************************************************************************)
EXTENDS Naturals, Sequences, SequencesExt

CONSTANTS
  Topic,       \* the supported topics: "overview", "session:<id>", ...
  Version,     \* the payloads a topic can have
  NoHash,      \* hashByTopic has no entry
  NoTopic,     \* a goroutine is not inside streamTopicSnapshot
  MaxChanges,  \* bound: changes of data in one behaviour
  MaxRequests  \* bound: messages of the client in one behaviour

ASSUME VersionsAssumption == NoHash \notin Version
ASSUME TopicsAssumption == NoTopic \notin Topic
ASSUME MaxAssumption == MaxChanges \in Nat /\ MaxRequests \in Nat

VARIABLES
  data,         \* data[t]: what v3TopicSnapshot would return now
  changes,      \* changes of data so far
  inbox,        \* client messages on the wire
  requests,     \* client messages so far
  topics,       \* v3LiveConn.topics
  hashByTopic,  \* v3LiveConn.hashByTopic
  seqByTopic,   \* v3LiveConn.seqByTopic
  pc,           \* of each goroutine: "idle", "stream", "built", "marked", "returned"
  todo,         \* topics the goroutine's loop has still to stream
  topic,        \* the topic it streams
  payload,      \* the payload it has read
  seq,          \* the sequence number markSnapshot gave it
  sent,         \* sent[t]: the events of t that were written, in order
  stray,        \* ghost: events of t written since t was unsubscribed
  writable,     \* no write failed or was in vain; gorilla's write errors are permanent
  up            \* the client is there

feed   == <<data, changes>>
client == <<inbox, requests>>
marks  == <<hashByTopic, seqByTopic>>
jobs   == <<pc, todo, topic, payload, seq>>
wire   == <<sent, stray, writable, up>>
vars   == <<feed, client, topics, marks, jobs, wire>>

Goroutine == {"reader", "ticker"}
PC == {"idle", "stream", "built", "marked", "returned"}
Request == [op : {"subscribe", "unsubscribe"}, list : SUBSET Topic]
LiveEvent == [seq : Nat, ver : Version]

Init ==
  /\ data \in [Topic -> Version]
  /\ changes = 0
  /\ inbox = <<>>
  /\ requests = 0
  /\ topics = {}
  /\ hashByTopic = [t \in Topic |-> NoHash]
  /\ seqByTopic = [t \in Topic |-> 0]
  /\ pc = [g \in Goroutine |-> "idle"]
  /\ todo = [g \in Goroutine |-> {}]
  /\ topic = [g \in Goroutine |-> NoTopic]
  /\ payload = [g \in Goroutine |-> NoHash]
  /\ seq = [g \in Goroutine |-> 0]
  /\ sent = [t \in Topic |-> <<>>]
  /\ stray = [t \in Topic |-> 0]
  /\ writable = TRUE
  /\ up = TRUE

-----------------------------------------------------------------------------
(* The indexers and the client. *)

Change(t) ==
  /\ changes < MaxChanges
  /\ changes' = changes + 1
  /\ \E v \in Version \ {data[t]} : data' = [data EXCEPT ![t] = v]
  /\ UNCHANGED <<client, topics, marks, jobs, wire>>

(* send of LiveProvider.tsx: all topics after the socket opens, one topic
   when a component mounts or unmounts. *)
Ask(op, list) ==
  /\ up /\ requests < MaxRequests
  /\ requests' = requests + 1
  /\ inbox' = Append(inbox, [op |-> op, list |-> list])
  /\ UNCHANGED <<feed, topics, marks, jobs, wire>>

Disconnect ==
  /\ up
  /\ up' = FALSE
  /\ UNCHANGED <<feed, client, topics, marks, jobs, sent, stray, writable>>

-----------------------------------------------------------------------------
(* The reader goroutine's loop over ReadJSON. *)

Receive(op) ==
  /\ pc["reader"] = "idle" /\ inbox # <<>> /\ Head(inbox).op = op
  /\ inbox' = Tail(inbox)
  /\ UNCHANGED <<feed, requests, topic, payload, seq, sent, writable, up>>

(* Faulty variant, for a mutant: subscribing starts its topics afresh. *)
SubscribeAfresh ==
  /\ Receive("subscribe")
  /\ topics' = topics \cup Head(inbox).list
  /\ hashByTopic' = [t \in Topic |->
                       IF t \in Head(inbox).list THEN NoHash ELSE hashByTopic[t]]
  /\ seqByTopic' = [t \in Topic |->
                      IF t \in Head(inbox).list THEN 0 ELSE seqByTopic[t]]
  /\ todo' = [todo EXCEPT !["reader"] = Head(inbox).list]
  /\ pc' = [pc EXCEPT !["reader"] = "stream"]
  /\ UNCHANGED stray

(* v3LiveConn.subscribe, then the loop over the message's topics. *)
Subscribe ==
  /\ Receive("subscribe")
  /\ topics' = topics \cup Head(inbox).list
  /\ stray' = [t \in Topic |-> IF t \in Head(inbox).list THEN 0 ELSE stray[t]]
  /\ todo' = [todo EXCEPT !["reader"] = Head(inbox).list]
  /\ pc' = [pc EXCEPT !["reader"] = "stream"]
  /\ UNCHANGED marks

Unsubscribe ==
  /\ Receive("unsubscribe")
  /\ topics' = topics \ Head(inbox).list
  /\ UNCHANGED <<marks, todo, pc, stray>>

(* ReadJSON fails once the connection is gone, and done is closed; what the
   client had sent may or may not have been read before. *)
ReaderReturn ==
  /\ pc["reader"] = "idle" /\ ~up
  /\ pc' = [pc EXCEPT !["reader"] = "returned"]
  /\ UNCHANGED <<feed, client, topics, marks, todo, topic, payload, seq, wire>>

-----------------------------------------------------------------------------
(* The handler's select loop. *)

(* Faulty variant, for a mutant: only topics never streamed are listed. *)
TickUnmarked ==
  /\ pc["ticker"] = "idle" /\ topics # {}
  /\ todo' = [todo EXCEPT !["ticker"] = {t \in topics : hashByTopic[t] = NoHash}]
  /\ pc' = [pc EXCEPT !["ticker"] = "stream"]
  /\ UNCHANGED <<feed, client, topics, marks, topic, payload, seq, wire>>

(* Faulty variant: a topic that was streamed once is listed for ever. *)
TickMarked ==
  /\ pc["ticker"] = "idle"
  /\ todo' = [todo EXCEPT !["ticker"] =
                topics \cup {t \in Topic : hashByTopic[t] # NoHash}]
  /\ pc' = [pc EXCEPT !["ticker"] = "stream"]
  /\ UNCHANGED <<feed, client, topics, marks, topic, payload, seq, wire>>

(* A tick: the topics are listed once, then streamed one by one. *)
Tick ==
  /\ pc["ticker"] = "idle" /\ topics # {}
  /\ todo' = [todo EXCEPT !["ticker"] = topics]
  /\ pc' = [pc EXCEPT !["ticker"] = "stream"]
  /\ UNCHANGED <<feed, client, topics, marks, topic, payload, seq, wire>>

(* A message other than an event (ready, heartbeat, error) cannot be written
   within its deadline; gorilla then fails every later write. *)
OtherWriteFails ==
  /\ pc["ticker"] # "returned" /\ writable
  /\ writable' = FALSE
  /\ UNCHANGED <<feed, client, topics, marks, jobs, sent, stray, up>>

TickerReturn ==
  /\ pc["ticker"] = "idle" /\ pc["reader"] = "returned"
  /\ pc' = [pc EXCEPT !["ticker"] = "returned"]
  /\ UNCHANGED <<feed, client, topics, marks, todo, topic, payload, seq, wire>>

-----------------------------------------------------------------------------
(* streamTopicSnapshot, run by either goroutine for each topic of its list. *)

Build(g, t) ==
  /\ pc[g] = "stream" /\ t \in todo[g]
  /\ pc' = [pc EXCEPT ![g] = "built"]
  /\ topic' = [topic EXCEPT ![g] = t]
  /\ payload' = [payload EXCEPT ![g] = data[t]]
  /\ todo' = [todo EXCEPT ![g] = @ \ {t}]
  /\ UNCHANGED <<feed, client, topics, marks, seq, wire>>

(* A query fails, or the topic is not supported: an error is sent. *)
SnapshotFails(g, t) ==
  /\ pc[g] = "stream" /\ t \in todo[g]
  /\ todo' = [todo EXCEPT ![g] = @ \ {t}]
  /\ UNCHANGED <<feed, client, topics, marks, pc, topic, payload, seq, wire>>

(* On to the next topic of the list. *)
Leave(g) ==
  /\ pc' = [pc EXCEPT ![g] = "stream"]
  /\ topic' = [topic EXCEPT ![g] = NoTopic]
  /\ payload' = [payload EXCEPT ![g] = NoHash]
  /\ seq' = [seq EXCEPT ![g] = 0]

(* markSnapshot, when the hash is the one recorded. *)
Unchanged(g) ==
  /\ pc[g] = "built" /\ hashByTopic[topic[g]] = payload[g]
  /\ Leave(g)
  /\ UNCHANGED <<feed, client, topics, marks, todo, wire>>

(* Faulty variant: markSnapshot does not record the hash. *)
MarkForgetting(g) ==
  /\ pc[g] = "built" /\ hashByTopic[topic[g]] # payload[g]
  /\ seqByTopic' = [seqByTopic EXCEPT ![topic[g]] = @ + 1]
  /\ seq' = [seq EXCEPT ![g] = seqByTopic[topic[g]] + 1]
  /\ pc' = [pc EXCEPT ![g] = "marked"]
  /\ UNCHANGED <<feed, client, topics, hashByTopic, todo, topic, payload, wire>>

(* Faulty variant: the sequence number is returned before it is raised. *)
MarkPostfix(g) ==
  /\ pc[g] = "built" /\ hashByTopic[topic[g]] # payload[g]
  /\ hashByTopic' = [hashByTopic EXCEPT ![topic[g]] = payload[g]]
  /\ seqByTopic' = [seqByTopic EXCEPT ![topic[g]] = @ + 1]
  /\ seq' = [seq EXCEPT ![g] = seqByTopic[topic[g]]]
  /\ pc' = [pc EXCEPT ![g] = "marked"]
  /\ UNCHANGED <<feed, client, topics, todo, topic, payload, wire>>

(* markSnapshot, when it is new: hash and sequence number in one critical
   section. *)
Mark(g) ==
  /\ pc[g] = "built" /\ hashByTopic[topic[g]] # payload[g]
  /\ hashByTopic' = [hashByTopic EXCEPT ![topic[g]] = payload[g]]
  /\ seqByTopic' = [seqByTopic EXCEPT ![topic[g]] = @ + 1]
  /\ seq' = [seq EXCEPT ![g] = seqByTopic[topic[g]] + 1]
  /\ pc' = [pc EXCEPT ![g] = "marked"]
  /\ UNCHANGED <<feed, client, topics, todo, topic, payload, wire>>

Held(g) == [seq |-> seq[g], ver |-> payload[g]]

(* Faulty variant: the ticker gives up when it would have to wait for
   writeMu, which the reader holds. *)
SendOrSkip(g) ==
  /\ pc[g] = "marked" /\ writable /\ up
  /\ sent' = IF g = "ticker" /\ pc["reader"] = "marked" THEN sent
             ELSE [sent EXCEPT ![topic[g]] = Append(@, Held(g))]
  /\ UNCHANGED stray
  /\ Leave(g)
  /\ UNCHANGED <<feed, client, topics, marks, todo, writable, up>>

(* sendJSON of the event. *)
Send(g) ==
  /\ pc[g] = "marked" /\ writable /\ up
  /\ sent' = [sent EXCEPT ![topic[g]] = Append(@, Held(g))]
  /\ stray' = [stray EXCEPT ![topic[g]] = IF topic[g] \in topics THEN @ ELSE @ + 1]
  /\ Leave(g)
  /\ UNCHANGED <<feed, client, topics, marks, todo, writable, up>>

(* Faulty variant: what cannot be written in time is dropped, and later
   events are written. *)
SendDrops(g) ==
  /\ pc[g] = "marked"
  /\ Leave(g)
  /\ UNCHANGED <<feed, client, topics, marks, todo, wire>>

(* The write fails: the client is gone, an earlier write failed, or this one
   passes its deadline.  The error is ignored, the mark stays. *)
SendFails(g) ==
  /\ pc[g] = "marked"
  /\ writable' = FALSE
  /\ Leave(g)
  /\ UNCHANGED <<feed, client, topics, marks, todo, sent, stray, up>>

(* The end of the list; the reader sends "ready" and reads again. *)
EndOfList(g) ==
  /\ pc[g] = "stream" /\ todo[g] = {}
  /\ pc' = [pc EXCEPT ![g] = "idle"]
  /\ UNCHANGED <<feed, client, topics, marks, todo, topic, payload, seq, wire>>

(* Both goroutines have returned and the connection is closed. *)
Terminated == pc["ticker"] = "returned" /\ UNCHANGED vars

-----------------------------------------------------------------------------
Stream(g) ==
  \/ \E t \in Topic : Build(g, t) \/ SnapshotFails(g, t)
  \/ Unchanged(g) \/ Mark(g) \/ Send(g) \/ SendFails(g) \/ EndOfList(g)

Reader == Subscribe \/ Unsubscribe \/ ReaderReturn \/ Stream("reader")

Ticker == Tick \/ TickerReturn \/ Stream("ticker")

Client ==
  \/ Disconnect
  \/ \E list \in (SUBSET Topic) \ {{}} : Ask("subscribe", list) \/ Ask("unsubscribe", list)

Next ==
  \/ Reader \/ Ticker \/ OtherWriteFails
  \/ Client \/ Terminated
  \/ \E t \in Topic : Change(t)

Spec == Init /\ [][Next]_vars

(* The scheduler runs both goroutines and ticks come; a snapshot may fail
   (the database is busy), but not for ever.  Nothing obliges the client to
   ask or the data to change. *)
Fairness ==
  /\ WF_vars(Tick) /\ WF_vars(ReaderReturn) /\ WF_vars(TickerReturn)
  /\ WF_vars(Subscribe \/ Unsubscribe)
  /\ \A g \in Goroutine :
       /\ WF_vars(Stream(g))
       /\ \A t \in Topic : SF_vars(Build(g, t))

FairSpec == Spec /\ Fairness

-----------------------------------------------------------------------------
(* Properties *)

TypeOK ==
  /\ data \in [Topic -> Version]
  /\ changes \in 0..MaxChanges
  /\ inbox \in Seq(Request)
  /\ requests \in 0..MaxRequests
  /\ topics \in SUBSET Topic
  /\ hashByTopic \in [Topic -> Version \cup {NoHash}]
  /\ seqByTopic \in [Topic -> Nat]
  /\ pc \in [Goroutine -> PC]
  /\ todo \in [Goroutine -> SUBSET Topic]
  /\ topic \in [Goroutine -> Topic \cup {NoTopic}]
  /\ payload \in [Goroutine -> Version \cup {NoHash}]
  /\ seq \in [Goroutine -> Nat]
  /\ \A g \in Goroutine : pc[g] \in {"built", "marked"} =>
       topic[g] \in Topic /\ payload[g] \in Version
  /\ \A g \in Goroutine : pc[g] = "marked" => seq[g] \in 1..seqByTopic[topic[g]]
  /\ sent \in [Topic -> Seq(LiveEvent)]
  /\ stray \in [Topic -> Nat]
  /\ writable \in BOOLEAN
  /\ up \in BOOLEAN

Holds(g, t) == pc[g] = "marked" /\ topic[g] = t

(* The events of a topic: written, or marked and about to be. *)
Events(t) == ToSet(sent[t]) \cup {Held(g) : g \in {h \in Goroutine : Holds(h, t)}}

(* No number is left out: as long as writes succeed, every number given for a
   topic is on an event that was written or is about to be.  This is what lets
   LiveProvider take a jump in the numbers for a gap. *)
NoSeqIsLost ==
  writable => \A t \in Topic :
    \A n \in 1..seqByTopic[t] : \E e \in Events(t) : e.seq = n

(* No number is given twice, by whichever goroutine marked the events. *)
SeqsAreUnique ==
  \A t \in Topic :
    /\ \A i, j \in DOMAIN sent[t] : sent[t][i].seq = sent[t][j].seq => i = j
    /\ \A g \in Goroutine : Holds(g, t) =>
         /\ \A i \in DOMAIN sent[t] : sent[t][i].seq # seq[g]
         /\ \A h \in Goroutine : Holds(h, t) /\ seq[h] = seq[g] => h = g

(* "Sequence/hash convergence is enforced in one state transition": an event
   is a change against the event numbered before it, and the hash recorded is
   the one of the event numbered last, across unsubscribing, failed snapshots
   and the two goroutines. *)
EventsAreChanges ==
  \A t \in Topic : \A e \in Events(t) :
    /\ e.seq = seqByTopic[t] => e.ver = hashByTopic[t]
    /\ \A d \in Events(t) : d.seq = e.seq + 1 => d.ver # e.ver

(* A goroutine still has the topic before it. *)
Ahead(g, t) == t \in todo[g] \/ (pc[g] \in {"built", "marked"} /\ topic[g] = t)

(* Each topic's part of the connection is a LiveChannel: events come numbered
   from 1, each a change against the one numbered before it, none is lost but
   with the connection, at most two are under way, and of a topic that was
   left at most one is still written - however the reader and the ticker
   interleave. *)
ListedAs(t) ==
  IF t \in topics THEN "yes" ELSE IF Ahead("ticker", t) THEN "once" ELSE "no"

Taken(t) == {payload[g] : g \in {h \in Goroutine : pc[h] = "built" /\ topic[h] = t}}
InFlight(t) == {Held(g) : g \in {h \in Goroutine : Holds(h, t)}}

Channel(t) == INSTANCE LiveChannel WITH
  data <- data[t], listed <- ListedAs(t), taken <- Taken(t),
  last <- hashByTopic[t], count <- seqByTopic[t],
  flight <- InFlight(t), sent <- sent[t], broken <- ~writable

ImplementsLiveChannel ==
  /\ \A t \in Topic : Channel(t)!Init
  /\ [][\A t \in Topic : [Channel(t)!Next]_(Channel(t)!vars)]_vars

(* Unsubscribing does not wait for the tick under way, but outlives it: at
   most one more event of the topic is written. *)
AtMostOneStray == \A t \in Topic : stray[t] <= 1

(* The page converges: while a topic is subscribed and writes succeed, the
   newest event (by number) eventually is the data, unless that changes. *)
Newest(t) == {e \in ToSet(sent[t]) : e.seq = seqByTopic[t]}

NewestBecomesData ==
  \A t \in Topic : \A v \in Version :
    (t \in topics /\ data[t] = v) ~>
      \/ \E e \in Newest(t) : e.ver = v
      \/ data[t] # v \/ t \notin topics \/ ~up \/ ~writable
=============================================================================
