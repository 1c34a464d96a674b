--------------------------- MODULE LiveServerProofs ---------------------------
(***************************************************************************)
(* What LiveServer promises for any topics, payloads, numbers of changes   *)
(* and of client messages.                                                 *)
(*                                                                         *)
(* The steps differ in what they do to the events of a topic, written or   *)
(* held: Mark adds one with the next number, Send moves one from a         *)
(* goroutine to the wire, SendFails loses one, and no other step touches   *)
(* them.  That is proved once, in the lemmas about Events; the invariants  *)
(* follow from it.                                                         *)
(***************************************************************************)
EXTENDS LiveServer, SequenceTheorems, TLAPS

(* The numbers on events are numbers that were given. *)
Numbered ==
  \A t \in Topic : \A e \in Events(t) : e.seq \in 1..seqByTopic[t]

IInv == TypeOK /\ Numbered

USE VersionsAssumption, TopicsAssumption, MaxAssumption DEF Goroutine

-----------------------------------------------------------------------------
(* Types *)

(* Initially everything has its type and there is no event. *)
LEMMA InitIInv == Init => IInv
PROOF
  <1> SUFFICES ASSUME Init PROVE IInv
    OBVIOUS
  <1>1. TypeOK
    BY DEF Init, TypeOK, PC
  <1>2. \A t \in Topic : Events(t) = {}
    BY DEF Init, Events, Holds, ToSet
  <1> QED
    BY <1>1, <1>2 DEF IInv, Numbered

(* Going on to the next topic keeps the types. *)
LEMMA LeaveType ==
  ASSUME TypeOK, NEW g \in Goroutine, Leave(g)
  PROVE  /\ pc' \in [Goroutine -> PC]
         /\ topic' \in [Goroutine -> Topic \cup {NoTopic}]
         /\ payload' \in [Goroutine -> Version \cup {NoHash}]
         /\ seq' \in [Goroutine -> Nat]
         /\ pc'[g] = "stream"
         /\ \A h \in Goroutine \ {g} :
              pc'[h] = pc[h] /\ topic'[h] = topic[h] /\ payload'[h] = payload[h] /\ seq'[h] = seq[h]
  BY DEF TypeOK, Leave, PC

(* What a goroutine holds is an event. *)
LEMMA HeldType ==
  ASSUME TypeOK, NEW g \in Goroutine, pc[g] = "marked"
  PROVE  Held(g) \in LiveEvent /\ topic[g] \in Topic
  BY DEF TypeOK, Held, LiveEvent

(* The steps of the environment and of the two loops keep the types. *)
LEMMA LoopsType ==
  ASSUME TypeOK,
         \/ \E t \in Topic : Change(t)
         \/ Client \/ Terminated
         \/ Subscribe \/ Unsubscribe \/ ReaderReturn
         \/ Tick \/ OtherWriteFails \/ TickerReturn
  PROVE  TypeOK'
PROOF
  <1> USE DEF TypeOK, PC, feed, client, marks, jobs, wire
  <1>1. ASSUME NEW t \in Topic, Change(t) PROVE TypeOK'
    BY <1>1 DEF Change
  <1>2. ASSUME Client PROVE TypeOK'
    <2>1. CASE Disconnect
      BY <2>1 DEF Disconnect
    <2>2. ASSUME NEW op \in {"subscribe", "unsubscribe"}, NEW list \in SUBSET Topic, Ask(op, list)
          PROVE  TypeOK'
      <3>1. [op |-> op, list |-> list] \in Request
        BY DEF Request
      <3>2. inbox' \in Seq(Request) /\ requests' \in 0..MaxRequests
        BY <2>2, <3>1, AppendProperties DEF Ask
      <3> QED
        BY <2>2, <3>2 DEF Ask
    <2> QED
      BY <1>2, <2>1, <2>2 DEF Client
  <1>3. CASE Terminated
    BY <1>3 DEF Terminated, vars
  <1>4. ASSUME NEW op \in {"subscribe", "unsubscribe"}, Receive(op)
        PROVE  Head(inbox).list \in SUBSET Topic /\ inbox' \in Seq(Request)
    <2>1. inbox \in Seq(Request) /\ inbox # <<>> /\ inbox' = Tail(inbox)
      BY <1>4 DEF Receive
    <2>2. Head(inbox) \in Request /\ Tail(inbox) \in Seq(Request)
      BY <2>1, HeadTailProperties
    <2> QED
      BY <2>1, <2>2 DEF Request
  <1>5. CASE Subscribe
    BY <1>4, <1>5 DEF Subscribe, Receive
  <1>6. CASE Unsubscribe
    BY <1>4, <1>6 DEF Unsubscribe, Receive
  <1>7. CASE ReaderReturn
    BY <1>7 DEF ReaderReturn
  <1>8. CASE Tick
    BY <1>8 DEF Tick
  <1>9. CASE OtherWriteFails
    BY <1>9 DEF OtherWriteFails
  <1>10. CASE TickerReturn
    BY <1>10 DEF TickerReturn
  <1> QED
    BY <1>1, <1>2, <1>3, <1>5, <1>6, <1>7, <1>8, <1>9, <1>10

(* The steps of streamTopicSnapshot keep the types. *)
LEMMA StreamType ==
  ASSUME TypeOK, NEW g \in Goroutine, Stream(g)
  PROVE  TypeOK'
PROOF
  <1> USE DEF TypeOK, PC, feed, client, marks, wire
  <1>1. ASSUME NEW t \in Topic, Build(g, t) PROVE TypeOK'
    BY <1>1 DEF Build
  <1>2. ASSUME NEW t \in Topic, SnapshotFails(g, t) PROVE TypeOK'
    BY <1>2 DEF SnapshotFails
  <1>3. CASE Unchanged(g)
    BY <1>3, LeaveType DEF Unchanged
  <1>4. CASE Mark(g)
    <2>1. topic[g] \in Topic /\ payload[g] \in Version
      BY <1>4 DEF Mark
    <2>2. /\ hashByTopic' \in [Topic -> Version \cup {NoHash}]
          /\ seqByTopic' \in [Topic -> Nat]
          /\ seq' \in [Goroutine -> Nat]
          /\ pc' \in [Goroutine -> PC]
      BY <1>4, <2>1 DEF Mark
    <2>3. \A h \in Goroutine : pc'[h] = "marked" => seq'[h] \in 1..seqByTopic'[topic'[h]]
      <3> TAKE h \in Goroutine
      <3>1. CASE h = g
        BY <1>4, <2>1, <3>1 DEF Mark
      <3>2. CASE h # g /\ pc[h] = "marked"
        <4>1. topic[h] \in Topic /\ seq[h] \in 1..seqByTopic[topic[h]]
          BY <3>2
        <4>2. seqByTopic'[topic[h]] >= seqByTopic[topic[h]]
          BY <1>4, <2>1, <4>1 DEF Mark
        <4> QED
          BY <1>4, <3>2, <4>1, <4>2 DEF Mark
      <3> QED
        BY <1>4, <3>1, <3>2 DEF Mark
    <2> QED
      BY <1>4, <2>1, <2>2, <2>3 DEF Mark
  <1>5. CASE Send(g)
    <2>1. sent' \in [Topic -> Seq(LiveEvent)]
      BY <1>5, HeldType, AppendProperties DEF Send
    <2>2. stray' \in [Topic -> Nat]
      BY <1>5, HeldType DEF Send
    <2> QED
      BY <1>5, <2>1, <2>2, LeaveType DEF Send
  <1>6. CASE SendFails(g)
    BY <1>6, LeaveType DEF SendFails
  <1>7. CASE EndOfList(g)
    BY <1>7 DEF EndOfList
  <1> QED
    BY <1>1, <1>2, <1>3, <1>4, <1>5, <1>6, <1>7 DEF Stream

(* Every step keeps the types. *)
LEMMA NextType == TypeOK /\ [Next]_vars => TypeOK'
PROOF
  <1> SUFFICES ASSUME TypeOK, [Next]_vars PROVE TypeOK'
    OBVIOUS
  <1>1. CASE UNCHANGED vars
    BY <1>1 DEF TypeOK, vars, feed, client, marks, jobs, wire
  <1>2. CASE Next
    BY <1>2, LoopsType, StreamType DEF Next, Reader, Ticker
  <1> QED
    BY <1>1, <1>2

(* Every variable keeps its type; a goroutine that marked an event holds a
   topic, a payload and a number that was given. *)
THEOREM TypeCorrect == Spec => []TypeOK
PROOF
  <1>1. Init => TypeOK
    BY InitIInv DEF IInv
  <1> QED
    BY <1>1, NextType, PTL DEF Spec

-----------------------------------------------------------------------------
(* What a step does to the events of a topic. *)

(* Appending an event adds it to the set of those written. *)
LEMMA AppendToSet ==
  ASSUME NEW S, NEW s \in Seq(S), NEW e \in S
  PROVE  ToSet(Append(s, e)) = ToSet(s) \cup {e}
PROOF
  <1>1. /\ Append(s, e) \in Seq(S) /\ Len(Append(s, e)) = Len(s) + 1
        /\ \A i \in 1..Len(s) : Append(s, e)[i] = s[i]
        /\ Append(s, e)[Len(s) + 1] = e
    BY AppendProperties
  <1>2. DOMAIN s = 1..Len(s) /\ DOMAIN Append(s, e) = 1..(Len(s) + 1) /\ Len(s) \in Nat
    BY <1>1, LenProperties
  <1>3. 1..(Len(s) + 1) = 1..Len(s) \cup {Len(s) + 1}
    BY <1>2
  <1> QED
    BY <1>1, <1>2, <1>3 DEF ToSet

(* The set of a sequence's elements is within the sequence's type. *)
LEMMA ToSetType ==
  ASSUME NEW S, NEW s \in Seq(S)
  PROVE  ToSet(s) \subseteq S
  BY DEF ToSet

(* An event that is held, and nothing else, is added by markSnapshot. *)
LEMMA EventsMark ==
  ASSUME TypeOK, NEW g \in Goroutine, Mark(g), NEW t \in Topic
  PROVE  Events(t)' = Events(t) \cup
           (IF t = topic[g]
            THEN {[seq |-> seqByTopic[t] + 1, ver |-> payload[g]]} ELSE {})
PROOF
  <1>1. topic[g] \in Topic /\ pc[g] = "built"
    BY DEF Mark, TypeOK
  <1>2. \A h \in Goroutine : Holds(h, t)' <=> Holds(h, t) \/ (h = g /\ t = topic[g])
    BY <1>1 DEF Mark, Holds, TypeOK
  <1>3. \A h \in Goroutine \ {g} : Held(h)' = Held(h)
    BY DEF Mark, Held, TypeOK
  <1>4. t = topic[g] => Held(g)' = [seq |-> seqByTopic[t] + 1, ver |-> payload[g]]
    BY <1>1 DEF Mark, Held, TypeOK
  <1>5. sent' = sent /\ ~Holds(g, t)
    BY <1>1 DEF Mark, Holds, wire
  <1> QED
    BY <1>2, <1>3, <1>4, <1>5 DEF Events

(* A send that succeeds moves the event of a goroutine to the wire. *)
LEMMA EventsSend ==
  ASSUME TypeOK, NEW g \in Goroutine, Send(g), NEW t \in Topic
  PROVE  Events(t)' = Events(t)
PROOF
  <1>1. /\ topic[g] \in Topic /\ Held(g) \in LiveEvent /\ pc[g] = "marked"
        /\ sent[t] \in Seq(LiveEvent)
    BY HeldType DEF Send, TypeOK
  <1>2. \A h \in Goroutine : Holds(h, t)' <=> Holds(h, t) /\ h # g
    BY LeaveType DEF Send, Holds
  <1>3. \A h \in Goroutine \ {g} : Held(h)' = Held(h)
    BY LeaveType DEF Send, Held
  <1>4. CASE t = topic[g]
    <2>1. sent[t]' = Append(sent[t], Held(g)) /\ Holds(g, t)
      BY <1>1, <1>4 DEF Send, TypeOK, Holds
    <2>2. ToSet(sent[t]') = ToSet(sent[t]) \cup {Held(g)}
      BY <1>1, <2>1, AppendToSet
    <2> QED
      BY <1>2, <1>3, <2>1, <2>2 DEF Events
  <1>5. CASE t # topic[g]
    <2>1. sent[t]' = sent[t] /\ ~Holds(g, t)
      BY <1>1, <1>5 DEF Send, TypeOK, Holds
    <2> QED
      BY <1>2, <1>3, <2>1 DEF Events
  <1> QED
    BY <1>4, <1>5

(* A send that fails loses at most the event of its goroutine. *)
LEMMA EventsSendFails ==
  ASSUME TypeOK, NEW g \in Goroutine, SendFails(g), NEW t \in Topic
  PROVE  Events(t)' \subseteq Events(t)
PROOF
  <1>1. \A h \in Goroutine : Holds(h, t)' <=> Holds(h, t) /\ h # g
    BY LeaveType DEF SendFails, Holds
  <1>2. \A h \in Goroutine \ {g} : Held(h)' = Held(h)
    BY LeaveType DEF SendFails, Held
  <1>3. sent' = sent
    BY DEF SendFails
  <1> QED
    BY <1>1, <1>2, <1>3 DEF Events

(* Steps that neither mark nor send. *)
Other ==
  \/ \E t \in Topic : Change(t)
  \/ Client \/ Terminated
  \/ Subscribe \/ Unsubscribe \/ ReaderReturn
  \/ Tick \/ OtherWriteFails \/ TickerReturn
  \/ \E g \in Goroutine :
       \/ \E t \in Topic : Build(g, t) \/ SnapshotFails(g, t)
       \/ Unchanged(g) \/ EndOfList(g)
  \/ UNCHANGED vars

(* Every step is one of these. *)
LEMMA Steps ==
  ASSUME [Next]_vars
  PROVE  Other \/ \E g \in Goroutine : Mark(g) \/ Send(g) \/ SendFails(g)
  BY DEF Next, Reader, Ticker, Stream, Other

(* The other steps leave the wire, the marks and whoever holds an event
   alone. *)
LEMMA OtherFrame ==
  ASSUME TypeOK, Other
  PROVE  /\ sent' = sent /\ marks' = marks
         /\ \A g \in Goroutine : \A t \in Topic : Holds(g, t)' <=> Holds(g, t)
         /\ \A g \in Goroutine : pc[g] = "marked" => Held(g)' = Held(g) /\ seq'[g] = seq[g]
         /\ writable' => writable
PROOF
  <1> USE DEF TypeOK, Holds, Held, feed, client, marks, jobs, wire
  <1>1. ASSUME NEW t \in Topic, Change(t) PROVE UNCHANGED <<marks, jobs, sent, writable>>
    BY <1>1 DEF Change
  <1>2. ASSUME Client PROVE UNCHANGED <<marks, jobs, sent, writable>>
    BY <1>2 DEF Client, Disconnect, Ask
  <1>3. CASE Terminated \/ UNCHANGED vars
    BY <1>3 DEF Terminated, vars
  <1>4. ASSUME Subscribe \/ Unsubscribe \/ ReaderReturn
        PROVE  /\ UNCHANGED <<marks, topic, payload, seq, sent, writable>>
               /\ \A h \in Goroutine : pc'[h] = "marked" <=> pc[h] = "marked"
    <2>1. CASE Subscribe
      BY <2>1 DEF Subscribe, Receive
    <2>2. CASE Unsubscribe
      BY <2>2 DEF Unsubscribe, Receive
    <2>3. CASE ReaderReturn
      BY <2>3 DEF ReaderReturn
    <2> QED
      BY <1>4, <2>1, <2>2, <2>3
  <1>5. ASSUME Tick \/ OtherWriteFails \/ TickerReturn
        PROVE  /\ UNCHANGED <<marks, topic, payload, seq, sent>>
               /\ \A h \in Goroutine : pc'[h] = "marked" <=> pc[h] = "marked"
               /\ writable' => writable
    <2>1. CASE Tick
      BY <2>1 DEF Tick
    <2>2. CASE OtherWriteFails
      BY <2>2 DEF OtherWriteFails
    <2>3. CASE TickerReturn
      BY <2>3 DEF TickerReturn
    <2> QED
      BY <1>5, <2>1, <2>2, <2>3
  <1>6. ASSUME NEW g \in Goroutine, NEW t \in Topic, Build(g, t) \/ SnapshotFails(g, t)
        PROVE  /\ UNCHANGED <<marks, wire, seq>>
               /\ pc[g] # "marked" /\ pc'[g] # "marked"
               /\ \A h \in Goroutine \ {g} :
                    pc'[h] = pc[h] /\ topic'[h] = topic[h] /\ payload'[h] = payload[h]
    BY <1>6 DEF Build, SnapshotFails
  <1>7. ASSUME NEW g \in Goroutine, Unchanged(g) \/ EndOfList(g)
        PROVE  /\ UNCHANGED <<marks, wire>>
               /\ pc[g] # "marked" /\ pc'[g] # "marked"
               /\ \A h \in Goroutine \ {g} :
                    /\ pc'[h] = pc[h] /\ topic'[h] = topic[h]
                    /\ payload'[h] = payload[h] /\ seq'[h] = seq[h]
    BY <1>7 DEF Unchanged, EndOfList, Leave
  <1>8. ASSUME NEW g \in Goroutine,
               \/ \E t \in Topic : Build(g, t) \/ SnapshotFails(g, t)
               \/ Unchanged(g) \/ EndOfList(g)
        PROVE  /\ UNCHANGED <<marks, wire>>
               /\ pc[g] # "marked" /\ pc'[g] # "marked"
               /\ \A h \in Goroutine \ {g} :
                    /\ pc'[h] = pc[h] /\ topic'[h] = topic[h]
                    /\ payload'[h] = payload[h] /\ seq'[h] = seq[h]
    BY <1>6, <1>7, <1>8
  <1>9. CASE \/ \E t \in Topic : Change(t)
             \/ Client \/ Terminated \/ UNCHANGED vars
    BY <1>1, <1>2, <1>3, <1>9 DEF vars
  <1>10. CASE Subscribe \/ Unsubscribe \/ ReaderReturn
    BY <1>4, <1>10
  <1>11. ASSUME NEW g \in Goroutine,
                \/ \E t \in Topic : Build(g, t) \/ SnapshotFails(g, t)
                \/ Unchanged(g) \/ EndOfList(g)
         PROVE  \A h \in Goroutine :
                  /\ pc'[h] = "marked" <=> pc[h] = "marked"
                  /\ pc[h] = "marked" => /\ topic'[h] = topic[h] /\ seq'[h] = seq[h]
                                         /\ payload'[h] = payload[h]
    BY <1>8, <1>11
  <1>12. CASE \E g \in Goroutine :
                \/ \E t \in Topic : Build(g, t) \/ SnapshotFails(g, t)
                \/ Unchanged(g) \/ EndOfList(g)
    BY <1>8, <1>11, <1>12
  <1>13. CASE Tick \/ OtherWriteFails \/ TickerReturn
    BY <1>5, <1>13
  <1> QED
    BY <1>9, <1>10, <1>12, <1>13 DEF Other

(* So they keep the events of every topic. *)
LEMMA EventsOther ==
  ASSUME TypeOK, Other, NEW t \in Topic
  PROVE  Events(t)' = Events(t)
PROOF
  <1>1. \A g \in Goroutine : Holds(g, t) => Held(g)' = Held(g)
    BY OtherFrame DEF Holds
  <1> QED
    BY <1>1, OtherFrame DEF Events

-----------------------------------------------------------------------------
(* The numbers on events *)

(* Numbers are given in order, so an event carries one that was given. *)
LEMMA NextIInv == IInv /\ [Next]_vars => IInv'
PROOF
  <1> SUFFICES ASSUME IInv, [Next]_vars PROVE IInv'
    OBVIOUS
  <1>0. TypeOK /\ Numbered /\ TypeOK'
    BY NextType DEF IInv
  <1>1. ASSUME NEW g \in Goroutine, Mark(g), NEW t \in Topic, NEW e \in Events(t)'
        PROVE  e.seq \in 1..seqByTopic'[t]
    <2>1. topic[g] \in Topic /\ seqByTopic[t] \in Nat
      BY <1>0, <1>1 DEF Mark, TypeOK
    <2>2. CASE t # topic[g]
      <3>1. seqByTopic'[t] = seqByTopic[t]
        BY <1>0, <1>1, <2>1, <2>2 DEF Mark, TypeOK
      <3>2. Events(t)' = Events(t) \cup {}
        BY <1>0, <1>1, <2>2, EventsMark
      <3> QED
        BY <1>0, <1>1, <3>1, <3>2 DEF Numbered
    <2>3. CASE t = topic[g]
      <3>1. seqByTopic'[t] = seqByTopic[t] + 1
        BY <1>0, <1>1, <2>1, <2>3 DEF Mark, TypeOK
      <3>2. e \in Events(t) \/ e.seq = seqByTopic[t] + 1
        BY <1>0, <1>1, <2>3, EventsMark
      <3>3. e \in Events(t) => e.seq \in 1..seqByTopic[t]
        BY <1>0 DEF Numbered
      <3> QED
        BY <2>1, <3>1, <3>2, <3>3
    <2> QED
      BY <2>2, <2>3
  <1>2. ASSUME NEW g \in Goroutine, Send(g) \/ SendFails(g), NEW t \in Topic
        PROVE  Events(t)' \subseteq Events(t) /\ seqByTopic' = seqByTopic
    BY <1>0, <1>2, EventsSend, EventsSendFails DEF Send, SendFails, marks
  <1>3. ASSUME Other, NEW t \in Topic
        PROVE  Events(t)' \subseteq Events(t) /\ seqByTopic' = seqByTopic
    BY <1>0, <1>3, EventsOther, OtherFrame DEF marks
  <1>4. Numbered'
    <2> SUFFICES ASSUME NEW t \in Topic, NEW e \in Events(t)'
                 PROVE  e.seq \in 1..seqByTopic'[t]
      BY DEF Numbered
    <2>1. CASE Events(t)' \subseteq Events(t) /\ seqByTopic' = seqByTopic
      BY <1>0, <2>1 DEF Numbered
    <2> QED
      BY <1>1, <1>2, <1>3, <2>1, Steps
  <1> QED
    BY <1>0, <1>4 DEF IInv

(* IInv is invariant. *)
LEMMA Invariance == Spec => []IInv
  BY InitIInv, NextIInv, PTL DEF Spec

(* As long as writes succeed every number given for a topic is on an event
   written or held: LiveProvider may take a jump in the numbers for a gap. *)
THEOREM NumbersCorrect == Spec => []NoSeqIsLost
PROOF
  <1>1. Init => NoSeqIsLost
    BY DEF Init, NoSeqIsLost
  <1>2. IInv /\ NoSeqIsLost /\ [Next]_vars => NoSeqIsLost'
    <2> SUFFICES ASSUME IInv, NoSeqIsLost, [Next]_vars, writable', NEW t \in Topic,
                        NEW n \in 1..seqByTopic'[t]
                 PROVE  \E e \in Events(t)' : e.seq = n
      BY DEF NoSeqIsLost
    <2>0. TypeOK /\ seqByTopic[t] \in Nat
      BY DEF IInv, TypeOK
    <2>1. CASE /\ Events(t)' = Events(t) /\ seqByTopic'[t] = seqByTopic[t] /\ writable
      BY <2>1 DEF NoSeqIsLost
    <2>2. ASSUME NEW g \in Goroutine, Mark(g) PROVE \E e \in Events(t)' : e.seq = n
      <3>1. topic[g] \in Topic /\ writable
        BY <2>0, <2>2 DEF Mark, TypeOK, wire
      <3>2. CASE t # topic[g]
        <4>1. seqByTopic'[t] = seqByTopic[t]
          BY <2>0, <2>2, <3>1, <3>2 DEF Mark, TypeOK
        <4>2. Events(t)' = Events(t) \cup {}
          BY <2>0, <2>2, <3>2, EventsMark
        <4> QED
          BY <2>1, <3>1, <4>1, <4>2
      <3>3. CASE t = topic[g]
        <4> DEFINE new == [seq |-> seqByTopic[t] + 1, ver |-> payload[g]]
        <4>1. seqByTopic'[t] = seqByTopic[t] + 1
          BY <2>0, <2>2, <3>1, <3>3 DEF Mark, TypeOK
        <4>2. Events(t)' = Events(t) \cup {new}
          BY <2>0, <2>2, <3>3, EventsMark
        <4>3. n \in 1..seqByTopic[t] \/ n = seqByTopic[t] + 1
          BY <2>0, <4>1
        <4>4. CASE n \in 1..seqByTopic[t]
          BY <3>1, <4>2, <4>4 DEF NoSeqIsLost
        <4>5. new.seq = seqByTopic[t] + 1
          OBVIOUS
        <4> QED
          BY <4>2, <4>3, <4>4, <4>5
      <3> QED
        BY <3>2, <3>3
    <2>3. ASSUME NEW g \in Goroutine, Send(g) PROVE \E e \in Events(t)' : e.seq = n
      BY <2>0, <2>1, <2>3, EventsSend DEF Send, marks
    <2>4. \A g \in Goroutine : ~SendFails(g)
      BY DEF SendFails
    <2>5. CASE Other
      BY <2>0, <2>1, <2>5, EventsOther, OtherFrame DEF marks
    <2> QED
      BY <2>2, <2>3, <2>4, <2>5, Steps
  <1> QED
    BY <1>1, <1>2, Invariance, PTL DEF Spec

(* The hash recorded is that of the event numbered last, and each event is a
   change against the one numbered before it. *)
THEOREM ChangesCorrect == Spec => []EventsAreChanges
PROOF
  <1>1. Init => EventsAreChanges
    BY DEF Init, EventsAreChanges, Events, Holds, ToSet
  <1>2. IInv /\ EventsAreChanges /\ [Next]_vars => EventsAreChanges'
    <2> SUFFICES ASSUME IInv, EventsAreChanges, [Next]_vars, NEW t \in Topic,
                        NEW e \in Events(t)', NEW d \in Events(t)'
                 PROVE  /\ e.seq = seqByTopic'[t] => e.ver = hashByTopic'[t]
                        /\ d.seq = e.seq + 1 => d.ver # e.ver
      BY DEF EventsAreChanges
    <2>0. TypeOK /\ Numbered /\ seqByTopic[t] \in Nat
      BY DEF IInv, TypeOK
    <2>1. CASE /\ Events(t)' \subseteq Events(t)
               /\ seqByTopic'[t] = seqByTopic[t] /\ hashByTopic'[t] = hashByTopic[t]
      BY <2>1 DEF EventsAreChanges
    <2>2. ASSUME NEW g \in Goroutine, Mark(g)
          PROVE  /\ e.seq = seqByTopic'[t] => e.ver = hashByTopic'[t]
                 /\ d.seq = e.seq + 1 => d.ver # e.ver
      <3>1. topic[g] \in Topic /\ payload[g] # hashByTopic[topic[g]]
        BY <2>0, <2>2 DEF Mark, TypeOK
      <3>2. CASE t # topic[g]
        <4>1. seqByTopic'[t] = seqByTopic[t] /\ hashByTopic'[t] = hashByTopic[t]
          BY <2>0, <2>2, <3>1, <3>2 DEF Mark, TypeOK
        <4>2. Events(t)' = Events(t) \cup {}
          BY <2>0, <2>2, <3>2, EventsMark
        <4> QED
          BY <2>1, <4>1, <4>2
      <3>3. CASE t = topic[g]
        <4> DEFINE new == [seq |-> seqByTopic[t] + 1, ver |-> payload[g]]
        <4>1. seqByTopic'[t] = seqByTopic[t] + 1 /\ hashByTopic'[t] = payload[g]
          BY <2>0, <2>2, <3>1, <3>3 DEF Mark, TypeOK
        <4>2. Events(t)' = Events(t) \cup {new}
          BY <2>0, <2>2, <3>3, EventsMark
        <4>3. new.seq = seqByTopic[t] + 1 /\ new.ver = payload[g]
          OBVIOUS
        <4>4. \A x \in Events(t) :
                /\ x.seq \in 1..seqByTopic[t]
                /\ x.seq = seqByTopic[t] => x.ver = hashByTopic[t]
                /\ \A y \in Events(t) : y.seq = x.seq + 1 => y.ver # x.ver
          BY <2>0 DEF Numbered, EventsAreChanges
        <4> HIDE DEF new
        <4>5. e.seq = seqByTopic'[t] => e.ver = hashByTopic'[t]
          BY <2>0, <4>1, <4>2, <4>3, <4>4
        <4>6. CASE d = new
          BY <2>0, <3>1, <3>3, <4>2, <4>3, <4>4, <4>5, <4>6
        <4>7. CASE d \in Events(t)
          BY <2>0, <4>2, <4>3, <4>4, <4>5, <4>7
        <4> QED
          BY <4>2, <4>5, <4>6, <4>7
      <3> QED
        BY <3>2, <3>3
    <2>3. ASSUME NEW g \in Goroutine, Send(g) \/ SendFails(g)
          PROVE  Events(t)' \subseteq Events(t) /\ marks' = marks
      BY <2>0, <2>3, EventsSend, EventsSendFails DEF Send, SendFails
    <2>4. CASE Other
      BY <2>0, <2>1, <2>4, EventsOther, OtherFrame DEF marks
    <2> QED
      BY <2>1, <2>2, <2>3, <2>4, Steps DEF marks
  <1> QED
    BY <1>1, <1>2, Invariance, PTL DEF Spec

(* markSnapshot never gives a number twice, whichever goroutine calls it. *)
THEOREM UniqueCorrect == Spec => []SeqsAreUnique
PROOF
  <1>1. Init => SeqsAreUnique
    BY DEF Init, SeqsAreUnique, Holds
  <1>2. IInv /\ SeqsAreUnique /\ [Next]_vars => SeqsAreUnique'
    <2> SUFFICES ASSUME IInv, SeqsAreUnique, [Next]_vars PROVE SeqsAreUnique'
      OBVIOUS
    <2>0. TypeOK /\ Numbered
      BY DEF IInv
    <2>1. ASSUME NEW t \in Topic, NEW i \in DOMAIN sent[t]
          PROVE  sent[t][i].seq \in 1..seqByTopic[t]
      BY <2>0 DEF Numbered, Events, ToSet
    <2>2. ASSUME NEW t \in Topic, NEW g \in Goroutine, Holds(g, t)
          PROVE  seq[g] \in 1..seqByTopic[t]
      BY <2>0, <2>2 DEF TypeOK, Holds
    <2>3. ASSUME NEW g \in Goroutine, Mark(g) PROVE SeqsAreUnique'
      <3>1. topic[g] \in Topic /\ seqByTopic[topic[g]] \in Nat
        BY <2>0, <2>3 DEF Mark, TypeOK
      <3>2. /\ sent' = sent /\ ~Holds(g, topic[g])
            /\ seq'[g] = seqByTopic[topic[g]] + 1
            /\ \A h \in Goroutine \ {g} : seq'[h] = seq[h]
            /\ \A h \in Goroutine, t \in Topic :
                 Holds(h, t)' <=> Holds(h, t) \/ (h = g /\ t = topic[g])
        BY <2>0, <2>3, <3>1 DEF Mark, TypeOK, Holds, wire
      <3>3. ASSUME NEW t \in Topic, NEW h \in Goroutine, Holds(h, t)'
            PROVE  /\ \A i \in DOMAIN sent[t] : sent[t][i].seq # seq'[h]
                   /\ \A k \in Goroutine : Holds(k, t)' /\ seq'[k] = seq'[h] => k = h
        <4>1. CASE h = g
          <5>1. t = topic[g]
            BY <2>3, <3>2, <3>3, <4>1 DEF Mark, Holds
          <5>2. \A i \in DOMAIN sent[t] : sent[t][i].seq # seq'[h]
            BY <2>1, <3>1, <3>2, <4>1, <5>1
          <5>3. \A k \in Goroutine : Holds(k, t)' /\ seq'[k] = seq'[h] => k = h
            BY <2>2, <3>1, <3>2, <4>1, <5>1
          <5> QED
            BY <5>2, <5>3
        <4>2. CASE h # g
          <5>1. Holds(h, t) /\ seq'[h] = seq[h]
            BY <3>2, <3>3, <4>2
          <5>2. seq[h] \in 1..seqByTopic[t]
            BY <2>2, <5>1
          <5>3. ASSUME NEW k \in Goroutine, Holds(k, t)', seq'[k] = seq'[h] PROVE k = h
            <6>1. CASE k = g /\ t = topic[g]
              BY <3>1, <3>2, <5>1, <5>2, <5>3, <6>1
            <6>2. CASE Holds(k, t) /\ k # g
              BY <3>2, <5>1, <5>3, <6>2 DEF SeqsAreUnique
            <6>3. Holds(g, t) => pc[g] = "marked"
              BY DEF Holds
            <6> QED
              BY <2>3, <3>2, <5>3, <6>1, <6>2, <6>3 DEF Mark
          <5> QED
            BY <5>1, <5>3 DEF SeqsAreUnique
        <4> QED
          BY <4>1, <4>2
      <3> QED
        BY <3>2, <3>3 DEF SeqsAreUnique
    <2>4. ASSUME NEW g \in Goroutine, Send(g) PROVE SeqsAreUnique'
      <3>1. topic[g] \in Topic /\ Holds(g, topic[g]) /\ Held(g).seq = seq[g]
        BY <2>0, <2>4, HeldType DEF Send, Holds, Held
      <3>2. \A h \in Goroutine, t \in Topic : Holds(h, t)' => Holds(h, t) /\ h # g /\ seq'[h] = seq[h]
        BY <2>0, <2>4, LeaveType DEF Send, Holds
      <3>3. ASSUME NEW t \in Topic, t # topic[g] PROVE sent'[t] = sent[t]
        BY <2>0, <2>4, <3>1, <3>3 DEF Send, TypeOK
      <3> DEFINE s == sent[topic[g]]
                 n == Len(s)
      <3>4. s \in Seq(LiveEvent) /\ Held(g) \in LiveEvent /\ sent'[topic[g]] = Append(s, Held(g))
        BY <2>0, <2>4, <3>1, HeldType DEF Send, TypeOK
      <3>5. /\ n \in Nat /\ DOMAIN s = 1..n /\ DOMAIN sent'[topic[g]] = 1..(n + 1)
            /\ \A i \in 1..n : sent'[topic[g]][i] = s[i]
            /\ sent'[topic[g]][n + 1] = Held(g)
        BY <3>4, AppendProperties, LenProperties
      <3>6. /\ \A i, j \in DOMAIN s : s[i].seq = s[j].seq => i = j
            /\ \A i \in DOMAIN s : s[i].seq # seq[g]
            /\ \A h \in Goroutine : Holds(h, topic[g]) =>
                 /\ \A i \in DOMAIN s : s[i].seq # seq[h]
                 /\ seq[h] = seq[g] => h = g
        BY <3>1 DEF SeqsAreUnique
      <3> HIDE DEF s, n
      <3>7. \A i, j \in DOMAIN sent'[topic[g]] :
              sent'[topic[g]][i].seq = sent'[topic[g]][j].seq => i = j
        <4> SUFFICES ASSUME NEW i \in 1..(n + 1), NEW j \in 1..(n + 1),
                            sent'[topic[g]][i].seq = sent'[topic[g]][j].seq
                     PROVE  i = j
          BY <3>5
        <4>1. (i \in 1..n \/ i = n + 1) /\ (j \in 1..n \/ j = n + 1)
          BY <3>5
        <4> QED
          BY <3>1, <3>5, <3>6, <4>1
      <3>8. ASSUME NEW t \in Topic, t = topic[g], NEW h \in Goroutine, Holds(h, t)',
                   NEW i \in DOMAIN sent'[t]
            PROVE  sent'[t][i].seq # seq'[h]
        <4>1. Holds(h, t) /\ h # g /\ seq'[h] = seq[h]
          BY <3>2, <3>8
        <4>2. i \in 1..n \/ i = n + 1
          BY <3>5, <3>8
        <4> QED
          BY <3>1, <3>5, <3>6, <3>8, <4>1, <4>2
      <3>9. \A t \in Topic : \A h, k \in Goroutine :
              Holds(h, t)' /\ Holds(k, t)' /\ seq'[k] = seq'[h] => k = h
        BY <3>2 DEF SeqsAreUnique
      <3>10. ASSUME NEW t \in Topic, t # topic[g]
             PROVE  /\ \A i, j \in DOMAIN sent'[t] : sent'[t][i].seq = sent'[t][j].seq => i = j
                    /\ \A h \in Goroutine : Holds(h, t)' =>
                         \A i \in DOMAIN sent'[t] : sent'[t][i].seq # seq'[h]
        BY <3>2, <3>3, <3>10 DEF SeqsAreUnique
      <3> QED
        BY <3>7, <3>8, <3>9, <3>10 DEF SeqsAreUnique
    <2>5. ASSUME NEW g \in Goroutine, SendFails(g) PROVE SeqsAreUnique'
      <3>1. \A h \in Goroutine, t \in Topic : Holds(h, t)' => Holds(h, t) /\ seq'[h] = seq[h]
        BY <2>0, <2>5, LeaveType DEF SendFails, Holds
      <3>2. sent' = sent
        BY <2>5 DEF SendFails
      <3> QED
        BY <3>1, <3>2 DEF SeqsAreUnique
    <2>6. CASE Other
      <3>1. \A h \in Goroutine, t \in Topic : Holds(h, t)' => Holds(h, t) /\ seq'[h] = seq[h]
        BY <2>0, <2>6, OtherFrame DEF Holds
      <3> QED
        BY <2>0, <2>6, <3>1, OtherFrame DEF SeqsAreUnique
    <2> QED
      BY <2>3, <2>4, <2>5, <2>6, Steps
  <1> QED
    BY <1>1, <1>2, Invariance, PTL DEF Spec

-----------------------------------------------------------------------------
(* Events after unsubscribing *)

(* A subscribed topic has no stray event and an unsubscribed one has at most
   one, after which the tick under way is past it; the reader, which handles
   one message after another, streams subscribed topics only. *)
StrayBounded ==
  /\ \A t \in Topic :
       /\ stray[t] <= 1
       /\ t \in topics => stray[t] = 0
       /\ Ahead("ticker", t) => stray[t] = 0
       /\ Ahead("reader", t) => t \in topics
  /\ \A g \in Goroutine :
       /\ pc[g] = "idle" => todo[g] = {}
       /\ pc[g] \in {"built", "marked"} => topic[g] \notin todo[g]

(* One goroutine's step through its list: nothing comes to lie ahead. *)
LEMMA AheadStep ==
  ASSUME TypeOK, StrayBounded, NEW g \in Goroutine,
         \/ \E t \in Topic : Build(g, t) \/ SnapshotFails(g, t)
         \/ Unchanged(g) \/ Mark(g) \/ SendFails(g) \/ EndOfList(g)
  PROVE  StrayBounded'
PROOF
  <1> USE DEF TypeOK, wire
  <1>1. ASSUME NEW t \in Topic, Build(g, t) PROVE StrayBounded'
    BY <1>1 DEF Build, StrayBounded, Ahead
  <1>2. ASSUME NEW t \in Topic, SnapshotFails(g, t) PROVE StrayBounded'
    BY <1>2 DEF SnapshotFails, StrayBounded, Ahead
  <1>3. CASE Unchanged(g)
    BY <1>3 DEF Unchanged, Leave, StrayBounded, Ahead
  <1>4. CASE Mark(g)
    BY <1>4 DEF Mark, StrayBounded, Ahead
  <1>5. CASE SendFails(g)
    BY <1>5 DEF SendFails, Leave, StrayBounded, Ahead
  <1>6. CASE EndOfList(g)
    BY <1>6 DEF EndOfList, StrayBounded, Ahead
  <1> QED
    BY <1>1, <1>2, <1>3, <1>4, <1>5, <1>6

(* A stray event can only be the ticker's, and it is past the topic then. *)
LEMMA StraySend ==
  ASSUME TypeOK, StrayBounded, NEW g \in Goroutine, Send(g)
  PROVE  StrayBounded'
PROOF
  <1>1. topic[g] \in Topic /\ Ahead(g, topic[g]) /\ topic[g] \notin todo[g]
    BY HeldType DEF Send, StrayBounded, Ahead
  <1>2. /\ pc' \in [Goroutine -> PC] /\ pc'[g] = "stream" /\ todo' = todo /\ topics' = topics
        /\ \A h \in Goroutine \ {g} : pc'[h] = pc[h] /\ topic'[h] = topic[h]
    BY LeaveType DEF Send
  <1>3. \A h \in Goroutine, t \in Topic : Ahead(h, t)' => Ahead(h, t) /\ ~(h = g /\ t = topic[g])
    BY <1>1, <1>2 DEF Ahead
  <1>4. \A t \in Topic : t # topic[g] => stray'[t] = stray[t]
    BY <1>1 DEF Send, TypeOK
  <1>5. /\ topic[g] \in topics => stray'[topic[g]] = stray[topic[g]]
        /\ topic[g] \notin topics => stray'[topic[g]] = stray[topic[g]] + 1
    BY <1>1 DEF Send, TypeOK
  <1>6. topic[g] \notin topics => g = "ticker" /\ stray[topic[g]] = 0
    BY <1>1 DEF StrayBounded
  <1>7. ASSUME NEW t \in Topic
        PROVE  /\ stray'[t] <= 1
               /\ t \in topics' => stray'[t] = 0
               /\ Ahead("ticker", t)' => stray'[t] = 0
               /\ Ahead("reader", t)' => t \in topics'
    <2>1. /\ stray[t] <= 1
          /\ t \in topics => stray[t] = 0
          /\ Ahead("ticker", t) => stray[t] = 0
          /\ Ahead("reader", t) => t \in topics
      BY DEF StrayBounded
    <2> QED
      BY <1>2, <1>3, <1>4, <1>5, <1>6, <2>1
  <1>8. \A h \in Goroutine :
          /\ pc'[h] = "idle" => todo'[h] = {}
          /\ pc'[h] \in {"built", "marked"} => topic'[h] \notin todo'[h]
    BY <1>2 DEF StrayBounded
  <1> QED
    BY <1>7, <1>8 DEF StrayBounded

(* The loops and the environment. *)
LEMMA StrayOther ==
  ASSUME TypeOK, StrayBounded,
         \/ \E t \in Topic : Change(t)
         \/ Client \/ Terminated \/ UNCHANGED vars
         \/ Subscribe \/ Unsubscribe \/ ReaderReturn
         \/ Tick \/ OtherWriteFails \/ TickerReturn
  PROVE  StrayBounded'
PROOF
  <1> USE DEF TypeOK, feed, client, marks, jobs, wire
  <1>1. ASSUME UNCHANGED <<topics, pc, todo, topic, stray>> PROVE StrayBounded'
    BY <1>1 DEF StrayBounded, Ahead
  <1>2. ASSUME NEW t \in Topic, Change(t) PROVE StrayBounded'
    BY <1>1, <1>2 DEF Change
  <1>3. CASE Client
    BY <1>1, <1>3 DEF Client, Disconnect, Ask
  <1>4. CASE Terminated \/ UNCHANGED vars
    BY <1>1, <1>4 DEF Terminated, vars
  <1>5. CASE Subscribe
    <2>1. Head(inbox).list \in SUBSET Topic
      <3>1. inbox \in Seq(Request) /\ inbox # <<>>
        BY <1>5 DEF Subscribe, Receive
      <3>2. Head(inbox) \in Request
        BY <3>1, HeadTailProperties
      <3> QED
        BY <3>2 DEF Request
    <2> QED
      BY <1>5, <2>1 DEF Subscribe, Receive, StrayBounded, Ahead
  <1>6. CASE Unsubscribe
    BY <1>6 DEF Unsubscribe, Receive, StrayBounded, Ahead
  <1>7. CASE ReaderReturn
    BY <1>7 DEF ReaderReturn, StrayBounded, Ahead
  <1>8. CASE Tick
    BY <1>8 DEF Tick, StrayBounded, Ahead
  <1>9. CASE OtherWriteFails
    BY <1>1, <1>9 DEF OtherWriteFails
  <1>10. CASE TickerReturn
    BY <1>10 DEF TickerReturn, StrayBounded, Ahead
  <1> QED
    BY <1>2, <1>3, <1>4, <1>5, <1>6, <1>7, <1>8, <1>9, <1>10

(* The bound is kept by every step. *)
LEMMA StrayInvariance == Spec => []StrayBounded
PROOF
  <1>1. Init => StrayBounded
    BY DEF Init, StrayBounded, Ahead
  <1>2. TypeOK /\ StrayBounded /\ [Next]_vars => StrayBounded'
    BY AheadStep, StraySend, StrayOther DEF Next, Reader, Ticker, Stream
  <1> QED
    BY <1>1, <1>2, TypeCorrect, PTL DEF Spec

(* At most one event of a topic is written after it was unsubscribed. *)
THEOREM StraysCorrect == Spec => []AtMostOneStray
PROOF
  <1>1. StrayBounded => AtMostOneStray
    BY DEF StrayBounded, AtMostOneStray
  <1> QED
    BY <1>1, StrayInvariance, PTL
-----------------------------------------------------------------------------
(* One topic's part of the connection is a LiveChannel. *)

(* A goroutine before or inside its step through the list. *)
TakenBy(h, t) == pc[h] = "built" /\ topic[h] = t

(* Nothing a channel shows of a topic changes with the rest of the state. *)
LEMMA ChannelFrame ==
  ASSUME NEW t \in Topic,
         data'[t] = data[t], hashByTopic'[t] = hashByTopic[t], seqByTopic'[t] = seqByTopic[t],
         sent'[t] = sent[t], writable' = writable,
         t \in topics' <=> t \in topics,
         t \in topics \/ (Ahead("ticker", t)' <=> Ahead("ticker", t)),
         \A h \in Goroutine :
           /\ TakenBy(h, t)' <=> TakenBy(h, t)
           /\ Holds(h, t)' <=> Holds(h, t)
           /\ TakenBy(h, t) \/ Holds(h, t) => payload'[h] = payload[h] /\ seq'[h] = seq[h]
  PROVE  UNCHANGED Channel(t)!vars
PROOF
  <1>1. ListedAs(t)' = ListedAs(t)
    BY DEF ListedAs
  <1>2. Taken(t)' = Taken(t)
    BY DEF Taken, TakenBy
  <1>3. InFlight(t)' = InFlight(t)
    BY DEF InFlight, Held
  <1> QED
    BY <1>1, <1>2, <1>3 DEF Channel!vars, Channel!source, Channel!marks

(* The environment and the two loops: data change, the topic is joined or
   left, the connection breaks; all else is invisible. *)
LEMMA LoopsRefine ==
  ASSUME TypeOK, StrayBounded, NEW t \in Topic,
         \/ \E u \in Topic : Change(u)
         \/ Client \/ Terminated \/ UNCHANGED vars
         \/ Subscribe \/ Unsubscribe \/ ReaderReturn
         \/ Tick \/ OtherWriteFails \/ TickerReturn
  PROVE  [Channel(t)!Next]_(Channel(t)!vars)
PROOF
  <1> USE DEF TypeOK, feed, client, marks, jobs, wire, Ahead, TakenBy, Holds
  <1>1. ASSUME UNCHANGED <<marks, jobs, topics, sent, writable>>, data'[t] = data[t]
        PROVE  UNCHANGED Channel(t)!vars
    BY <1>1, ChannelFrame
  <1>2. ASSUME NEW u \in Topic, Change(u) PROVE [Channel(t)!Next]_(Channel(t)!vars)
    <2>1. CASE u = t
      <3>1. data'[t] \in Version /\ UNCHANGED <<marks, jobs, topics, sent, writable>>
        BY <1>2, <2>1 DEF Change
      <3>2. ListedAs(t)' = ListedAs(t) /\ Taken(t)' = Taken(t) /\ InFlight(t)' = InFlight(t)
        BY <3>1 DEF ListedAs, Taken, InFlight, Held
      <3>3. Channel(t)!Change
        BY <3>1, <3>2 DEF Channel!Change, Channel!marks
      <3> QED
        BY <3>3 DEF Channel!Next
    <2>2. CASE u # t
      BY <1>1, <1>2, <2>2 DEF Change
    <2> QED
      BY <2>1, <2>2
  <1>3. CASE Client
    BY <1>1, <1>3 DEF Client, Disconnect, Ask
  <1>4. CASE Terminated \/ UNCHANGED vars
    BY <1>1, <1>4 DEF Terminated, vars
  <1>6. CASE Subscribe
    <2>1. /\ UNCHANGED <<data, topic, payload, seq, sent, writable, marks>>
          /\ pc["reader"] = "idle" /\ pc' = [pc EXCEPT !["reader"] = "stream"]
          /\ todo' = [todo EXCEPT !["reader"] = Head(inbox).list]
          /\ topics' = topics \cup Head(inbox).list
      BY <1>6 DEF Subscribe, Receive
    <2>2. \A h \in Goroutine : (TakenBy(h, t)' <=> TakenBy(h, t)) /\ (Holds(h, t)' <=> Holds(h, t))
      BY <2>1
    <2>3. Ahead("ticker", t)' <=> Ahead("ticker", t)
      BY <2>1
    <2>4. CASE t \in topics'
      <3>1. ListedAs(t)' = "yes"
        BY <2>4 DEF ListedAs
      <3>2. Taken(t)' = Taken(t) /\ InFlight(t)' = InFlight(t)
        BY <2>1, <2>2 DEF Taken, InFlight, Held
      <3>3. Channel(t)!Subscribe
        BY <2>1, <3>1, <3>2 DEF Channel!Subscribe, Channel!source, Channel!marks
      <3> QED
        BY <3>3 DEF Channel!Next
    <2>5. CASE t \notin topics'
      <3>1. t \notin topics
        BY <2>1, <2>5
      <3> QED
        BY <2>1, <2>2, <2>3, <2>5, <3>1, ChannelFrame
    <2> QED
      BY <2>4, <2>5
  <1>7. CASE Unsubscribe
    <2>1. /\ UNCHANGED <<data, topic, payload, seq, sent, writable, marks, todo, pc>>
          /\ topics' = topics \ Head(inbox).list
      BY <1>7 DEF Unsubscribe, Receive
    <2>2. CASE t \in topics /\ t \notin topics'
      <3>1. ListedAs(t) = "yes" /\ ListedAs(t)' \in {"once", "no"}
        BY <2>2 DEF ListedAs
      <3>2. Taken(t)' = Taken(t) /\ InFlight(t)' = InFlight(t)
        BY <2>1 DEF Taken, InFlight, Held
      <3>3. Channel(t)!Unsubscribe
        BY <2>1, <3>1, <3>2 DEF Channel!Unsubscribe, Channel!source, Channel!marks
      <3> QED
        BY <3>3 DEF Channel!Next
    <2>3. CASE t \in topics <=> t \in topics'
      BY <2>1, <2>3, ChannelFrame
    <2> QED
      BY <2>1, <2>2, <2>3
  <1>8. ASSUME ReaderReturn \/ TickerReturn PROVE UNCHANGED Channel(t)!vars
    <2>1. /\ UNCHANGED <<data, topic, payload, seq, sent, writable, marks, todo, topics>>
          /\ \A h \in Goroutine : /\ pc'[h] = "built" <=> pc[h] = "built"
                                  /\ pc'[h] = "marked" <=> pc[h] = "marked"
      BY <1>8 DEF ReaderReturn, TickerReturn
    <2> QED
      BY <2>1, ChannelFrame
  <1>9. CASE Tick
    <2>1. /\ UNCHANGED <<data, topic, payload, seq, sent, writable, marks, topics>>
          /\ pc["ticker"] = "idle" /\ pc' = [pc EXCEPT !["ticker"] = "stream"]
          /\ todo' = [todo EXCEPT !["ticker"] = topics]
      BY <1>9 DEF Tick
    <2>2. t \notin topics => ~Ahead("ticker", t) /\ ~Ahead("ticker", t)'
      BY <2>1 DEF StrayBounded
    <2>3. \A h \in Goroutine : (TakenBy(h, t)' <=> TakenBy(h, t)) /\ (Holds(h, t)' <=> Holds(h, t))
      BY <2>1
    <2> QED
      BY <2>1, <2>2, <2>3, ChannelFrame
  <1>10. CASE OtherWriteFails
    <2>1. /\ UNCHANGED <<data, jobs, sent, marks, topics>> /\ writable' = FALSE
      BY <1>10 DEF OtherWriteFails
    <2>2. ListedAs(t)' = ListedAs(t) /\ Taken(t)' = Taken(t) /\ InFlight(t)' = InFlight(t)
      BY <2>1 DEF ListedAs, Taken, InFlight, Held
    <2>3. Channel(t)!Break
      BY <2>1, <2>2 DEF Channel!Break, Channel!source, Channel!marks
    <2> QED
      BY <2>3 DEF Channel!Next
  <1> QED
    BY <1>2, <1>3, <1>4, <1>6, <1>7, <1>8, <1>9, <1>10

(* A step of a goroutine on its way through the list leaves the other one's
   hands alone. *)
LEMMA OtherHands ==
  ASSUME NEW g \in Goroutine, NEW t \in Topic,
         \A h \in Goroutine \ {g} :
           /\ pc'[h] = pc[h] /\ todo'[h] = todo[h]
           /\ topic'[h] = topic[h] /\ payload'[h] = payload[h] /\ seq'[h] = seq[h]
  PROVE  \A h \in Goroutine \ {g} :
           /\ TakenBy(h, t)' <=> TakenBy(h, t)
           /\ Holds(h, t)' <=> Holds(h, t)
           /\ Ahead(h, t)' <=> Ahead(h, t)
           /\ Held(h)' = Held(h)
  BY DEF TakenBy, Holds, Ahead, Held

(* Only these steps of a goroutine can be seen of a topic: they concern it. *)
LEMMA ListRefines ==
  ASSUME TypeOK, StrayBounded, NEW t \in Topic, NEW g \in Goroutine,
         \/ \E u \in Topic : Build(g, u) \/ SnapshotFails(g, u)
         \/ EndOfList(g)
  PROVE  [Channel(t)!Next]_(Channel(t)!vars)
PROOF
  <1> USE DEF TypeOK, feed, client, marks, wire
  <1>1. ASSUME NEW u \in Topic, Build(g, u) PROVE [Channel(t)!Next]_(Channel(t)!vars)
    <2>1. \A h \in Goroutine \ {g} : /\ TakenBy(h, t)' <=> TakenBy(h, t)
                                     /\ Holds(h, t)' <=> Holds(h, t)
                                     /\ Ahead(h, t)' <=> Ahead(h, t)
                                     /\ Held(h)' = Held(h)
      BY <1>1, OtherHands DEF Build
    <2>2. /\ ~TakenBy(g, t) /\ ~Holds(g, t) /\ ~Holds(g, t)'
          /\ TakenBy(g, t)' <=> u = t
          /\ Ahead(g, t)' <=> Ahead(g, t)
          /\ payload'[g] = data[u]
      BY <1>1 DEF Build, TakenBy, Holds, Ahead
    <2>3. UNCHANGED <<data, topics, marks, sent, writable>>
      BY <1>1 DEF Build
    <2>4. InFlight(t)' = InFlight(t)
      BY <2>1, <2>2 DEF InFlight
    <2>5. ListedAs(t)' = ListedAs(t)
      BY <2>1, <2>2, <2>3 DEF ListedAs
    <2>0. /\ Taken(t) = {payload[h] : h \in {k \in Goroutine : TakenBy(k, t)}}
          /\ Taken(t)' = {payload'[h] : h \in {k \in Goroutine : TakenBy(k, t)'}}
          /\ \A h \in Goroutine \ {g} : payload'[h] = payload[h]
      BY <1>1 DEF Taken, TakenBy, Build
    <2>6. CASE u = t
      <3>1. Ahead(g, t)
        BY <1>1, <2>6 DEF Build, Ahead
      <3>2. ListedAs(t) # "no"
        BY <3>1 DEF ListedAs, StrayBounded
      <3>3. \A h \in Goroutine : TakenBy(h, t)' <=> TakenBy(h, t) \/ h = g
        BY <2>1, <2>2, <2>6
      <3>4. Taken(t)' = Taken(t) \cup {data[t]}
        <4>1. payload'[g] = data[t] /\ TakenBy(g, t)' /\ ~TakenBy(g, t)
          BY <2>2, <2>6
        <4> HIDE DEF TypeOK
        <4>2. \A x : x \in Taken(t)' <=> \E h \in Goroutine : TakenBy(h, t)' /\ x = payload'[h]
          BY <2>0
        <4>3. \A x : x \in Taken(t) <=> \E h \in Goroutine : TakenBy(h, t) /\ x = payload[h]
          BY <2>0
        <4>4. \A x : x \in Taken(t)' <=> x \in Taken(t) \/ x = data[t]
          BY <2>0, <3>3, <4>1, <4>2, <4>3
        <4> QED
          BY <4>4
      <3>5. Channel(t)!Take
        BY <2>3, <2>4, <2>5, <3>2, <3>4 DEF Channel!Take, Channel!marks
      <3> QED
        BY <3>5 DEF Channel!Next
    <2>7. CASE u # t
      <3>1. \A h \in Goroutine : TakenBy(h, t)' <=> TakenBy(h, t)
        BY <2>1, <2>2, <2>7
      <3>2. Taken(t)' = Taken(t)
        <4>1. \A h \in Goroutine : TakenBy(h, t) => payload'[h] = payload[h]
          BY <2>0, <2>2
        <4> HIDE DEF TypeOK
        <4>2. \A x : x \in Taken(t)' <=> \E h \in Goroutine : TakenBy(h, t)' /\ x = payload'[h]
          BY <2>0
        <4>3. \A x : x \in Taken(t) <=> \E h \in Goroutine : TakenBy(h, t) /\ x = payload[h]
          BY <2>0
        <4>4. \A x : x \in Taken(t)' <=> x \in Taken(t)
          BY <3>1, <4>1, <4>2, <4>3
        <4> QED
          BY <4>4
      <3> QED
        BY <2>3, <2>4, <2>5, <3>2 DEF Channel!vars, Channel!source, Channel!marks
    <2> QED
      BY <2>6, <2>7
  <1>2. ASSUME NEW u \in Topic, SnapshotFails(g, u) PROVE [Channel(t)!Next]_(Channel(t)!vars)
    <2>1. /\ UNCHANGED <<data, topics, marks, sent, writable, pc, topic, payload, seq>>
          /\ pc[g] = "stream" /\ todo' = [todo EXCEPT ![g] = @ \ {u}]
      BY <1>2 DEF SnapshotFails
    <2>2. Taken(t)' = Taken(t) /\ InFlight(t)' = InFlight(t)
      BY <2>1 DEF Taken, InFlight, Held, Holds
    <2>3. Ahead("ticker", t)' => Ahead("ticker", t)
      BY <2>1 DEF Ahead
    <2>4. ListedAs(t)' = ListedAs(t) \/ (ListedAs(t) = "once" /\ ListedAs(t)' = "no")
      BY <2>1, <2>3 DEF ListedAs
    <2>5. Channel(t)!Fail
      BY <2>1, <2>2, <2>4 DEF Channel!Fail, Channel!Pass, Channel!source, Channel!marks
    <2> QED
      BY <2>5 DEF Channel!Next
  <1>3. CASE EndOfList(g)
    <2>1. /\ UNCHANGED <<data, topics, marks, sent, writable, todo, topic, payload, seq>>
          /\ pc[g] = "stream" /\ pc' = [pc EXCEPT ![g] = "idle"]
      BY <1>3 DEF EndOfList
    <2>2. \A h \in Goroutine : /\ TakenBy(h, t)' <=> TakenBy(h, t)
                               /\ Holds(h, t)' <=> Holds(h, t)
                               /\ Ahead(h, t)' <=> Ahead(h, t)
      BY <2>1 DEF TakenBy, Holds, Ahead
    <2> QED
      BY <2>1, <2>2, ChannelFrame
  <1> QED
    BY <1>1, <1>2, <1>3

(* What a goroutine's leaving a topic does to the topic's channel. *)
LEMMA LeaveHands ==
  ASSUME TypeOK, StrayBounded, NEW t \in Topic, NEW g \in Goroutine,
         pc[g] \in {"built", "marked"}, Leave(g), todo' = todo, topics' = topics
  PROVE  /\ \A h \in Goroutine :
              /\ TakenBy(h, t)' <=> TakenBy(h, t) /\ h # g
              /\ Holds(h, t)' <=> Holds(h, t) /\ h # g
              /\ h # g => Held(h)' = Held(h) /\ payload'[h] = payload[h]
         /\ topic[g] # t => ListedAs(t)' = ListedAs(t)
         /\ topic[g] = t => /\ ListedAs(t) # "no"
                            /\ ListedAs(t) = "yes" => ListedAs(t)' = "yes"
                            /\ g = "reader" => ListedAs(t) = "yes"
                            /\ ListedAs(t) = "once" =>
                                 g = "ticker" /\ ListedAs(t)' = "no"
PROOF
  <1>1. /\ pc'[g] = "stream" /\ todo'[g] = todo[g]
        /\ \A h \in Goroutine \ {g} :
             /\ pc'[h] = pc[h] /\ topic'[h] = topic[h] /\ todo'[h] = todo[h]
             /\ payload'[h] = payload[h] /\ seq'[h] = seq[h]
    BY LeaveType
  <1>2. \A h \in Goroutine :
          /\ TakenBy(h, t)' <=> TakenBy(h, t) /\ h # g
          /\ Holds(h, t)' <=> Holds(h, t) /\ h # g
          /\ h # g => Held(h)' = Held(h) /\ payload'[h] = payload[h]
    BY <1>1 DEF TakenBy, Holds, Held
  <1>3. ASSUME topic[g] # t PROVE ListedAs(t)' = ListedAs(t)
    <2>1. Ahead("ticker", t)' <=> Ahead("ticker", t)
      BY <1>1, <1>3 DEF Ahead
    <2> QED
      BY <2>1 DEF ListedAs
  <1>4. ASSUME topic[g] = t
        PROVE  /\ Ahead(g, t) /\ ~Ahead(g, t)'
               /\ g = "reader" => t \in topics
    BY <1>1, <1>4 DEF Ahead, StrayBounded
  <1>5. t \in topics <=> t \in topics'
    OBVIOUS
  <1> QED
    BY <1>2, <1>3, <1>4, <1>5 DEF ListedAs

(* An image loses at most the value of the element taken away. *)
LEMMA ImageWithout ==
  ASSUME NEW S, NEW f, NEW g \in S
  PROVE  {f[h] : h \in S \ {g}} \in {{f[h] : h \in S}, {f[h] : h \in S} \ {f[g]}}
PROOF
  <1>1. CASE \E k \in S \ {g} : f[k] = f[g]
    BY <1>1
  <1>2. CASE ~\E k \in S \ {g} : f[k] = f[g]
    BY <1>2
  <1> QED
    BY <1>1, <1>2

(* A version that was read and is compared. *)
LEMMA TakenCompared ==
  ASSUME NEW t \in Topic, NEW g \in Goroutine, TakenBy(g, t),
         \A h \in Goroutine : TakenBy(h, t)' <=> TakenBy(h, t) /\ h # g,
         \A h \in Goroutine \ {g} : payload'[h] = payload[h]
  PROVE  /\ payload[g] \in Taken(t)
         /\ Taken(t)' \in {Taken(t), Taken(t) \ {payload[g]}}
PROOF
  <1> DEFINE S == {h \in Goroutine : TakenBy(h, t)}
  <1>1. g \in S /\ Taken(t) = {payload[h] : h \in S}
    BY DEF Taken, TakenBy
  <1>2. Taken(t)' = {payload'[h] : h \in {k \in Goroutine : TakenBy(k, t)'}}
    BY DEF Taken, TakenBy
  <1>3. {k \in Goroutine : TakenBy(k, t)'} = S \ {g}
    OBVIOUS
  <1>4. \A h \in S \ {g} : payload'[h] = payload[h]
    OBVIOUS
  <1> HIDE DEF S
  <1>5. Taken(t)' = {payload[h] : h \in S \ {g}}
    BY <1>2, <1>3, <1>4
  <1>6. {payload[h] : h \in S \ {g}} \in {Taken(t), Taken(t) \ {payload[g]}}
    BY <1>1, ImageWithout
  <1>7. payload[g] \in Taken(t)
    BY <1>1
  <1> QED
    BY <1>5, <1>6, <1>7

(* markSnapshot: the version is skipped, or it gets the next number. *)
LEMMA MarkRefines ==
  ASSUME TypeOK, StrayBounded, NEW t \in Topic, NEW g \in Goroutine, Unchanged(g) \/ Mark(g)
  PROVE  [Channel(t)!Next]_(Channel(t)!vars)
PROOF
  <1> USE DEF TypeOK, feed, client, marks, wire
  <1>1. CASE Unchanged(g)
    <2>1. /\ UNCHANGED <<data, topics, marks, sent, writable, todo>>
          /\ pc[g] = "built" /\ Leave(g) /\ hashByTopic[topic[g]] = payload[g]
      BY <1>1 DEF Unchanged
    <2>2. /\ \A h \in Goroutine :
               /\ TakenBy(h, t)' <=> TakenBy(h, t) /\ h # g
               /\ Holds(h, t)' <=> Holds(h, t) /\ h # g
               /\ h # g => Held(h)' = Held(h) /\ payload'[h] = payload[h]
          /\ topic[g] # t => ListedAs(t)' = ListedAs(t)
          /\ topic[g] = t => /\ ListedAs(t) \in {"yes", "once"}
                             /\ ListedAs(t) = "yes" => ListedAs(t)' = "yes"
                             /\ ListedAs(t) = "once" => ListedAs(t)' = "no"
      BY <2>1, LeaveHands DEF ListedAs
    <2>3. ~Holds(g, t)
      BY <2>1 DEF Holds
    <2>4. InFlight(t)' = InFlight(t)
      BY <2>2, <2>3 DEF InFlight
    <2>5. CASE topic[g] = t
      <3>1. TakenBy(g, t)
        BY <2>1, <2>5 DEF TakenBy
      <3>2. payload[g] \in Taken(t) /\ Taken(t)' \in {Taken(t), Taken(t) \ {payload[g]}}
        BY <2>2, <3>1, TakenCompared
      <3>3. ListedAs(t)' = ListedAs(t) \/ (ListedAs(t) = "once" /\ ListedAs(t)' = "no")
        BY <2>2, <2>5
      <3>4. Channel(t)!Skip(payload[g])
        BY <2>1, <2>4, <2>5, <3>2, <3>3
           DEF Channel!Skip, Channel!Compared, Channel!Pass, Channel!marks
      <3> QED
        BY <3>2, <3>4 DEF Channel!Next
    <2>6. CASE topic[g] # t
      <3>1. ~TakenBy(g, t)
        BY <2>6 DEF TakenBy
      <3>2. Taken(t)' = Taken(t)
        BY <2>2, <3>1 DEF Taken, TakenBy
      <3> QED
        BY <2>1, <2>2, <2>4, <2>6, <3>2 DEF Channel!vars, Channel!source, Channel!marks
    <2> QED
      BY <2>5, <2>6
  <1>2. CASE Mark(g)
    <2>1. /\ UNCHANGED <<data, topics, sent, writable, todo, topic, payload>>
          /\ pc[g] = "built" /\ hashByTopic[topic[g]] # payload[g]
          /\ hashByTopic' = [hashByTopic EXCEPT ![topic[g]] = payload[g]]
          /\ seqByTopic' = [seqByTopic EXCEPT ![topic[g]] = @ + 1]
          /\ seq' = [seq EXCEPT ![g] = seqByTopic[topic[g]] + 1]
          /\ pc' = [pc EXCEPT ![g] = "marked"]
      BY <1>2 DEF Mark
    <2>2. \A h \in Goroutine \ {g} : /\ TakenBy(h, t)' <=> TakenBy(h, t)
                                     /\ Holds(h, t)' <=> Holds(h, t)
                                     /\ Ahead(h, t)' <=> Ahead(h, t)
                                     /\ Held(h)' = Held(h)
      BY <2>1, OtherHands
    <2>3. Ahead(g, t)' <=> Ahead(g, t)
      BY <2>1 DEF Ahead
    <2>4. ListedAs(t)' = ListedAs(t)
      BY <2>1, <2>2, <2>3 DEF ListedAs
    <2>5. ~TakenBy(g, t)' /\ ~Holds(g, t) /\ (Holds(g, t)' <=> topic[g] = t)
      BY <2>1 DEF TakenBy, Holds
    <2>6. CASE topic[g] = t
      <3>1. TakenBy(g, t)
        BY <2>1, <2>6 DEF TakenBy
      <3>2. payload[g] \in Taken(t) /\ Taken(t)' \in {Taken(t), Taken(t) \ {payload[g]}}
        <4>1. \A h \in Goroutine : TakenBy(h, t)' <=> TakenBy(h, t) /\ h # g
          BY <2>2, <2>5
        <4> QED
          BY <2>1, <3>1, <4>1, TakenCompared
      <3>3. hashByTopic'[t] = payload[g] /\ seqByTopic'[t] = seqByTopic[t] + 1
        BY <2>1, <2>6
      <3>4. Held(g)' = [seq |-> seqByTopic[t] + 1, ver |-> payload[g]]
        BY <2>1, <2>6 DEF Held
      <3>5. InFlight(t)' = InFlight(t) \cup {Held(g)'}
        <4>1. {h \in Goroutine : Holds(h, t)'} = {h \in Goroutine : Holds(h, t)} \cup {g}
          BY <2>2, <2>5, <2>6
        <4>2. \A h \in {k \in Goroutine : Holds(k, t)} : Held(h)' = Held(h)
          BY <2>2, <2>5
        <4> QED
          BY <4>1, <4>2 DEF InFlight
      <3>6. \A d, e \in InFlight(t) : d = e
        BY <2>5 DEF InFlight
      <3>7. Channel(t)!Number(payload[g])
        BY <2>1, <2>4, <2>6, <3>2, <3>3, <3>4, <3>5, <3>6 DEF Channel!Number, Channel!Compared
      <3> QED
        BY <3>2, <3>7 DEF Channel!Next
    <2>7. CASE topic[g] # t
      <3>1. topic[g] \in Topic
        BY <2>1
      <3>2. hashByTopic'[t] = hashByTopic[t] /\ seqByTopic'[t] = seqByTopic[t]
        BY <2>1, <2>7, <3>1
      <3>3. ~TakenBy(g, t)
        BY <2>7 DEF TakenBy
      <3>4. Taken(t)' = Taken(t)
        BY <2>1, <2>2, <2>5, <3>3 DEF Taken, TakenBy
      <3>5. InFlight(t)' = InFlight(t)
        BY <2>2, <2>5, <2>7 DEF InFlight
      <3> QED
        BY <2>1, <2>4, <3>2, <3>4, <3>5 DEF Channel!vars, Channel!source, Channel!marks
    <2> QED
      BY <2>6, <2>7
  <1> QED
    BY <1>1, <1>2

(* sendJSON: the event held is delivered, or lost with the connection. *)
LEMMA SendRefines ==
  ASSUME TypeOK, StrayBounded, SeqsAreUnique, NEW t \in Topic, NEW g \in Goroutine,
         Send(g) \/ SendFails(g)
  PROVE  [Channel(t)!Next]_(Channel(t)!vars)
PROOF
  <1> USE DEF TypeOK, feed, client, marks, wire
  <1>1. /\ UNCHANGED <<data, topics, todo, hashByTopic, seqByTopic>>
        /\ pc[g] = "marked" /\ Leave(g)
    BY DEF Send, SendFails
  <1>2. /\ \A h \in Goroutine :
             /\ TakenBy(h, t)' <=> TakenBy(h, t) /\ h # g
             /\ Holds(h, t)' <=> Holds(h, t) /\ h # g
             /\ h # g => Held(h)' = Held(h) /\ payload'[h] = payload[h]
        /\ topic[g] # t => ListedAs(t)' = ListedAs(t)
        /\ topic[g] = t => /\ ListedAs(t) \in {"yes", "once"}
                           /\ ListedAs(t) = "yes" => ListedAs(t)' = "yes"
                           /\ ListedAs(t) = "once" => ListedAs(t)' = "no"
    BY <1>1, LeaveHands DEF ListedAs
  <1>3. ~TakenBy(g, t)
    BY <1>1 DEF TakenBy
  <1>4. Taken(t)' = Taken(t)
    BY <1>2, <1>3 DEF Taken, TakenBy
  <1>5. CASE topic[g] = t
    <2>1. Holds(g, t)
      BY <1>1, <1>5 DEF Holds
    <2>2. \A h \in Goroutine \ {g} : Holds(h, t) => Held(h) # Held(g)
      <3>1. \A h \in Goroutine \ {g} : Holds(h, t) => seq[h] # seq[g]
        BY <2>1 DEF SeqsAreUnique
      <3> QED
        BY <3>1 DEF Held
    <2>3. Held(g) \in InFlight(t)
      BY <2>1 DEF InFlight
    <2>4. InFlight(t)' = InFlight(t) \ {Held(g)}
      <3>1. {h \in Goroutine : Holds(h, t)'} = {h \in Goroutine : Holds(h, t)} \ {g}
        BY <1>2
      <3>2. \A h \in {k \in Goroutine : Holds(k, t)} \ {g} : Held(h)' = Held(h) /\ Held(h) # Held(g)
        BY <1>2, <2>2
      <3> QED
        BY <3>1, <3>2 DEF InFlight
    <2>5. CASE Send(g)
      <3>1. writable /\ UNCHANGED writable /\ sent'[t] = Append(sent[t], Held(g))
        BY <1>5, <2>5 DEF Send
      <3>2. ListedAs(t)' = IF ListedAs(t) = "once" THEN "no" ELSE ListedAs(t)
        BY <1>2, <1>5
      <3>3. Channel(t)!Deliver(Held(g))
        BY <1>1, <1>2, <1>4, <1>5, <2>3, <2>4, <3>1, <3>2
           DEF Channel!Deliver, Channel!source, Channel!marks
      <3> QED
        BY <2>3, <3>3 DEF Channel!Next
    <2>6. CASE SendFails(g)
      <3>1. ~writable' /\ sent' = sent
        BY <2>6 DEF SendFails
      <3>2. ListedAs(t)' = ListedAs(t) \/ (ListedAs(t) = "once" /\ ListedAs(t)' = "no")
        BY <1>2, <1>5
      <3>3. Channel(t)!Lose(Held(g))
        BY <1>1, <1>4, <2>3, <2>4, <3>1, <3>2
           DEF Channel!Lose, Channel!Pass, Channel!source, Channel!marks
      <3> QED
        BY <2>3, <3>3 DEF Channel!Next
    <2> QED
      BY <2>5, <2>6
  <1>6. CASE topic[g] # t
    <2>1. ~Holds(g, t)
      BY <1>6 DEF Holds
    <2>2. InFlight(t)' = InFlight(t)
      BY <1>2, <2>1 DEF InFlight
    <2>3. topic[g] \in Topic
      BY <1>1
    <2>4. CASE Send(g)
      <3>1. UNCHANGED writable /\ sent'[t] = sent[t]
        BY <1>6, <2>3, <2>4 DEF Send
      <3> QED
        BY <1>1, <1>2, <1>4, <1>6, <2>2, <3>1 DEF Channel!vars, Channel!source, Channel!marks
    <2>5. CASE SendFails(g)
      <3>1. ~writable' /\ sent' = sent
        BY <2>5 DEF SendFails
      <3>2. Channel(t)!Break
        BY <1>1, <1>2, <1>4, <1>6, <2>2, <3>1 DEF Channel!Break, Channel!source, Channel!marks
      <3> QED
        BY <3>2 DEF Channel!Next
    <2> QED
      BY <2>4, <2>5
  <1> QED
    BY <1>5, <1>6

(* Every step is, for each topic, a step of its channel or invisible. *)
LEMMA ChannelStep ==
  TypeOK /\ StrayBounded /\ SeqsAreUnique /\ [Next]_vars =>
    \A t \in Topic : [Channel(t)!Next]_(Channel(t)!vars)
  BY LoopsRefine, ListRefines, MarkRefines, SendRefines DEF Next, Reader, Ticker, Stream

(* At first nothing is listed, read or numbered. *)
LEMMA ChannelInit == ASSUME Init, NEW t \in Topic PROVE Channel(t)!Init
  BY DEF Init, Channel!Init, ListedAs, Taken, InFlight, Holds, Ahead

(* The reader and the ticker together keep, topic by topic, the promise of
   LiveChannel: for any topics, payloads and messages of the client, over
   failed snapshots and writes (data_handler_v3.go, lines 1147-1335). *)
THEOREM ChannelCorrect == Spec => ImplementsLiveChannel
PROOF
  <1>1. Init => \A t \in Topic : Channel(t)!Init
    BY ChannelInit
  <1> QED
    BY <1>1, ChannelStep, TypeCorrect, StrayInvariance, UniqueCorrect, PTL
       DEF Spec, ImplementsLiveChannel

(* The same, channel by channel: each is a behaviour of LiveChannel. *)
THEOREM EachChannelCorrect == ASSUME NEW t \in Topic PROVE Spec => Channel(t)!Spec
PROOF
  <1>1. Init => Channel(t)!Init
    BY ChannelInit
  <1>2. TypeOK /\ StrayBounded /\ SeqsAreUnique /\ [Next]_vars =>
          [Channel(t)!Next]_(Channel(t)!vars)
    BY ChannelStep
  <1> QED
    BY <1>1, <1>2, TypeCorrect, StrayInvariance, UniqueCorrect, PTL DEF Spec, Channel!Spec

-----------------------------------------------------------------------------
(* What the numbers of a LiveChannel tell *)

Numbers(S) == {e.seq : e \in S}

(* Of the events numbered before one that is known at most one is under way;
   as long as writes succeed every number is on a known event. *)
GapBounded(t) ==
  /\ Taken(t) \subseteq Version /\ data[t] \in Version /\ seqByTopic[t] \in Nat
  /\ sent[t] \in Seq(LiveEvent) /\ InFlight(t) \subseteq LiveEvent
  /\ \A e \in InFlight(t) \cup ToSet(sent[t]) :
       /\ e.seq <= seqByTopic[t]
       /\ \A c, d \in InFlight(t) : c.seq < e.seq /\ d.seq < e.seq => c = d
  /\ writable => 1..seqByTopic[t] \subseteq Numbers(InFlight(t) \cup ToSet(sent[t]))

(* Every step of a channel keeps this. *)
LEMMA GapStep ==
  ASSUME NEW t \in Topic, GapBounded(t), [Channel(t)!Next]_(Channel(t)!vars)
  PROVE  GapBounded(t)'
PROOF
  <1> DEFINE Known == InFlight(t) \cup ToSet(sent[t])
             n     == seqByTopic[t]
  <1> USE DEF Channel!source, Channel!marks
  <1>1. ASSUME InFlight(t)' \subseteq InFlight(t), sent'[t] = sent[t], seqByTopic'[t] = n,
               Taken(t)' \subseteq Version, data'[t] \in Version,
               writable' => writable /\ InFlight(t)' = InFlight(t)
        PROVE  GapBounded(t)'
    BY <1>1 DEF GapBounded
  <1>2. CASE UNCHANGED Channel(t)!vars
    BY <1>1, <1>2 DEF Channel!vars, GapBounded
  <1>3. CASE \/ Channel(t)!Change \/ Channel(t)!Subscribe \/ Channel(t)!Unsubscribe
             \/ Channel(t)!Fail \/ Channel(t)!Take \/ Channel(t)!Break
    BY <1>1, <1>3 DEF GapBounded, Channel!Change, Channel!Subscribe, Channel!Unsubscribe,
                      Channel!Fail, Channel!Take, Channel!Break
  <1>4. ASSUME NEW v \in Taken(t), Channel(t)!Skip(v) PROVE GapBounded(t)'
    BY <1>1, <1>4 DEF GapBounded, Channel!Skip, Channel!Compared
  <1>5. ASSUME NEW e \in InFlight(t), Channel(t)!Lose(e) PROVE GapBounded(t)'
    BY <1>1, <1>5 DEF GapBounded, Channel!Lose
  <1>6. ASSUME NEW v \in Taken(t), Channel(t)!Number(v) PROVE GapBounded(t)'
    <2> DEFINE new == [seq |-> n + 1, ver |-> v]
    <2>1. /\ n \in Nat /\ v \in Version /\ sent[t] \in Seq(LiveEvent) /\ InFlight(t) \subseteq LiveEvent
          /\ seqByTopic'[t] = n + 1 /\ InFlight(t)' = InFlight(t) \cup {new}
          /\ Taken(t)' \subseteq Version /\ data'[t] \in Version /\ sent'[t] = sent[t]
          /\ \A c, d \in InFlight(t) : c = d
          /\ writable' <=> writable
      BY <1>6 DEF GapBounded, Channel!Number, Channel!Compared
    <2>2. new \in LiveEvent /\ new.seq = n + 1
      BY <2>1 DEF LiveEvent
    <2>3. \A e \in Known : e.seq \in Nat /\ e.seq <= n
      BY <2>1, ToSetType DEF GapBounded, LiveEvent
    <2>4. \A e \in Known : \A c, d \in InFlight(t) : c.seq < e.seq /\ d.seq < e.seq => c = d
      BY DEF GapBounded
    <2>5. writable => 1..n \subseteq Numbers(Known)
      BY DEF GapBounded
    <2>6. InFlight(t)' \cup ToSet(sent'[t]) = Known \cup {new}
      BY <2>1
    <2> HIDE DEF new, Known, n
    <2>7. writable => 1..(n + 1) \subseteq Numbers(Known \cup {new})
      BY <2>1, <2>2, <2>5 DEF Numbers
    <2>8. ASSUME NEW e \in Known \cup {new}, NEW c \in InFlight(t) \cup {new},
                 NEW d \in InFlight(t) \cup {new}, c.seq < e.seq, d.seq < e.seq
          PROVE  c = d
      <3>1. InFlight(t) \subseteq Known
        BY DEF Known
      <3>2. c # new /\ d # new
        BY <2>1, <2>2, <2>3, <2>8
      <3> QED
        BY <2>1, <2>8, <3>2
    <2>9. \A e \in Known \cup {new} : e.seq <= n + 1
      BY <2>1, <2>2, <2>3
    <2>10. \A e \in InFlight(t)' \cup ToSet(sent'[t]) :
             /\ e.seq <= seqByTopic'[t]
             /\ \A c, d \in InFlight(t)' : c.seq < e.seq /\ d.seq < e.seq => c = d
      BY <2>1, <2>6, <2>8, <2>9
    <2>11. InFlight(t)' \subseteq LiveEvent /\ seqByTopic'[t] \in Nat /\ sent'[t] \in Seq(LiveEvent)
      BY <2>1, <2>2
    <2>12. writable' => 1..seqByTopic'[t] \subseteq Numbers(InFlight(t)' \cup ToSet(sent'[t]))
      BY <2>1, <2>6, <2>7
    <2> QED
      BY <2>1, <2>10, <2>11, <2>12 DEF GapBounded
  <1>7. ASSUME NEW e \in InFlight(t), Channel(t)!Deliver(e) PROVE GapBounded(t)'
    <2>1. /\ sent[t] \in Seq(LiveEvent) /\ InFlight(t) \subseteq LiveEvent
          /\ seqByTopic'[t] = n /\ InFlight(t)' = InFlight(t) \ {e}
          /\ Taken(t)' = Taken(t) /\ data'[t] = data[t] /\ sent'[t] = Append(sent[t], e)
          /\ writable' <=> writable
      BY <1>7 DEF GapBounded, Channel!Deliver
    <2>2. sent'[t] \in Seq(LiveEvent) /\ ToSet(sent'[t]) = ToSet(sent[t]) \cup {e}
      BY <2>1, AppendProperties, AppendToSet
    <2>3. InFlight(t)' \cup ToSet(sent'[t]) = Known
      BY <2>1, <2>2
    <2> QED
      BY <2>1, <2>2, <2>3 DEF GapBounded
  <1> QED
    BY <1>2, <1>3, <1>4, <1>5, <1>6, <1>7 DEF Channel!Next

(* A channel's client misses at most one number below any it has. *)
LEMMA ChannelGaps == ASSUME NEW t \in Topic PROVE Channel(t)!Spec => []Channel(t)!OneBehind
PROOF
  <1>1. Channel(t)!Init => GapBounded(t)
    BY DEF Channel!Init, GapBounded, ToSet
  <1>2. GapBounded(t) /\ [Channel(t)!Next]_(Channel(t)!vars) => GapBounded(t)'
    BY GapStep
  <1>3. GapBounded(t) => Channel(t)!OneBehind
    <2> SUFFICES ASSUME GapBounded(t), writable, NEW i \in DOMAIN sent[t],
                        NEW m \in 1..(sent[t][i].seq - 1), NEW k \in 1..(sent[t][i].seq - 1),
                        Channel(t)!Missing(m), Channel(t)!Missing(k)
                 PROVE  m = k
      BY DEF Channel!OneBehind
    <2> DEFINE x == sent[t][i]
    <2>1. sent[t] \in Seq(LiveEvent) /\ seqByTopic[t] \in Nat
      BY DEF GapBounded
    <2>2. x \in ToSet(sent[t]) /\ x \in LiveEvent
      BY <2>1, ToSetType DEF ToSet
    <2>3. x.seq \in Nat /\ x.seq <= seqByTopic[t]
      BY <2>2 DEF GapBounded, LiveEvent
    <2>4. \A c, d \in InFlight(t) : c.seq < x.seq /\ d.seq < x.seq => c = d
      BY <2>2 DEF GapBounded
    <2>5. ASSUME NEW j \in 1..(x.seq - 1), Channel(t)!Missing(j)
          PROVE  \E e \in InFlight(t) : e.seq = j
      <3>1. j \in 1..seqByTopic[t]
        BY <2>1, <2>3
      <3>2. PICK e \in InFlight(t) \cup ToSet(sent[t]) : e.seq = j
        BY <3>1 DEF GapBounded, Numbers
      <3>3. e \notin ToSet(sent[t])
        BY <2>5, <3>2 DEF Channel!Missing, ToSet
      <3> QED
        BY <3>2, <3>3
    <2> HIDE DEF x
    <2>6. m \in 1..(x.seq - 1) /\ k \in 1..(x.seq - 1) /\ m < x.seq /\ k < x.seq
      BY <2>3 DEF x
    <2>7. PICK c \in InFlight(t) : c.seq = m
      BY <2>5, <2>6
    <2>8. PICK d \in InFlight(t) : d.seq = k
      BY <2>5, <2>6
    <2> QED
      BY <2>4, <2>6, <2>7, <2>8
  <1> QED
    BY <1>1, <1>2, <1>3, PTL DEF Channel!Spec


(* Of the numbers below one that arrived at most one has not, until a write
   fails, for every topic of the connection: a jump that LiveProvider.tsx
   takes for a gap (lines 81-92) is a lost connection's, or it is made by one
   event that was overtaken and still comes. *)
THEOREM OneBehindCorrect == ASSUME NEW t \in Topic PROVE Spec => []Channel(t)!OneBehind
  BY EachChannelCorrect, ChannelGaps, PTL

=============================================================================
