--------------------------- MODULE LiveClientProofs ---------------------------
(***************************************************************************)
(* The server streams what the browser shows, for any routes, sessions,    *)
(* data and any number of navigations, changes and lost connections.  The  *)
(* messages under way decide each topic as the last of them that names it  *)
(* does.                                                                   *)
(***************************************************************************)
EXTENDS LiveClient, SequenceTheorems, TLAPS

Message == [op : {"subscribe", "unsubscribe"}, topics : SUBSET Topics]
Version == 0..MaxVersion
Answers == [Keys -> Version \union {None, Asked}]
Cached == [Keys -> Version \union {None}]
Connection == [topics : SUBSET Topics,
               hash : [Topics -> Version \union {None}],
               seq : [Topics -> Nat]]

(* The topic the server streams once it has read the queue q.              *)
Streamed(q, c, t) ==
  \/ \E i \in 1..Len(q) : /\ q[i].op = "subscribe" /\ t \in q[i].topics
                          /\ \A j \in 1..Len(q) : j > i => t \notin q[j].topics
  \/ t \in c /\ \A i \in 1..Len(q) : t \notin q[i].topics

TypeInv ==
  /\ TypeOK
  /\ conn \in Connection
  /\ up \in Seq(Message)
  /\ changes \in 0..MaxVersion /\ \A t \in Topics : version[t] <= changes

TopicsInv ==
  /\ topicsRef = Default \union TopicShown(route, data)
  /\ sock # "open" => up = <<>> /\ conn.topics = {}
  /\ sock = "open" => \A t \in Topics : t \in topicsRef <=> Streamed(up, conn.topics, t)

-----------------------------------------------------------------------------
(* What a page shows. *)

LEMMA SelectedIsSession ==
  ASSUME NEW r \in Routes, NEW d \in Cached
  PROVE  SelectedIn(r, d) \in Session \union {None}
<1>1. CASE r[1] = "/sessions/$sessionId"
  <2>1. r \notin Paths \X {None}
    BY <1>1, LiveAssumption
  <2> QED BY <1>1, <2>1 DEF Routes, SelectedIn
<1>2. CASE r[1] = "/sessions" /\ d[<<"sessions", "all">>] # None
  <2>1. d[<<"sessions", "all">>] \in Version
    BY <1>2, KeysAssumption DEF Cached
  <2>2. First[d[<<"sessions", "all">>]] \in Session
    BY <2>1, LiveAssumption DEF Version
  <2> QED BY <1>2, <2>2 DEF SelectedIn
<1>3. CASE r[1] # "/sessions/$sessionId" /\ ~(r[1] = "/sessions" /\ d[<<"sessions", "all">>] # None)
  BY <1>3 DEF SelectedIn
<1> QED BY <1>1, <1>2, <1>3

LEMMA ShownIsTopic ==
  ASSUME NEW r \in Routes, NEW d \in Cached
  PROVE  TopicShown(r, d) \subseteq Topics /\ TopicShown(r, d) \cap Default = {}
<1>1. SelectedIn(r, d) \in Session \union {None}
  BY SelectedIsSession
<1>2. TopicShown(r, d) \subseteq {"session"} \X Session
  BY <1>1 DEF TopicShown
<1>3. \A t \in Default : t[1] # "session"
  BY LiveAssumption
<1> QED BY <1>2, <1>3 DEF Topics

LEMMA TopicOfKey == ASSUME NEW k \in Keys PROVE TopicOf[k] \in Topics
<1>1. \E t \in Topics : k \in KeysOf(t)
  BY KeysAssumption
<1> QED BY <1>1 DEF TopicOf

-----------------------------------------------------------------------------
(* The queue of messages. *)

LEMMA StreamedAfterAppend ==
  ASSUME NEW q \in Seq(Message), NEW m \in Message, NEW c, NEW t
  PROVE  Streamed(Append(q, m), c, t) <=> IF t \in m.topics THEN m.op = "subscribe" ELSE Streamed(q, c, t)
<1> DEFINE p == Append(q, m)
<1>1. Len(p) = Len(q) + 1 /\ p[Len(q) + 1] = m /\ \A i \in 1..Len(q) : p[i] = q[i]
  OBVIOUS
<1>2. 1..Len(p) = 1..Len(q) \union {Len(q) + 1} /\ Len(q) \in Nat
  BY <1>1
<1> HIDE DEF p
<1>3. CASE t \in m.topics
  <2>1. ~(t \in c /\ \A i \in 1..Len(p) : t \notin p[i].topics)
    BY <1>1, <1>2, <1>3
  <2>2. ASSUME m.op = "subscribe" PROVE Streamed(p, c, t)
    <3>1. \A j \in 1..Len(p) : ~(j > Len(q) + 1)
      BY <1>2
    <3> QED BY <1>1, <1>2, <1>3, <2>2, <3>1 DEF Streamed
  <2>3. ASSUME Streamed(p, c, t) PROVE m.op = "subscribe"
    <3>1. PICK i \in 1..Len(p) : /\ p[i].op = "subscribe" /\ t \in p[i].topics
                                 /\ \A j \in 1..Len(p) : j > i => t \notin p[j].topics
      BY <2>1, <2>3 DEF Streamed
    <3>2. i = Len(q) + 1
      BY <1>1, <1>2, <1>3, <3>1
    <3> QED BY <1>1, <3>1, <3>2
  <2> QED BY <1>3, <2>2, <2>3 DEF p
<1>4. CASE t \notin m.topics
  <2>1. ASSUME Streamed(p, c, t) PROVE Streamed(q, c, t)
    <3>1. CASE t \in c /\ \A i \in 1..Len(p) : t \notin p[i].topics
      BY <1>1, <1>2, <3>1 DEF Streamed
    <3>2. ASSUME NEW i \in 1..Len(p), p[i].op = "subscribe", t \in p[i].topics,
                 \A j \in 1..Len(p) : j > i => t \notin p[j].topics
          PROVE  Streamed(q, c, t)
      <4>1. i \in 1..Len(q)
        BY <1>1, <1>2, <1>4, <3>2
      <4> QED BY <1>1, <1>2, <3>2, <4>1 DEF Streamed
    <3> QED BY <2>1, <3>1, <3>2 DEF Streamed
  <2>2. ASSUME Streamed(q, c, t) PROVE Streamed(p, c, t)
    <3>1. CASE t \in c /\ \A i \in 1..Len(q) : t \notin q[i].topics
      BY <1>1, <1>2, <1>4, <3>1 DEF Streamed
    <3>2. ASSUME NEW i \in 1..Len(q), q[i].op = "subscribe", t \in q[i].topics,
                 \A j \in 1..Len(q) : j > i => t \notin q[j].topics
          PROVE  Streamed(p, c, t)
      <4>1. \A j \in 1..Len(p) : j > i => t \notin p[j].topics
        BY <1>1, <1>2, <1>4, <3>2
      <4> QED BY <1>1, <1>2, <3>2, <4>1 DEF Streamed
    <3> QED BY <2>2, <3>1, <3>2 DEF Streamed
  <2> QED BY <1>4, <2>1, <2>2 DEF p
<1> QED BY <1>3, <1>4

LEMMA StreamedAfterHead ==
  ASSUME NEW q \in Seq(Message), q # <<>>, NEW c, NEW t,
         NEW d, d = IF Head(q).op = "subscribe" THEN c \union Head(q).topics ELSE c \ Head(q).topics
  PROVE  Streamed(q, c, t) <=> Streamed(Tail(q), d, t)
<1> DEFINE p == Tail(q)
<1>1. /\ Len(q) \in Nat /\ Len(q) >= 1 /\ Len(p) = Len(q) - 1 /\ Head(q) = q[1]
      /\ \A i \in 1..Len(p) : p[i] = q[i + 1]
  OBVIOUS
<1> HIDE DEF p
<1>2. \A i \in 2..Len(q) : i - 1 \in 1..Len(p) /\ q[i] = p[i - 1]
  BY <1>1
<1>3. ASSUME Streamed(q, c, t) PROVE Streamed(p, d, t)
  <2>1. CASE t \in c /\ \A i \in 1..Len(q) : t \notin q[i].topics
    <3>1. t \in d
      BY <1>1, <2>1
    <3>2. \A i \in 1..Len(p) : t \notin p[i].topics
      BY <1>1, <2>1
    <3> QED BY <3>1, <3>2 DEF Streamed
  <2>2. ASSUME NEW i \in 1..Len(q), q[i].op = "subscribe", t \in q[i].topics,
               \A j \in 1..Len(q) : j > i => t \notin q[j].topics
        PROVE  Streamed(p, d, t)
    <3>1. CASE i = 1
      <4>1. t \in d
        BY <1>1, <2>2, <3>1
      <4>2. \A j \in 1..Len(p) : t \notin p[j].topics
        BY <1>1, <2>2, <3>1
      <4> QED BY <4>1, <4>2 DEF Streamed
    <3>2. CASE i # 1
      <4>1. i - 1 \in 1..Len(p) /\ p[i - 1] = q[i]
        BY <1>2, <3>2
      <4>2. \A j \in 1..Len(p) : j > i - 1 => t \notin p[j].topics
        BY <1>1, <2>2
      <4> QED BY <2>2, <4>1, <4>2 DEF Streamed
    <3> QED BY <3>1, <3>2
  <2> QED BY <1>3, <2>1, <2>2 DEF Streamed
<1>4. ASSUME Streamed(p, d, t) PROVE Streamed(q, c, t)
  <2>1. ASSUME NEW i \in 1..Len(p), p[i].op = "subscribe", t \in p[i].topics,
               \A j \in 1..Len(p) : j > i => t \notin p[j].topics
        PROVE  Streamed(q, c, t)
    <3>1. i + 1 \in 1..Len(q) /\ q[i + 1] = p[i]
      BY <1>1
    <3>2. ASSUME NEW j \in 1..Len(q), j > i + 1 PROVE t \notin q[j].topics
      <4>1. j - 1 \in 1..Len(p) /\ q[j] = p[j - 1] /\ j - 1 > i
        BY <1>1, <1>2, <3>2
      <4> QED BY <2>1, <4>1
    <3> QED BY <2>1, <3>1, <3>2 DEF Streamed
  <2>2. CASE t \in d /\ \A i \in 1..Len(p) : t \notin p[i].topics
    <3>1. \A j \in 2..Len(q) : t \notin q[j].topics
      BY <1>2, <2>2
    <3>2. CASE t \in q[1].topics
      <4>1. q[1].op = "subscribe"
        BY <1>1, <2>2, <3>2
      <4> QED BY <1>1, <3>1, <3>2, <4>1 DEF Streamed
    <3>3. CASE t \notin q[1].topics
      <4>1. t \in c
        BY <1>1, <2>2, <3>3
      <4>2. \A j \in 1..Len(q) : t \notin q[j].topics
        BY <1>1, <3>1, <3>3
      <4> QED BY <4>1, <4>2 DEF Streamed
    <3> QED BY <3>2, <3>3
  <2> QED BY <1>4, <2>1, <2>2 DEF Streamed
<1> QED BY <1>3, <1>4 DEF p

-----------------------------------------------------------------------------
(* Types. *)

LEMMA NavigationTypes ==
  ASSUME TypeInv, NEW r \in Routes, route' = r, data' \in Cached, Retopic
  PROVE  topicsRef' \subseteq Topics /\ up' \in Seq(Message)
<1> DEFINE old == TopicShown(route, data) \ TopicShown(route', data')
           new == TopicShown(route', data') \ TopicShown(route, data)
           leave == [op |-> "unsubscribe", topics |-> old]
           join == [op |-> "subscribe", topics |-> new]
<1>1. TopicShown(route, data) \subseteq Topics /\ TopicShown(route', data') \subseteq Topics
  BY ShownIsTopic DEF TypeInv, TypeOK, Cached, Version
<1>2. leave \in Message /\ join \in Message
  BY <1>1 DEF Message
<1>3. topicsRef' = (topicsRef \ old) \union new
  BY DEF Retopic
<1>4. topicsRef' \subseteq Topics
  BY <1>1, <1>3 DEF TypeInv, TypeOK
<1>5. up' = IF sock = "open"
              THEN up \o ((IF old = {} THEN <<>> ELSE <<leave>>) \o (IF new = {} THEN <<>> ELSE <<join>>))
              ELSE up
  BY DEF Retopic
<1>6. up \in Seq(Message)
  BY DEF TypeInv
<1> HIDE DEF old, new, leave, join
<1>7. up' \in Seq(Message)
  <2>1. CASE old = {} /\ new = {}
    BY <1>5, <1>6, <2>1
  <2>2. CASE old = {} /\ new # {}
    BY <1>2, <1>5, <1>6, <2>2
  <2>3. CASE old # {} /\ new = {}
    BY <1>2, <1>5, <1>6, <2>3
  <2>4. CASE old # {} /\ new # {}
    BY <1>2, <1>5, <1>6, <2>4
  <2> QED BY <2>1, <2>2, <2>3, <2>4
<1> QED BY <1>4, <1>7

(* What Retopic sends says what it does to topicsRef. *)
LEMMA RetopicStreams ==
  ASSUME TypeInv, NEW r \in Routes, route' = r, data' \in Cached, Retopic, sock = "open",
         NEW t \in Topics, t \in topicsRef <=> Streamed(up, conn.topics, t)
  PROVE  t \in topicsRef' <=> Streamed(up', conn.topics, t)
<1> DEFINE old == TopicShown(route, data) \ TopicShown(route', data')
           new == TopicShown(route', data') \ TopicShown(route, data)
           leave == [op |-> "unsubscribe", topics |-> old]
           join == [op |-> "subscribe", topics |-> new]
           c == conn.topics
<1>1. TopicShown(route, data) \subseteq Topics /\ TopicShown(route', data') \subseteq Topics
  BY ShownIsTopic DEF TypeInv, TypeOK, Cached, Version
<1>2. /\ leave \in Message /\ join \in Message
      /\ leave.op = "unsubscribe" /\ leave.topics = old /\ join.op = "subscribe" /\ join.topics = new
  BY <1>1 DEF Message
<1>3. topicsRef' = (topicsRef \ old) \union new
  BY DEF Retopic
<1>4. up' = up \o ((IF old = {} THEN <<>> ELSE <<leave>>) \o (IF new = {} THEN <<>> ELSE <<join>>))
  BY DEF Retopic
<1>5. up \in Seq(Message)
  BY DEF TypeInv
<1>6. t \in topicsRef <=> Streamed(up, c, t)
  OBVIOUS
<1> HIDE DEF old, new, leave, join, c
<1>7. CASE old = {} /\ new = {}
  <2>1. up' = up
    BY <1>4, <1>5, <1>7
  <2> QED BY <1>3, <1>6, <1>7, <2>1 DEF c
<1>8. CASE old = {} /\ new # {}
  <2>1. up' = Append(up, join)
    BY <1>2, <1>4, <1>5, <1>8
  <2>2. Streamed(up', c, t) <=> IF t \in new THEN TRUE ELSE Streamed(up, c, t)
    BY <1>2, <1>5, <2>1, StreamedAfterAppend
  <2> QED BY <1>3, <1>6, <1>8, <2>2 DEF c
<1>9. CASE old # {} /\ new = {}
  <2>1. up' = Append(up, leave)
    BY <1>2, <1>4, <1>5, <1>9
  <2>2. Streamed(up', c, t) <=> IF t \in old THEN FALSE ELSE Streamed(up, c, t)
    BY <1>2, <1>5, <2>1, StreamedAfterAppend
  <2> QED BY <1>3, <1>6, <1>9, <2>2 DEF c
<1>10. CASE old # {} /\ new # {}
  <2>1. up' = Append(Append(up, leave), join) /\ Append(up, leave) \in Seq(Message)
    BY <1>2, <1>4, <1>5, <1>10
  <2>2. Streamed(Append(up, leave), c, t) <=> IF t \in old THEN FALSE ELSE Streamed(up, c, t)
    BY <1>2, <1>5, StreamedAfterAppend
  <2>3. Streamed(up', c, t) <=> IF t \in new THEN TRUE ELSE Streamed(Append(up, leave), c, t)
    BY <1>2, <2>1, StreamedAfterAppend
  <2> QED BY <1>3, <1>6, <2>2, <2>3 DEF c
<1> QED BY <1>7, <1>8, <1>9, <1>10

LEMMA InitTypes == Init => TypeInv
<1> SUFFICES ASSUME Init PROVE TypeInv
  OBVIOUS
<1>1. data \in Cached /\ route \in Routes
  BY DEF Init, Cached
<1>2. topicsRef \subseteq Topics
  BY <1>1, ShownIsTopic DEF Init, Topics
<1>3. conn \in Connection
  BY DEF Init, NoConn, Connection
<1> QED BY <1>1, <1>2, <1>3, LiveAssumption DEF Init, TypeInv, TypeOK, Cached, NoConn, Version

LEMMA TypeStep == TypeInv /\ [Next]_vars => TypeInv'
<1> SUFFICES ASSUME TypeInv, [Next]_vars PROVE TypeInv'
  OBVIOUS
<1> USE DEF Version
<1>1. /\ MaxVersion \in Nat /\ version \in [Topics -> 0..MaxVersion] /\ route \in Routes
      /\ data \in Cached /\ fetch \in Answers /\ up \in Seq(Message) /\ conn \in Connection
      /\ topicsRef \subseteq Topics
  BY LiveAssumption DEF TypeInv, TypeOK, Cached, Answers
<1>2. ASSUME NEW r \in Routes, Navigate(r), UNCHANGED changes PROVE TypeInv'
  <2>1. topicsRef' \subseteq Topics /\ up' \in Seq(Message)
    BY <1>1, <1>2, NavigationTypes DEF Navigate
  <2>2. fetch' \in Answers
    BY <1>1, <1>2 DEF Navigate, Mount, Answers
  <2> QED BY <1>1, <1>2, <2>1, <2>2 DEF Navigate, TypeInv, TypeOK, Cached, Answers, server
<1>3. ASSUME NEW k \in Keys, ReadAnswer(k), UNCHANGED bounds PROVE TypeInv'
  <2>1. version[TopicOf[k]] \in Version
    BY <1>1, TopicOfKey
  <2>2. fetch' \in Answers
    BY <1>1, <1>3, <2>1 DEF ReadAnswer, Answers
  <2> QED BY <1>3, <2>2 DEF ReadAnswer, TypeInv, TypeOK, Answers, server, live, bounds
<1>4. ASSUME NEW k \in Keys, Arrive(k), UNCHANGED bounds PROVE TypeInv'
  <2>1. fetch[k] \in Version
    BY <1>1, <1>4 DEF Arrive, Answers
  <2>2. data' \in Cached
    BY <1>1, <1>4, <2>1 DEF Arrive, Cached
  <2>3. topicsRef' \subseteq Topics /\ up' \in Seq(Message)
    BY <1>1, <1>4, <2>2, NavigationTypes DEF Arrive
  <2>4. fetch' \in Answers
    BY <1>1, <1>4 DEF Arrive, Mount, Answers
  <2> QED BY <1>1, <1>4, <2>2, <2>3, <2>4 DEF Arrive, TypeInv, TypeOK, Cached, Answers, server, bounds
<1>5. ASSUME Open, UNCHANGED bounds PROVE TypeInv'
  <2>1. up' \in Seq(Message)
    BY <1>1, <1>5 DEF Open, TopicsToAsk, Message
  <2> QED BY <1>5, <2>1 DEF Open, TypeInv, TypeOK, server, cache, bounds
<1>6. ASSUME Close, UNCHANGED changes PROVE TypeInv'
  <2>1. conn' \in Connection
    BY <1>6 DEF Close, NoConn, Connection
  <2> QED BY <1>6, <2>1 DEF Close, TypeInv, TypeOK, cache, Connection
<1>7. ASSUME Reconnect, UNCHANGED bounds PROVE TypeInv'
  BY <1>7 DEF Reconnect, TypeInv, TypeOK, server, cache, bounds
<1>8. ASSUME Receive, UNCHANGED bounds PROVE TypeInv'
  <2>1. fetch' \in Answers
    BY <1>1, <1>8 DEF Receive, OnEvent, InvalidateTopic, Refetch, Answers
  <2> QED BY <1>8, <2>1 DEF Receive, TypeInv, TypeOK, server, bounds, Answers
<1>9. ASSUME NEW s \in Topics, Change(s), changes < MaxVersion, changes' = changes + 1 PROVE TypeInv'
  <2>1. version' = [version EXCEPT ![s] = version[s] + 1]
    BY <1>9 DEF Change
  <2>2. \A t \in Topics : version'[t] <= changes' /\ version'[t] \in 0..MaxVersion
    BY <1>1, <1>9, <2>1 DEF TypeInv
  <2>3. version' \in [Topics -> 0..MaxVersion]
    BY <1>1, <2>1, <2>2
  <2> QED BY <1>1, <1>9, <2>2, <2>3 DEF Change, TypeInv, TypeOK, live, cache
<1>10. ASSUME ServerReceives, UNCHANGED bounds PROVE TypeInv'
  <2>1. up' \in Seq(Message) /\ Head(up) \in Message
    BY <1>1, <1>10 DEF ServerReceives
  <2>2. conn' \in Connection
    BY <1>1, <1>10, <2>1 DEF ServerReceives, Connection, Message
  <2> QED BY <1>1, <1>10, <2>1, <2>2 DEF ServerReceives, TypeInv, TypeOK, cache, bounds, Connection
<1>11. ASSUME NEW s \in Topics, Stream(s), UNCHANGED bounds PROVE TypeInv'
  <2>1. /\ conn'.topics = conn.topics
        /\ conn' = [topics |-> conn.topics, hash |-> [conn.hash EXCEPT ![s] = version[s]],
                    seq |-> [conn.seq EXCEPT ![s] = conn.seq[s] + 1]]
    BY <1>1, <1>11 DEF Stream, Connection
  <2>2. conn.seq[s] + 1 \in Nat /\ version[s] \in Version
    BY <1>1 DEF Connection
  <2>3. conn' \in Connection
    BY <1>1, <2>1, <2>2 DEF Connection
  <2> QED BY <1>1, <1>11, <2>3 DEF Stream, TypeInv, TypeOK, cache, bounds, Connection
<1>12. ASSUME UNCHANGED vars PROVE TypeInv'
  BY <1>12 DEF vars, server, live, cache, bounds, TypeInv, TypeOK
<1> QED BY <1>2, <1>3, <1>4, <1>5, <1>6, <1>7, <1>8, <1>9, <1>10, <1>11, <1>12 DEF Next, bounds

LEMMA TypeInvariant == Spec => []TypeInv
<1> QED BY InitTypes, TypeStep, PTL DEF Spec

(* Every variable keeps its type: a session is shown only of the route or  *)
(* of the list, and no answer is newer than the bound on changes.          *)
THEOREM TypeCorrect == Spec => []TypeOK
<1>1. TypeInv => TypeOK
  BY DEF TypeInv
<1> QED BY TypeInvariant, <1>1, PTL

-----------------------------------------------------------------------------
(* Subscriptions. *)

LEMMA InitTopics == Init => TopicsInv
BY DEF Init, TopicsInv, NoConn

(* A step that sends, reads and shows nothing. *)
LEMMA TopicsKept ==
  ASSUME TopicsInv, UNCHANGED <<sock, up, topicsRef, route, data>>, conn'.topics = conn.topics
  PROVE  TopicsInv'
BY DEF TopicsInv, TopicShown, SelectedIn, Streamed

(* A step that may change what is shown. *)
LEMMA TopicsFollow ==
  ASSUME TypeInv, TopicsInv, NEW r \in Routes, route' = r, data' \in Cached, Retopic, UNCHANGED <<sock, conn>>
  PROVE  TopicsInv'
<1> DEFINE shown == TopicShown(route, data)
           next == TopicShown(route', data')
<1>1. topicsRef' = (topicsRef \ (shown \ next)) \union (next \ shown)
  BY DEF Retopic
<1>2. shown \cap Default = {}
  BY ShownIsTopic DEF TypeInv, TypeOK, Cached, Version
<1>3. topicsRef' = Default \union next
  BY <1>1, <1>2 DEF TopicsInv
<1>4. sock # "open" => up' = up
  BY DEF Retopic
<1>5. ASSUME sock = "open", NEW t \in Topics PROVE t \in topicsRef' <=> Streamed(up', conn.topics, t)
  BY <1>5, RetopicStreams DEF TopicsInv
<1> HIDE DEF shown
<1> QED BY <1>3, <1>4, <1>5 DEF TopicsInv

LEMMA TopicsStep == TypeInv /\ TopicsInv /\ [Next]_vars => TopicsInv'
<1> SUFFICES ASSUME TypeInv, TopicsInv, [Next]_vars PROVE TopicsInv'
  OBVIOUS
<1>1. ASSUME NEW r \in Routes, Navigate(r) PROVE TopicsInv'
  BY <1>1, TopicsFollow DEF Navigate, server, TypeInv, TypeOK, Cached, Version
<1>2. ASSUME NEW k \in Keys, ReadAnswer(k) PROVE TopicsInv'
  BY <1>2, TopicsKept DEF ReadAnswer, server, live
<1>3. ASSUME NEW k \in Keys, Arrive(k) PROVE TopicsInv'
  <2>1. fetch[k] \in Version
    BY <1>3 DEF Arrive, TypeInv, TypeOK, Version
  <2>2. data' \in Cached
    BY <1>3, <2>1 DEF Arrive, Cached, TypeInv, TypeOK, Version
  <2>3. route' \in Routes
    BY <1>3 DEF Arrive, TypeInv, TypeOK
  <2> QED BY <1>3, <2>2, <2>3, TopicsFollow DEF Arrive, server
<1>4. ASSUME Open PROVE TopicsInv'
  <2>1. conn'.topics = {} /\ topicsRef' = topicsRef
    BY <1>4 DEF Open, server, TopicsInv
  <2>2. up' = <<[op |-> "subscribe", topics |-> topicsRef]>>
    BY <1>4 DEF Open, TopicsToAsk
  <2>3. \A t \in Topics : t \in topicsRef' <=> Streamed(up', conn'.topics, t)
    BY <2>1, <2>2 DEF Streamed
  <2> QED BY <1>4, <2>1, <2>3 DEF Open, TopicsInv, server, cache, TopicShown, SelectedIn
<1>5. ASSUME Close PROVE TopicsInv'
  BY <1>5 DEF Close, TopicsInv, NoConn, cache, TopicShown, SelectedIn
<1>6. ASSUME Reconnect PROVE TopicsInv'
  BY <1>6 DEF Reconnect, TopicsInv, server, cache, TopicShown, SelectedIn
<1>7. ASSUME Receive PROVE TopicsInv'
  BY <1>7, TopicsKept DEF Receive, server
<1>8. ASSUME NEW s \in Topics, Change(s) PROVE TopicsInv'
  BY <1>8, TopicsKept DEF Change, live, cache
<1>9. ASSUME ServerReceives PROVE TopicsInv'
  <2>1. /\ up \in Seq(Message) /\ up # <<>> /\ up' = Tail(up) /\ UNCHANGED <<sock, topicsRef, route, data>>
        /\ conn'.topics = IF Head(up).op = "subscribe" THEN conn.topics \union Head(up).topics
                                                       ELSE conn.topics \ Head(up).topics
    BY <1>9 DEF ServerReceives, cache, TypeInv, Connection
  <2>2. sock = "open"
    BY <2>1 DEF TopicsInv
  <2>3. \A t \in Topics : Streamed(up, conn.topics, t) <=> Streamed(up', conn'.topics, t)
    BY <2>1, StreamedAfterHead
  <2> QED BY <2>1, <2>2, <2>3 DEF TopicsInv, TopicShown, SelectedIn
<1>10. ASSUME NEW s \in Topics, Stream(s) PROVE TopicsInv'
  <2>1. conn'.topics = conn.topics
    BY <1>10 DEF Stream, TypeInv, Connection
  <2> QED BY <1>10, <2>1, TopicsKept DEF Stream, cache
<1>11. ASSUME UNCHANGED vars PROVE TopicsInv'
  BY <1>11, TopicsKept DEF vars, server, live, cache
<1> QED BY <1>1, <1>2, <1>3, <1>4, <1>5, <1>6, <1>7, <1>8, <1>9, <1>10, <1>11 DEF Next

(* With nothing under way the server streams the default topics and the    *)
(* session shown (LiveProvider.tsx 68-72, 121-129, 149-157).               *)
THEOREM StreamsCorrect == Spec => []StreamsWhatIsShown
<1>1. TypeInv /\ TopicsInv => StreamsWhatIsShown
  <2> SUFFICES ASSUME TypeInv, TopicsInv, sock = "open", up = <<>>
               PROVE  conn.topics = Default \union TopicShown(route, data)
    BY DEF StreamsWhatIsShown
  <2>1. conn.topics \subseteq Topics /\ topicsRef \subseteq Topics
    BY DEF TypeInv, TypeOK
  <2>2. \A t \in Topics : t \in topicsRef <=> t \in conn.topics
    BY DEF TopicsInv, Streamed
  <2>3. topicsRef = conn.topics
    BY <2>1, <2>2
  <2> QED BY <2>3 DEF TopicsInv
<1>2. Spec => []TopicsInv
  BY InitTopics, TopicsStep, TypeInvariant, PTL DEF Spec
<1> QED BY <1>1, <1>2, TypeInvariant, PTL
=============================================================================
