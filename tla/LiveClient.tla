------------------------------ MODULE LiveClient ------------------------------
(***************************************************************************)
(* The live channel as the browser sees it: the socket of LiveProvider.tsx *)
(* and its topics, the query cache its events invalidate (the hooks of     *)
(* api-v3.ts), the page the router shows (router.tsx) and the session      *)
(* SessionsExplorerPage.tsx selects from cached data.  The server is what  *)
(* LiveServer models, reduced to what one connection promises: a topic     *)
(* subscribed to is streamed once per version, numbered from 1.            *)
(* A key's data is the version of its topic that the answer was made from. *)
(* A fetch is retried by the library; one that fails for good, and the     *)
(* second mount of development builds, are not modelled.                   *)
(***************************************************************************)
EXTENDS Naturals, Sequences

CONSTANTS Session, Default, Paths, Keys, First, None, Asked,
          MaxVersion, MaxEvents  \* bounds: changes; lost connections and navigations
\* Default, Paths, Keys: those of DEFAULT_TOPICS, of the router and of the hooks looked at;
\* First[v]: the session that heads version v of the list

Topics == Default \union ({"session"} \X Session)

ASSUME LiveAssumption ==
  /\ Default \subseteq ({"overview", "mission_control", "sessions", "token_economics", "extensions_config"} \X {"all"})
  /\ <<"sessions", "all">> \in Default
  /\ Paths \subseteq {"/", "/mission-control", "/sessions", "/token-economics", "/extensions-config",
                     "/extensions-config/$type/$id", "/search", "/conversations/$conversationId", "/plans/$planId"}
  /\ First \in [0..MaxVersion -> Session] /\ None \notin Session
  /\ MaxVersion \in Nat /\ MaxEvents \in Nat

(* The query keys an event of a topic invalidates. *)
KeysOf(t) ==
  CASE t[1] = "overview" -> {<<"overview", "all">>}
    [] t[1] = "mission_control" -> {"mission-control", "mission-activity"} \X {"all"}
    [] t[1] = "sessions" -> {<<"sessions", "all">>}
    [] t[1] = "session" -> {"session", "session-messages"} \X {t[2]}
    [] t[1] = "token_economics" -> {"token-summary", "token-timeseries", "token-projects"} \X {"all"}
    [] t[1] = "extensions_config" -> {"extensions-config", "extension-detail"} \X {"all"}

ASSUME KeysAssumption ==
  Keys \subseteq UNION {KeysOf(t) : t \in Topics} /\ <<"sessions", "all">> \in Keys
KeysIn == [t \in Topics |-> KeysOf(t) \cap Keys]
TopicOf == [k \in Keys |-> CHOOSE t \in Topics : k \in KeysOf(t)]

(* The routes, and the keys the page of each observes: of a sessions page   *)
(* also those of the session it selects.                                    *)
Routes == Paths \X {None} \union ({"/sessions/$sessionId"} \X Session)

PageKeys(path, s) ==
  Keys \cap CASE path = "/" -> KeysOf(<<"overview">>)
              [] path = "/mission-control" -> KeysOf(<<"mission_control">>)
              [] path \in {"/sessions", "/sessions/$sessionId"} ->
                   KeysOf(<<"sessions">>) \union (IF s = None THEN {} ELSE KeysOf(<<"session", s>>))
              [] path = "/token-economics" -> KeysOf(<<"token_economics">>)
              [] path \in {"/extensions-config", "/extensions-config/$type/$id"} -> KeysOf(<<"extensions_config">>)
              [] OTHER -> {}

VARIABLES version, conn,            \* the server: the topics' data; subscriptions, hashes and numbers
          sock, up, down,           \* the socket, the messages under way
          topicsRef, seqRef,        \* LiveProvider's refs
          route, data, invalidated, fetch,
          due,                      \* history: the newest version announced, see Receive
          changes, events

server == <<version, conn>>
live == <<sock, up, down, topicsRef, seqRef>>
cache == <<data, invalidated, fetch>>
bounds == <<changes, events>>
vars == <<server, live, route, cache, due, bounds>>

NoConn == [topics |-> {}, hash |-> [t \in Topics |-> None], seq |-> [t \in Topics |-> 0]]

(* selectedSessionId: the route's session, or the first of the list. *)
SelectedIn(r, d) ==
  IF r[1] = "/sessions/$sessionId" THEN r[2]
  ELSE IF r[1] = "/sessions" /\ d[<<"sessions", "all">>] # None THEN First[d[<<"sessions", "all">>]]
  ELSE None
KeysShown == [p \in Paths \union {"/sessions/$sessionId"}, s \in Session \union {None} |-> PageKeys(p, s)]
Observed(r, d) == KeysShown[r[1], SelectedIn(r, d)]
TopicShown(r, d) == IF SelectedIn(r, d) = None THEN {} ELSE {<<"session", SelectedIn(r, d)>>}

Init ==
  /\ route \in Routes /\ data = [k \in Keys |-> None] /\ invalidated = {}
  /\ version = [t \in Topics |-> 0] /\ conn = NoConn
  /\ sock = "connecting" /\ up = <<>> /\ down = <<>>
  /\ topicsRef = Default \union TopicShown(route, data) /\ seqRef = [t \in Topics |-> 0]
  /\ fetch = [k \in Keys |-> IF k \in Observed(route, data) THEN Asked ELSE None]
  /\ due = [k \in Keys |-> None] /\ changes = 0 /\ events = 0

-----------------------------------------------------------------------------
(* useLiveTopic after a render: the old topic is left, then the new one     *)
(* joined; send drops a message while the socket is not open.               *)
Retopic ==
  LET old == TopicShown(route, data) \ TopicShown(route', data')
      new == TopicShown(route', data') \ TopicShown(route, data)
      messages == (IF old = {} THEN <<>> ELSE <<[op |-> "unsubscribe", topics |-> old]>>)
                    \o (IF new = {} THEN <<>> ELSE <<[op |-> "subscribe", topics |-> new]>>)
  IN /\ topicsRef' = (topicsRef \ old) \union new
     /\ up' = IF sock = "open" THEN up \o messages ELSE up

(* Keys that get an observer are fetched when missing, invalidated or older *)
(* than a minute (time is not modelled: either); a fetch under way is used. *)
Mount(f) ==
  LET mounted == Observed(route', data') \ Observed(route, data) IN
  \E old \in SUBSET {k \in mounted : data'[k] # None} :
    fetch' = [k \in Keys |->
                IF k \in mounted /\ f[k] = None /\ (data'[k] = None \/ k \in invalidated' \union old)
                  THEN Asked ELSE f[k]]

Navigate(r) ==
  /\ r # route /\ route' = r
  /\ UNCHANGED <<data, invalidated>>
  /\ Retopic /\ Mount(fetch)
  /\ UNCHANGED <<server, sock, down, seqRef, due>>

ReadAnswer(k) ==
  /\ fetch[k] = Asked
  /\ fetch' = [fetch EXCEPT ![k] = version[TopicOf[k]]]
  /\ UNCHANGED <<server, live, route, data, invalidated, due>>

Arrive(k) ==
  /\ fetch[k] \notin {None, Asked}
  /\ data' = [data EXCEPT ![k] = fetch[k]]
  /\ invalidated' = invalidated \ {k}
  /\ UNCHANGED route
  /\ Retopic /\ Mount([fetch EXCEPT ![k] = None])
  /\ UNCHANGED <<server, sock, down, seqRef, due>>

-----------------------------------------------------------------------------
(* The socket. *)

(* Faulty variant: a new connection asks for the default topics only. *)
TopicsToAskDefault == Default

TopicsToAsk == topicsRef

(* onopen; the server has a fresh connection. *)
Open ==
  /\ sock = "connecting" /\ sock' = "open"
  /\ up' = <<[op |-> "subscribe", topics |-> TopicsToAsk]>>
  /\ UNCHANGED <<server, down, topicsRef, seqRef, route, cache, due>>

(* onclose, with or without onerror: what is under way is lost, a timer of  *)
(* one second armed.                                                        *)
Close ==
  /\ sock # "closed" /\ sock' = "closed"
  /\ up' = <<>> /\ down' = <<>> /\ conn' = NoConn
  /\ UNCHANGED <<version, topicsRef, seqRef, route, cache, due>>

Reconnect ==
  /\ sock = "closed" /\ sock' = "connecting"
  /\ UNCHANGED <<server, up, down, topicsRef, seqRef, route, cache, due>>

(* The refetch of an invalidation: a fetch under way is cancelled and       *)
(* started again, unless it is the first of its key.                        *)
Refetch(ks) ==
  fetch' = [k \in Keys |-> IF k \in ks /\ (fetch[k] = None \/ data[k] # None) THEN Asked ELSE fetch[k]]

(* invalidateTopic: all of the topic's keys are marked, those shown fetched. *)
InvalidateTopic(t) ==
  /\ invalidated' = invalidated \union KeysIn[t]
  /\ Refetch(KeysIn[t] \cap Observed(route, data))

(* Faulty variant: an event that does not continue the sequence is dropped. *)
OnEventInOrder(e) ==
  IF seqRef[e.topic] > 0 /\ e.seq # seqRef[e.topic] + 1
    THEN UNCHANGED <<invalidated, fetch>> ELSE InvalidateTopic(e.topic)

(* A gap is noticed, and treated like any event. *)
OnEvent(e) == InvalidateTopic(e.topic)

(* An event counts for each of its keys, whether loaded and shown or not,   *)
(* unless it leaves an answer on its way that was made before: the first    *)
(* of its key, or one asked for by a page that was left.                    *)
Receive ==
  /\ down # <<>>
  /\ LET e == Head(down) IN
       /\ seqRef' = [seqRef EXCEPT ![e.topic] = e.seq]
       /\ OnEvent(e)
       /\ due' = [k \in Keys |-> IF k \in KeysIn[e.topic] /\ fetch'[k] \in {None, Asked}
                                   THEN e.ver ELSE due[k]]
  /\ down' = Tail(down)
  /\ UNCHANGED <<server, sock, up, topicsRef, route, data>>

-----------------------------------------------------------------------------
(* The server. *)

Change(t) ==
  /\ version' = [version EXCEPT ![t] = @ + 1]
  /\ UNCHANGED <<conn, live, route, cache, due>>

ServerReceives ==
  /\ up # <<>> /\ up' = Tail(up)
  /\ conn' = [conn EXCEPT !.topics = IF Head(up).op = "subscribe" THEN @ \union Head(up).topics
                                                                 ELSE @ \ Head(up).topics]
  /\ UNCHANGED <<version, sock, down, topicsRef, seqRef, route, cache, due>>

Stream(t) ==
  /\ t \in conn.topics /\ conn.hash[t] # version[t]
  /\ conn' = [conn EXCEPT !.hash[t] = version[t], !.seq[t] = @ + 1]
  /\ down' = Append(down, [topic |-> t, seq |-> conn'.seq[t], ver |-> version[t]])
  /\ UNCHANGED <<version, sock, up, topicsRef, seqRef, route, cache, due>>

Next ==
  \/ (Close \/ \E r \in Routes : Navigate(r)) /\ events < MaxEvents /\ events' = events + 1 /\ UNCHANGED changes
  \/ (\E t \in Topics : Change(t)) /\ changes < MaxVersion /\ changes' = changes + 1 /\ UNCHANGED events
  \/ /\ \/ Open \/ Reconnect \/ Receive \/ ServerReceives
        \/ \E t \in Topics : Stream(t)
        \/ \E k \in Keys : ReadAnswer(k) \/ Arrive(k)
     /\ UNCHANGED bounds

(* The event loop runs its tasks, the timer fires, the server reads, ticks  *)
(* and answers.                                                             *)
Fairness ==
  /\ WF_vars(Open /\ UNCHANGED bounds) /\ WF_vars(Reconnect /\ UNCHANGED bounds)
  /\ WF_vars(Receive /\ UNCHANGED bounds) /\ WF_vars(ServerReceives /\ UNCHANGED bounds)
  /\ \A t \in Topics : WF_vars(Stream(t) /\ UNCHANGED bounds)
  /\ \A k \in Keys : WF_vars(ReadAnswer(k) /\ UNCHANGED bounds) /\ WF_vars(Arrive(k) /\ UNCHANGED bounds)

Spec == Init /\ [][Next]_vars
FairSpec == Spec /\ Fairness

-----------------------------------------------------------------------------
(* Types of the variables. *)
TypeOK ==
  /\ version \in [Topics -> 0..MaxVersion]
  /\ conn.topics \subseteq Topics /\ topicsRef \subseteq Topics
  /\ sock \in {"connecting", "open", "closed"}
  /\ route \in Routes
  /\ data \in [Keys -> 0..MaxVersion \union {None}]
  /\ fetch \in [Keys -> 0..MaxVersion \union {None, Asked}]

(* Once the server has read all that was sent it streams the default topics *)
(* and the session shown, whatever was navigated, reordered or lost while   *)
(* the socket was down (LiveProvider.tsx 68-72, 121-129, 149-157).          *)
StreamsWhatIsShown ==
  sock = "open" /\ up = <<>> => conn.topics = Default \union TopicShown(route, data)

(* In the end nothing shown is older than an event that counted for it (see *)
(* Receive): what was not loaded yet, or not shown, when the event came is  *)
(* fetched after it, what was fetched again is cancelled, and neither lost  *)
(* events nor a new connection's numbers make a later event count for       *)
(* nothing (LiveProvider.tsx 28-59, 81-92).                                 *)
AnnouncedIsShown ==
  <>[](\A k \in Observed(route, data) : due[k] # None => data[k] # None /\ data[k] >= due[k])

=============================================================================
