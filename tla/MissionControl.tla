--------------------------- MODULE MissionControl ---------------------------
(***************************************************************************)
(* The first page of the legacy dashboard (pages/MissionControl.tsx): the  *)
(* cards, the activity feed, and the table of sessions, which is the       *)
(* DataList every table of the dashboard uses (components/ui/DataList.tsx). *)
(***************************************************************************)
EXTENDS Integers, Sequences, SequencesExt, FiniteSets, Arrays

CONSTANTS World,            \* states of conversations in time: [id, last, project]
          TodoWorld,        \* states of todo files in time: [id, last, completed]
          PlanWorld,        \* states of plans in time: [id, last]
          LocaleRank,       \* [time -> place of its local text among those of the other times]
          Day,              \* length of a day
          FeedConversations, FeedTodos, FeedPlans, FeedLength, TableRows,
          LastTime, NoRow, Undefined, MaxMissionSteps

(* 10 + 5 + 5 events fill a feed of 20.                                     *)
ASSUME FeedAssumption ==
  /\ FeedConversations \in Nat \ {0} /\ FeedTodos \in Nat /\ FeedPlans \in Nat \ {0} /\ FeedLength \in Nat
  /\ FeedLength >= FeedConversations + FeedTodos + FeedPlans

(* What has an id has one state at a time.                                  *)
StatesInTime(world) ==
  /\ IsFiniteSet(world)
  /\ \A s \in world : s.id \in Nat /\ s.last \in Nat
  /\ \A s, t \in world : s.id = t.id /\ s.last = t.last => s = t

ASSUME WorldAssumption == StatesInTime(World) /\ StatesInTime(TodoWorld) /\ StatesInTime(PlanWorld)

ASSUME TableAssumption ==
  /\ \A s \in World : s.project \in Nat /\ LocaleRank[s.last] \in Nat
  /\ Day \in Nat /\ TableRows \in Nat /\ LastTime \in Nat

VARIABLES time, conversations, todoFiles, planFiles,   \* the answers the page has
          statsAt,                                     \* when the cards were last worked out
          activityFilter,
          tableQuery, sortColumn, sortDirection, tableIndex,   \* DataList
          navigated,                                   \* what handleSessionSelect was last given
          missionSteps

missionVars == <<time, conversations, todoFiles, planFiles, statsAt, activityFilter,
                 tableQuery, sortColumn, sortDirection, tableIndex, navigated, missionSteps>>
tableVars == <<tableQuery, sortColumn, sortDirection, tableIndex, navigated>>

-----------------------------------------------------------------------------
(* The server answers with the present state of each, the latest first.     *)
PresentState(world) ==
  LET past == {s \in world : s.last <= time}
  IN  {s \in past : \A t \in past : t.id = s.id => t.last <= s.last}

LaterFirst(S) == {p \in S \X S : p[1].last > p[2].last \/ (p[1].last = p[2].last /\ p[1].id < p[2].id)}

NewestFirst(S) == Ranked(S, LaterFirst(S))

(* The cards: windows that end at the time they were worked out.            *)
In(c, from, upTo) == c.last >= from /\ c.last < upTo
sessionsLast24h == Cardinality({c \in conversations : c.last >= statsAt - Day /\ c.last <= statsAt})
sessionsPrev24h == Cardinality({c \in conversations : In(c, statsAt - 2 * Day, statsAt - Day)})
conversationsTotal == Cardinality({c \in conversations : c.last >= statsAt - 7 * Day})
sessionsTrend ==
  IF sessionsPrev24h > 0 THEN ((sessionsLast24h - sessionsPrev24h) * 100) \div sessionsPrev24h
  ELSE IF sessionsLast24h > 0 THEN 100 ELSE 0

(* The feed: the first of each list, then the latest of them all.  A todo   *)
(* file without a completed todo takes a place of its list and no event.    *)
EventOf(kind, s) == [type |-> kind, id |-> s.id, last |-> s.last]
FeedOf(kind, S, n) == {EventOf(kind, s) : s \in Range(FirstOf(NewestFirst(S), n))}
CompletedFeed == {EventOf("todo", s) : s \in {t \in Range(FirstOf(NewestFirst(todoFiles), FeedTodos)) : t.completed > 0}}

events == FeedOf("conversation", conversations, FeedConversations)
          \union CompletedFeed
          \union FeedOf("plan", planFiles, FeedPlans)

(* A stable sort: events of one time stay in the order they were pushed in. *)
PushPlace == [conversation |-> 1, todo |-> 2, plan |-> 3]
PushedBefore(d, e) == PushPlace[d.type] < PushPlace[e.type] \/ (d.type = e.type /\ d.id < e.id)
LatestFirst(S) == {p \in S \X S : p[1].last > p[2].last \/ (p[1].last = p[2].last /\ PushedBefore(p[1], p[2]))}

\* faulty variant: a feed of the first events, with the plans last
FeedInParts ==
  FirstOf(NewestFirst(FeedOf("conversation", conversations, FeedConversations))
          \o NewestFirst(CompletedFeed)
          \o NewestFirst(FeedOf("plan", planFiles, FeedPlans)), FeedLength)

activityEvents == FirstOf(Ranked(events, LatestFirst(events)), FeedLength)

FeedShown == Kept(activityEvents, {i \in DOMAIN activityEvents : activityFilter \in {"", activityEvents[i].type}})

-----------------------------------------------------------------------------
(* DataList: the rows that match the search, in the order of the column.    *)
(* The column of the last activity holds local texts, and sorts as text.    *)
sessionsData == FirstOf(NewestFirst(conversations), TableRows)

RowPrecedes(a, b) == IF sortColumn = "project" THEN a.project < b.project
                                            ELSE LocaleRank[a.last] < LocaleRank[b.last]

filteredData == Kept(sessionsData, {i \in DOMAIN sessionsData : tableQuery \in {0, sessionsData[i].project}})

RowBefore(i, j) ==
  LET a == filteredData[i]
      b == filteredData[j]
  IN  \/ sortDirection = "asc" /\ RowPrecedes(a, b)
      \/ sortDirection = "desc" /\ RowPrecedes(b, a)
      \/ ~RowPrecedes(a, b) /\ ~RowPrecedes(b, a) /\ i < j

sortedData ==
  LET rows == DOMAIN filteredData
      order == Ranked(rows, {p \in rows \X rows : RowBefore(p[1], p[2])})
  IN  IF sortColumn = "" THEN filteredData ELSE [i \in DOMAIN order |-> filteredData[order[i]]]

MissionStep == missionSteps < MaxMissionSteps /\ missionSteps' = missionSteps + 1

-----------------------------------------------------------------------------
MissionInit ==
  /\ time = 0 /\ statsAt = 0
  /\ conversations = {} /\ todoFiles = {} /\ planFiles = {}
  /\ activityFilter = ""
  /\ tableQuery = 0 /\ sortColumn = "" /\ sortDirection = "asc" /\ tableIndex = 0
  /\ navigated = NoRow
  /\ missionSteps = 0

(* Nothing renders the page again when time goes by.                        *)
TimeGoesBy ==
  /\ MissionStep
  /\ time < LastTime
  /\ time' = time + 1
  /\ UNCHANGED <<conversations, todoFiles, planFiles, statsAt, activityFilter, tableVars>>

ConversationsAnswered ==
  /\ MissionStep
  /\ conversations' = PresentState(World)
  /\ statsAt' = IF conversations' = conversations THEN statsAt ELSE time
  /\ UNCHANGED <<time, todoFiles, planFiles, activityFilter, tableVars>>

TodosAnswered ==
  /\ MissionStep
  /\ todoFiles' = PresentState(TodoWorld)
  /\ UNCHANGED <<time, conversations, planFiles, statsAt, activityFilter, tableVars>>

PlansAnswered ==
  /\ MissionStep
  /\ planFiles' = PresentState(PlanWorld)
  /\ UNCHANGED <<time, conversations, todoFiles, statsAt, activityFilter, tableVars>>

setActivityFilter(kind) ==
  /\ MissionStep
  /\ activityFilter' = kind
  /\ UNCHANGED <<time, conversations, todoFiles, planFiles, statsAt, tableVars>>

setSearchQuery(project) ==
  /\ MissionStep
  /\ tableQuery' = project
  /\ UNCHANGED <<time, conversations, todoFiles, planFiles, statsAt, activityFilter,
                 sortColumn, sortDirection, tableIndex, navigated>>

handleSort(column) ==
  /\ MissionStep
  /\ sortColumn' = column
  /\ sortDirection' = IF sortColumn = column /\ sortDirection = "asc" THEN "desc" ELSE "asc"
  /\ UNCHANGED <<time, conversations, todoFiles, planFiles, statsAt, activityFilter,
                 tableQuery, tableIndex, navigated>>

(* The index starts at -1 in the code, and at 0 here, where rows start at 1. *)
TableKeys == sortedData # <<>>

TableClick(i) ==
  /\ MissionStep
  /\ tableIndex' = i
  /\ navigated' = sortedData[i].id
  /\ UNCHANGED <<time, conversations, todoFiles, planFiles, statsAt, activityFilter,
                 tableQuery, sortColumn, sortDirection>>

TableArrow(step) ==
  /\ MissionStep
  /\ TableKeys
  /\ tableIndex' = IF step = 1
                      THEN IF tableIndex < Len(sortedData) THEN tableIndex + 1 ELSE Len(sortedData)
                      ELSE IF tableIndex > 1 THEN tableIndex - 1 ELSE 1
  /\ UNCHANGED <<time, conversations, todoFiles, planFiles, statsAt, activityFilter,
                 tableQuery, sortColumn, sortDirection, navigated>>

(* The index may be past the rows a search has left: handleSessionSelect is *)
(* then given undefined, and throws.                                        *)
TableEnter ==
  /\ MissionStep
  /\ TableKeys
  /\ tableIndex >= 1
  /\ navigated' = IF tableIndex \in DOMAIN sortedData THEN sortedData[tableIndex].id ELSE Undefined
  /\ UNCHANGED <<time, conversations, todoFiles, planFiles, statsAt, activityFilter,
                 tableQuery, sortColumn, sortDirection, tableIndex>>

MissionNext ==
  \/ TimeGoesBy \/ ConversationsAnswered \/ TodosAnswered \/ PlansAnswered
  \/ \E kind \in {"", "conversation", "todo", "plan"} : setActivityFilter(kind)
  \/ \E project \in {0} \union {s.project : s \in World} : setSearchQuery(project)
  \/ \E column \in {"project", "lastActivity"} : handleSort(column)
  \/ \E i \in DOMAIN sortedData : TableClick(i)
  \/ \E step \in {1, -1} : TableArrow(step)
  \/ TableEnter

MissionSpec == MissionInit /\ [][MissionNext]_missionVars

-----------------------------------------------------------------------------
MissionTypeOK ==
  /\ time \in 0 .. LastTime /\ statsAt \in 0 .. time
  /\ conversations \subseteq World /\ todoFiles \subseteq TodoWorld /\ planFiles \subseteq PlanWorld
  /\ activityFilter \in {"", "conversation", "todo", "plan"}
  /\ sortColumn \in {"", "project", "lastActivity"} /\ sortDirection \in {"asc", "desc"}
  /\ tableIndex \in 0 .. TableRows
  /\ navigated \in {s.id : s \in World} \union {NoRow, Undefined}
  /\ conversationsTotal >= sessionsLast24h /\ sessionsTrend >= -100
  /\ Range(FeedShown) \subseteq Range(activityEvents)

(* The feed cuts each list before it puts them in order, yet what happened  *)
(* last is never cut out of it: each of the FeedConversations latest        *)
(* conversations and of the FeedPlans latest plans the page knows of has    *)
(* its event in the feed (MissionControl.tsx:144-198), the feed goes from   *)
(* the latest to the earliest, and it starts no earlier than any of them.   *)
AmongLatest(s, S, n) == Cardinality({t \in S : t.last >= s.last}) <= n

FeedHoldsNewest ==
  /\ \A c \in conversations :
       AmongLatest(c, conversations, FeedConversations) => EventOf("conversation", c) \in Range(activityEvents)
  /\ \A p \in planFiles : AmongLatest(p, planFiles, FeedPlans) => EventOf("plan", p) \in Range(activityEvents)
  /\ \A i, j \in DOMAIN activityEvents : i < j => activityEvents[i].last >= activityEvents[j].last
  /\ \A s \in conversations \union planFiles : activityEvents # <<>> /\ activityEvents[1].last >= s.last

=============================================================================
