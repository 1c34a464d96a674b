--------------------------- MODULE SessionTimeline ---------------------------
(***************************************************************************)
(* The timeline of a session (pages/SessionTimeline.tsx): a sidebar with   *)
(* the sessions in groups by day (SessionListSidebar.tsx) and the events   *)
(* of the selected one (SessionEventTimeline.tsx, ui/Timeline.tsx).  Both  *)
(* have a search field that reports what is typed after a delay            *)
(* (ui/SearchInput.tsx, useDebouncedValue.ts); one that unmounts forgets   *)
(* what was typed and stops its timer, and one that mounts reports its     *)
(* empty text at once (the timer it starts then changes nothing).          *)
(***************************************************************************)
EXTENDS Naturals, Integers, Sequences, SequencesExt, FiniteSets, Arrays

CONSTANTS Conversations,    \* rows of the server: [id, session, day, count]
          Messages,         \* [session -> Seq([id, at, words])], in the order of time
          TimelineWord,             \* what may be searched for
          Today, NoneSelected, MaxTimelineSteps

TimelineSession == {c.session : c \in Conversations}

ASSUME TimelineAssumption == \A s \in TimelineSession : Messages[s] \in Seq(ToSet(Messages[s]))

Text == TimelineWord \union {""}
Orders == {"date-newest", "date-oldest", "activity", "messages"}
Kinds3 == {"conversations", "todos", "plans"}

VARIABLES isCollapsed, sideValue, sideTimer, sideQuery, sortBy,      \* the sidebar, with the timer of its field
          selectedSession, answeredFor,                   \* and whose messages have arrived
          timeValue, timeTimer, timeQuery, filters, currentMatchIndex,  \* the timeline
          expandedIds,                                    \* of the events' list, {} while it is not mounted
          timelineSteps

sidebar == <<isCollapsed, sideValue, sideTimer, sideQuery, sortBy>>
timeField == <<timeValue, timeTimer>>
timelineVars == <<sidebar, selectedSession, answeredFor, timeField, timeQuery, filters, currentMatchIndex, expandedIds, timelineSteps>>

-----------------------------------------------------------------------------
(* Conversations of one session count as one, with all their messages and   *)
(* the latest activity.                                                     *)
Summed(R, f(_)) == FoldSet(LAMBDA c, n : n + f(c), 0, R)
Aggregated(s) ==
  LET rows == {c \in Conversations : c.session = s}
  IN  [session |-> s,
       count |-> Summed(rows, LAMBDA c : c.count),
       day |-> CHOOSE d \in {c.day : c \in rows} : \A c \in rows : c.day <= d]

Before(order, a, b) ==
  CASE order = "date-oldest" -> a.day < b.day
    [] order = "messages" -> a.count > b.count
    [] OTHER -> a.day > b.day

(* A session whose activity lies ahead of the clock is put in this week. *)
GroupOf(day) ==
  CASE day = Today -> "Today"
    [] day = Today - 1 -> "Yesterday"
    [] day # Today /\ day # Today - 1 /\ day >= Today - 7 -> "This Week"
    [] OTHER -> "Older"

Listed(q) == {s \in TimelineSession : q = "" \/ q = s}

Groups(q, order) ==
  [g \in {"Today", "Yesterday", "This Week", "Older"} |->
     LET rows == {Aggregated(s) : s \in Listed(q)}
     IN  SetToSortSeq({r \in rows : GroupOf(r.day) = g}, LAMBDA a, b : Before(order, a, b))]

-----------------------------------------------------------------------------
(* Todos and plans have switches but no events: the summaries fetched do    *)
(* not name them by session, and both lists are empty.                      *)
Started(s) == [id |-> "start", at |-> Messages[s][1].at, words |-> {"started"}]

(* The start, the messages that have text, and a stable sort by time. *)
Events(s, on) ==
  LET shown == IF "conversations" \in on THEN Kept(Messages[s], {i \in DOMAIN Messages[s] : Messages[s][i].words # {}}) ELSE <<>>
  IN  IF Messages[s] = <<>> THEN <<>> ELSE <<Started(s)>> \o shown

filteredEvents(s, q, on) ==
  IF s = NoneSelected \/ s \notin answeredFor THEN <<>>
  ELSE LET all == Events(s, on) IN Kept(all, {i \in DOMAIN all : q = "" \/ q \in all[i].words})

shownEvents == filteredEvents(selectedSession, timeQuery, filters)
searchMatches == IF timeQuery = "" THEN <<>> ELSE shownEvents

(* The list of the events is mounted while it has something to show. *)
Expanded(s, q, on, ids) == IF filteredEvents(s, q, on) = <<>> THEN {} ELSE ids

TimelineInit ==
  /\ isCollapsed = FALSE /\ sideValue = "" /\ sideTimer = FALSE /\ sideQuery = "" /\ sortBy = "date-newest"
  /\ selectedSession = NoneSelected /\ answeredFor = {}
  /\ timeValue = "" /\ timeTimer = FALSE /\ timeQuery = "" /\ filters = Kinds3 /\ currentMatchIndex = 0
  /\ expandedIds = {} /\ timelineSteps = 0

-----------------------------------------------------------------------------
unchangedTimeline == UNCHANGED <<selectedSession, answeredFor, timeField, timeQuery, filters, currentMatchIndex, expandedIds>>

(* A key, or the button that clears the field; the timer starts anew. *)
TypeSide(t) ==
  /\ ~isCollapsed /\ sideValue' = t /\ sideTimer' = TRUE
  /\ UNCHANGED <<isCollapsed, sideQuery, sortBy>> /\ unchangedTimeline

SideSettles ==
  /\ sideTimer /\ sideTimer' = FALSE
  /\ sideQuery' = sideValue
  /\ UNCHANGED <<isCollapsed, sideValue, sortBy>> /\ unchangedTimeline

SetOrder(o) ==
  /\ ~isCollapsed /\ sortBy' = o
  /\ UNCHANGED <<isCollapsed, sideValue, sideTimer, sideQuery>> /\ unchangedTimeline

Collapse ==
  /\ ~isCollapsed /\ isCollapsed' = TRUE
  /\ sideValue' = "" /\ sideTimer' = FALSE
  /\ UNCHANGED <<sideQuery, sortBy>> /\ unchangedTimeline

QueryAtMountKept == sideQuery      \* faulty variant: only later changes are reported

(* SearchInput's effect: onSearch of the text it mounts with. *)
QueryAtMount == ""

Expand ==
  /\ isCollapsed /\ isCollapsed' = FALSE
  /\ sideQuery' = QueryAtMount
  /\ UNCHANGED <<sideValue, sideTimer, sortBy>> /\ unchangedTimeline

onSessionSelect(s) ==
  /\ ~isCollapsed /\ \E g \in DOMAIN Groups(sideQuery, sortBy) :
       \E i \in DOMAIN Groups(sideQuery, sortBy)[g] : Groups(sideQuery, sortBy)[g][i].session = s
  /\ selectedSession' = s
  /\ expandedIds' = Expanded(s, timeQuery, filters, expandedIds)
  /\ UNCHANGED <<sidebar, answeredFor, timeField, timeQuery, filters, currentMatchIndex>>

(* The messages, or an error, which shows as no events at all. *)
MessagesArrive(ok) ==
  /\ selectedSession # NoneSelected /\ selectedSession \notin answeredFor
  /\ answeredFor' = IF ok THEN answeredFor \union {selectedSession} ELSE answeredFor
  /\ UNCHANGED <<sidebar, selectedSession, timeField, timeQuery, filters, currentMatchIndex, expandedIds>>

TypeTime(t) ==
  /\ selectedSession # NoneSelected /\ timeValue' = t /\ timeTimer' = TRUE
  /\ UNCHANGED <<sidebar, selectedSession, answeredFor, timeQuery, filters, currentMatchIndex, expandedIds>>

(* The match stays at its index. *)
TimeSettles ==
  /\ timeTimer /\ timeTimer' = FALSE
  /\ timeQuery' = timeValue
  /\ expandedIds' = Expanded(selectedSession, timeValue, filters, expandedIds)
  /\ UNCHANGED <<sidebar, selectedSession, answeredFor, timeValue, filters, currentMatchIndex>>

toggleFilter(k) ==
  /\ selectedSession # NoneSelected
  /\ filters' = IF k \in filters THEN filters \ {k} ELSE filters \union {k}
  /\ expandedIds' = Expanded(selectedSession, timeQuery, filters', expandedIds)
  /\ UNCHANGED <<sidebar, selectedSession, answeredFor, timeField, timeQuery, currentMatchIndex>>

Stepped(d) == (currentMatchIndex + d + Len(searchMatches)) % Len(searchMatches)

(* handleNextMatch, handlePrevMatch. *)
StepMatch(d) ==
  /\ searchMatches # <<>>
  /\ currentMatchIndex' = Stepped(d)
  /\ UNCHANGED <<sidebar, selectedSession, answeredFor, timeField, timeQuery, filters, expandedIds>>

(* Not the start, which has no details. *)
toggleExpanded(id) ==
  /\ id # "start" /\ \E i \in DOMAIN shownEvents : shownEvents[i].id = id
  /\ expandedIds' = IF id \in expandedIds THEN expandedIds \ {id} ELSE expandedIds \union {id}
  /\ UNCHANGED <<sidebar, selectedSession, answeredFor, timeField, timeQuery, filters, currentMatchIndex>>

TimelineNext ==
  /\ timelineSteps < MaxTimelineSteps /\ timelineSteps' = timelineSteps + 1
  /\ \/ \E t \in (TimelineSession \union {""}) \ {sideValue} : TypeSide(t)
     \/ \E t \in Text \ {timeValue} : TypeTime(t)
     \/ SideSettles \/ TimeSettles \/ Collapse \/ Expand
     \/ \E o \in Orders \ {sortBy} : SetOrder(o)
     \/ \E s \in TimelineSession \ {selectedSession} : onSessionSelect(s)
     \/ \E ok \in BOOLEAN : MessagesArrive(ok)
     \/ \E k \in Kinds3 : toggleFilter(k)
     \/ \E d \in {1, -1} : StepMatch(d)
     \/ \E s \in TimelineSession : \E i \in DOMAIN Messages[s] : toggleExpanded(Messages[s][i].id)

TimelineSpec == TimelineInit /\ [][TimelineNext]_timelineVars

-----------------------------------------------------------------------------
(* Types of the variables. *)
TimelineTypeOK ==
  /\ sideValue \in TimelineSession \union {""} /\ sideQuery \in TimelineSession \union {""}
  /\ timeValue \in Text /\ timeQuery \in Text
  /\ filters \subseteq Kinds3 /\ currentMatchIndex \in Nat
  /\ expandedIds # {} => shownEvents # <<>>

(* A list is filtered by the text its field shows, unless the field's timer  *)
(* is running: also after the sidebar was collapsed while a search was on or *)
(* had not settled, and after the text was cleared or typed over before it   *)
(* was reported (SearchInput.tsx 55-65, SessionListSidebar.tsx 150-196).     *)
FilterIsShown ==
  /\ ~isCollapsed /\ ~sideTimer => sideQuery = sideValue
  /\ ~timeTimer => timeQuery = timeValue

=============================================================================
