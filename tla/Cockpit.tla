------------------------------- MODULE Cockpit -------------------------------
(***************************************************************************)
(* The cockpit of the legacy pages (pages/CockpitView.tsx): the list of    *)
(* sessions on the left (SessionListPanel.tsx) with a search field and     *)
(* keys, and what is known of the selected one on the right                *)
(* (SessionDetailPanel.tsx).  The selection and the tab live in the URL,   *)
(* the highlighted index in the list, the ticks of the todos in their tab. *)
(***************************************************************************)
EXTENDS Naturals, Integers, Sequences, SequencesExt, Arrays

CONSTANTS Session, Todos, CockpitQuery, Matches, NoSession, MaxCockpitSteps
\* Todos: the statuses of a session's todos; Matches: the sessions a query finds

Tabs == <<"conversations", "requests", "todos">>
TodoStatus == {"pending", "in_progress", "completed"}

ASSUME TodosAssumption == IsFiniteSet(Session) /\ NoSession \notin Session /\ Todos \in [Session -> Seq(TodoStatus)]

VARIABLES activity,             \* the server's sessions, by lastActivity, newest first
          list,                 \* useConversations: what the panel was given of it
          listQuery, selectedIndex,             \* SessionListPanel
          session, cockpitTab,  \* the URL; a bookmark may name a tab there is not
          todosKnown,           \* useTodoDetail: the sessions whose todos have arrived
          localTodos,           \* TodosTabContent: copy of the todos, NoSession while it is not mounted
          threw,                \* a handler ran into an undefined row
          cockpitSteps

cockpitVars == <<activity, list, listQuery, selectedIndex, session, cockpitTab, todosKnown, localTodos, threw, cockpitSteps>>

filteredSessions == {s \in ToSet(list) : listQuery = "" \/ s \in Matches[listQuery]}

(* Newest first, whatever the order of the answer. *)
sortedSessions == Kept(activity, {i \in DOMAIN activity : activity[i] \in filteredSessions})

(* What the todos tab is given; nothing before the answer. *)
TodosOf(s, known) == [of |-> s, todos |-> IF s \in known THEN Todos[s] ELSE <<>>]

LocalTodosKept(s, t, known) ==      \* faulty variant: the copy is made once, at mount
  IF s = NoSession \/ t # "todos" THEN NoSession ELSE IF localTodos = NoSession THEN TodosOf(s, known) ELSE localTodos

(* The tab mounts with a copy of its todos and takes a new one when they    *)
(* change, another session's too: there is no key.                          *)
LocalTodos(s, t, known) ==
  IF s = NoSession \/ t # "todos" THEN NoSession
  ELSE IF localTodos # NoSession /\ TodosOf(session, todosKnown) = TodosOf(s, known) THEN localTodos
  ELSE TodosOf(s, known)

(* navigate: search parameters session and tab. *)
NavigateTo(s, t) ==
  /\ session' = s /\ cockpitTab' = t
  /\ localTodos' = LocalTodos(s, t, todosKnown)

CockpitInit ==
  /\ activity \in SetToSeqs(Session)
  /\ list = activity
  /\ listQuery = "" /\ selectedIndex = -1
  /\ session \in Session \union {NoSession}
  /\ cockpitTab \in ToSet(Tabs) \union {"plans"}
  /\ todosKnown = {} /\ threw = FALSE /\ cockpitSteps = 0
  /\ localTodos = IF session = NoSession \/ cockpitTab # "todos" THEN NoSession ELSE TodosOf(session, {})

-----------------------------------------------------------------------------
handleRowClick(i) ==
  /\ selectedIndex' = i
  /\ NavigateTo(sortedSessions[i + 1], cockpitTab)
  /\ UNCHANGED <<activity, list, listQuery, todosKnown, threw>>

(* Keys of the panel, its search field included. *)
handleArrow(i) ==
  /\ sortedSessions # <<>>
  /\ selectedIndex' = i
  /\ NavigateTo(sortedSessions[i + 1], cockpitTab)
  /\ UNCHANGED <<activity, list, listQuery, todosKnown, threw>>

CockpitDown == handleArrow(IF selectedIndex + 1 < Len(sortedSessions) THEN selectedIndex + 1 ELSE Len(sortedSessions) - 1)
CockpitUp ==
  /\ selectedIndex - 1 < Len(sortedSessions)
  /\ handleArrow(IF selectedIndex > 0 THEN selectedIndex - 1 ELSE 0)

(* The row above the index may be gone, too. *)
CockpitUpBeyond ==
  /\ sortedSessions # <<>> /\ selectedIndex - 1 >= Len(sortedSessions)
  /\ selectedIndex' = selectedIndex - 1 /\ threw' = TRUE
  /\ UNCHANGED <<activity, list, listQuery, session, cockpitTab, todosKnown, localTodos>>

CockpitEnter ==
  /\ sortedSessions # <<>> /\ selectedIndex >= 0
  /\ IF selectedIndex < Len(sortedSessions)
       THEN NavigateTo(sortedSessions[selectedIndex + 1], cockpitTab) /\ UNCHANGED threw
       ELSE threw' = TRUE /\ UNCHANGED <<session, cockpitTab, localTodos>>
  /\ UNCHANGED <<activity, list, listQuery, selectedIndex, todosKnown>>

(* The index stays where it was. *)
CockpitSearch(q) ==
  /\ listQuery' = q
  /\ UNCHANGED <<activity, list, selectedIndex, session, cockpitTab, todosKnown, localTodos, threw>>

(* A session was worked on; the list is fetched again. *)
Worked(s) ==
  /\ activity' = <<s>> \o Kept(activity, {i \in DOMAIN activity : activity[i] # s})
  /\ list' = activity'
  /\ UNCHANGED <<listQuery, selectedIndex, session, cockpitTab, todosKnown, localTodos, threw>>

(* A tab, or one of the figures above the tabs. *)
onTabChange(t) ==
  /\ session # NoSession
  /\ NavigateTo(session, t)
  /\ UNCHANGED <<activity, list, listQuery, selectedIndex, todosKnown, threw>>

(* Left and right go round, from the tab that has the focus. *)
TabKey(d) ==
  /\ \E i \in DOMAIN Tabs : Tabs[i] = cockpitTab /\ onTabChange(Tabs[((i - 1 + d + Len(Tabs)) % Len(Tabs)) + 1])

TodosArrive ==
  /\ session # NoSession /\ session \notin todosKnown
  /\ todosKnown' = todosKnown \union {session}
  /\ localTodos' = LocalTodos(session, cockpitTab, todosKnown')
  /\ UNCHANGED <<activity, list, listQuery, selectedIndex, session, cockpitTab, threw>>

(* A tick, of the copy only. *)
handleToggle(i) ==
  /\ localTodos # NoSession /\ i \in DOMAIN localTodos.todos
  /\ localTodos' = [localTodos EXCEPT !.todos[i] =
       CASE @ = "completed" -> "pending" [] @ = "pending" -> "in_progress" [] OTHER -> "completed"]
  /\ UNCHANGED <<activity, list, listQuery, selectedIndex, session, cockpitTab, todosKnown, threw>>

CockpitNext ==
  /\ cockpitSteps < MaxCockpitSteps /\ cockpitSteps' = cockpitSteps + 1
  /\ \/ \E i \in 0..Len(sortedSessions) - 1 : handleRowClick(i)
     \/ CockpitDown \/ CockpitUp \/ CockpitUpBeyond \/ CockpitEnter
     \/ \E q \in CockpitQuery \ {listQuery} : CockpitSearch(q)
     \/ \E s \in Session : Worked(s)
     \/ \E i \in DOMAIN Tabs : onTabChange(Tabs[i])
     \/ TabKey(1) \/ TabKey(-1)
     \/ TodosArrive
     \/ \E i \in 1..2 : handleToggle(i)

CockpitSpec == CockpitInit /\ [][CockpitNext]_cockpitVars

-----------------------------------------------------------------------------
(* Types of the variables. *)
CockpitTypeOK ==
  /\ ToSet(list) = Session /\ Len(list) = Len(activity)
  /\ selectedIndex \in -1..Len(list) - 1
  /\ session \in Session \union {NoSession} /\ todosKnown \subseteq Session

(* The todos on the right are those of the session in the URL, as many as   *)
(* it has: neither another session's, nor those from before they arrived    *)
(* (SessionDetailPanel.tsx 354-378).                                        *)
TodosAreOfSession ==
  localTodos # NoSession =>
    /\ localTodos.of = session /\ cockpitTab = "todos"
    /\ Len(localTodos.todos) = Len(TodosOf(session, todosKnown).todos)

=============================================================================
