--------------------------- MODULE SessionsExplorer ---------------------------
(***************************************************************************)
(* The viewer's sessions page (SessionsExplorerPage.tsx): the session it   *)
(* selects, the tab and the row it shows, deep links with a focus          *)
(* (deep-links.ts), and the two ways to search for one: the palette of     *)
(* AppShellRoot.tsx and SearchPage.tsx.  Effects run after the render that *)
(* changed what they depend on, in the order of the source.                *)
(***************************************************************************)
EXTENDS Naturals

CONSTANTS ExplorerSession, Row, SessionOf, TabOf, LinkTab, First, PaletteQuery, PaletteHits, NoPayload, MaxExplorerGestures, MaxChanges
\* TabOf[r]: the tab of the table that lists r; LinkTab[r]: the tab a link to r names or "";
\* First[f]: the first session the filter f finds; PaletteHits[q]: the routes found for q,
\* NoPayload for a result without one

SessionFilter == DOMAIN First
ExplorerTab == {"messages", "todos", "plans", "files", "conversations"}
Route == [page : {"sessions", "search"}, session : ExplorerSession \union {NoPayload}, focus : Row \union {NoPayload}]
At(p, s, f) == [page |-> p, session |-> s, focus |-> f]

ASSUME ExplorerAssumption ==
  /\ SessionOf \in [Row -> ExplorerSession] /\ TabOf \in [Row -> ExplorerTab] /\ LinkTab \in [Row -> ExplorerTab \union {""}]
  /\ NoPayload \notin Row \union ExplorerSession
  /\ First \in [SessionFilter -> ExplorerSession \union {NoPayload}] /\ "" \in SessionFilter
  /\ PaletteHits \in [PaletteQuery -> SUBSET (Route \union {NoPayload})] /\ "" \in PaletteQuery
  /\ MaxExplorerGestures \in Nat /\ MaxChanges \in Nat

VARIABLES sessionRows,                        \* the server: the rows there are
          listed, detail, messages,    \* the query cache: filters listed, what a session's keys hold
          explorerRoute, filter, explorerTab, selection,
          paletteOpen, paletteQuery, found,   \* query, found: of the palette and of the search page
          clicked,                     \* history: a row was clicked since the page last changed
          explorerGestures, changes

explorerCache == <<listed, detail, messages>>
page == <<explorerRoute, filter, explorerTab, selection, clicked>>
routeSearch == <<paletteOpen, paletteQuery, found>>
explorerVars == <<sessionRows, explorerCache, page, routeSearch, explorerGestures, changes>>

(* selectedSessionId: the route's, or the first of the list once it is there. *)
Selected(r, f, l) ==
  IF r.session # NoPayload THEN r.session ELSE IF r.page = "sessions" /\ f \in l THEN First[f] ELSE NoPayload

(* What the effects depend on: focus, sessionDetail, sessionMessages. *)
View(r, f, l, d, m) ==
  LET s == Selected(r, f, l) IN
  [focus    |-> r.focus,
   detail   |-> IF s = NoPayload THEN NoPayload ELSE d[s],
   messages |-> IF s = NoPayload THEN NoPayload ELSE m[s]]
ThisView == View(explorerRoute, filter, listed, detail, messages)

(* The focused row is found in what is loaded, once the detail is: todos    *)
(* and files in it, messages in their own key; the rest has no focus.       *)
FocusMatch(v) ==
  /\ v.focus # NoPayload /\ v.detail # NoPayload
  /\ \/ TabOf[v.focus] \in {"todos", "files"} /\ v.focus \in v.detail
     \/ TabOf[v.focus] = "messages" /\ v.messages # NoPayload /\ v.focus \in v.messages

(* Faulty variant: the second effect does not depend on the messages. *)
LooksAgainNoMessages(old, new) == new.focus # old.focus \/ new.detail # old.detail

LooksAgain(old, new) == new # old

(* parseFocusFromSearch: a link without a tab means the messages. *)
FocusTab(r) == IF LinkTab[r] = "" THEN "messages" ELSE LinkTab[r]

(* The two effects; a page that was mounted anew starts from nothing. *)
Effects(mounted) ==
  LET now == View(explorerRoute', filter', listed', detail', messages') IN
  /\ explorerTab' = IF now.focus # NoPayload /\ (mounted \/ now.focus # explorerRoute.focus) THEN FocusTab(now.focus)
            ELSE IF mounted THEN "messages" ELSE explorerTab
  /\ selection' = IF (mounted \/ LooksAgain(ThisView, now)) /\ FocusMatch(now) THEN now.focus
                  ELSE IF mounted THEN NoPayload ELSE selection
  /\ clicked' = (clicked /\ now = ThisView /\ ~mounted)

ExplorerInit ==
  /\ sessionRows \in SUBSET Row
  /\ listed = {} /\ detail = [s \in ExplorerSession |-> NoPayload] /\ messages = [s \in ExplorerSession |-> NoPayload]
  /\ explorerRoute = At("sessions", NoPayload, NoPayload) /\ filter = "" /\ explorerTab = "messages" /\ selection = NoPayload
  /\ paletteOpen = FALSE /\ paletteQuery = [palette |-> "", page |-> ""] /\ found = {}
  /\ clicked = FALSE /\ explorerGestures = 0 /\ changes = 0

-----------------------------------------------------------------------------
(* Each of the routes "/sessions", "/sessions/$sessionId" and "/search" has *)
(* a component of its own; another session of the second keeps the page.    *)
GotoRoute(r) ==
  LET mounted == r.page # explorerRoute.page \/ (r.session = NoPayload) # (explorerRoute.session = NoPayload) IN
  /\ r # explorerRoute /\ explorerRoute' = r
  /\ filter' = IF mounted THEN "" ELSE filter
  /\ UNCHANGED explorerCache
  /\ IF r.page = "sessions" THEN Effects(mounted) ELSE explorerTab' = "messages" /\ selection' = NoPayload /\ clicked' = FALSE

(* The entries of the menu. *)
NavItem(p) ==
  /\ GotoRoute(At(p, NoPayload, NoPayload))
  /\ paletteQuery' = IF p = "search" /\ explorerRoute.page # p THEN [paletteQuery EXCEPT !.page = ""] ELSE paletteQuery
  /\ UNCHANGED <<sessionRows, paletteOpen, found>>

(* onSelectSession, of a session in the list. *)
SelectSession(s) ==
  /\ explorerRoute.page = "sessions" /\ filter \in listed
  /\ GotoRoute(At("sessions", s, NoPayload))
  /\ UNCHANGED <<sessionRows, routeSearch>>

SetFilter(f) ==
  /\ explorerRoute.page = "sessions" /\ f # filter /\ filter' = f
  /\ UNCHANGED <<explorerRoute, explorerCache>> /\ Effects(FALSE)
  /\ UNCHANGED <<sessionRows, routeSearch>>

SetTab(t) ==
  /\ explorerRoute.page = "sessions" /\ ThisView.detail # NoPayload /\ t # explorerTab /\ explorerTab' = t
  /\ UNCHANGED <<sessionRows, explorerCache, explorerRoute, filter, selection, clicked, routeSearch>>

(* A click on a row of the table shown. *)
SelectSessionRow(r) ==
  /\ explorerRoute.page = "sessions" /\ ThisView.detail # NoPayload /\ TabOf[r] = explorerTab
  /\ IF explorerTab = "messages" THEN ThisView.messages # NoPayload /\ r \in ThisView.messages ELSE r \in ThisView.detail
  /\ selection' = r /\ clicked' = TRUE
  /\ UNCHANGED <<sessionRows, explorerCache, explorerRoute, filter, explorerTab, routeSearch>>

-----------------------------------------------------------------------------
(* Answers of the server, the first of a key or after a live event: what    *)
(* equals the data there is keeps its identity.                             *)
LoadList ==
  /\ explorerRoute.page = "sessions" /\ filter \notin listed
  /\ listed' = listed \union {filter}
  /\ UNCHANGED <<explorerRoute, filter, detail, messages>> /\ Effects(FALSE)
  /\ UNCHANGED <<sessionRows, routeSearch>>

LoadSession(which) ==
  LET s == Selected(explorerRoute, filter, listed) IN
  /\ explorerRoute.page = "sessions" /\ s # NoPayload
  /\ \/ /\ which = "detail" /\ UNCHANGED messages
        /\ detail' = [detail EXCEPT ![s] = {r \in sessionRows : SessionOf[r] = s /\ TabOf[r] # "messages"}]
     \/ /\ which = "messages" /\ UNCHANGED detail
        /\ messages' = [messages EXCEPT ![s] = {r \in sessionRows : SessionOf[r] = s /\ TabOf[r] = "messages"}]
  /\ <<detail, messages>>' # <<detail, messages>>
  /\ UNCHANGED <<explorerRoute, filter, listed>> /\ Effects(FALSE)
  /\ UNCHANGED <<sessionRows, routeSearch>>

Change(r) ==
  /\ changes < MaxChanges /\ changes' = changes + 1
  /\ sessionRows' = IF r \in sessionRows THEN sessionRows \ {r} ELSE sessionRows \union {r}
  /\ UNCHANGED <<explorerCache, page, routeSearch, explorerGestures>>

-----------------------------------------------------------------------------
(* mod+K, "/" or the button; the close button. *)
TogglePalette ==
  /\ paletteOpen' = ~paletteOpen
  /\ UNCHANGED <<sessionRows, explorerCache, page, paletteQuery, found>>

SetPaletteQuery(w, q) ==
  /\ IF w = "palette" THEN paletteOpen ELSE explorerRoute.page = "search" /\ ~paletteOpen
  /\ q # paletteQuery[w] /\ paletteQuery' = [paletteQuery EXCEPT ![w] = q]
  /\ UNCHANGED <<sessionRows, explorerCache, page, paletteOpen, found>>

(* useV3Search of a query of two characters or more. *)
LoadResults(w) ==
  /\ IF w = "palette" THEN paletteOpen ELSE explorerRoute.page = "search"
  /\ paletteQuery[w] # "" /\ <<w, paletteQuery[w]>> \notin found
  /\ found' = found \union {<<w, paletteQuery[w]>>}
  /\ UNCHANGED <<sessionRows, explorerCache, page, paletteOpen, paletteQuery>>

(* The results of the query typed, none until they are there. *)
PaletteResults(w) == IF <<w, paletteQuery[w]>> \in found THEN PaletteHits[paletteQuery[w]] ELSE {}

(* A result is chosen: one without a route does nothing. *)
OpenResult(w, r) ==
  /\ IF w = "palette" THEN paletteOpen ELSE explorerRoute.page = "search" /\ ~paletteOpen
  /\ r \in PaletteResults(w) \ {NoPayload}
  /\ IF r = explorerRoute THEN UNCHANGED <<explorerCache, page>> ELSE GotoRoute(r)
  /\ paletteOpen' = FALSE
  /\ UNCHANGED <<sessionRows, paletteQuery, found>>

ExplorerUser ==
  \/ \E p \in {"sessions", "search"} : NavItem(p)
  \/ \E s \in ExplorerSession : SelectSession(s)
  \/ \E f \in SessionFilter : SetFilter(f)
  \/ \E t \in ExplorerTab : SetTab(t)
  \/ \E r \in Row : SelectSessionRow(r)
  \/ TogglePalette
  \/ \E w \in {"palette", "page"} : (\E q \in PaletteQuery : SetPaletteQuery(w, q)) \/ (\E r \in PaletteResults(w) : OpenResult(w, r))

ListAnswers ==
  \/ LoadList \/ (\E k \in {"detail", "messages"} : LoadSession(k))
  \/ \E w \in {"palette", "page"} : LoadResults(w)

ExplorerNext ==
  \/ ExplorerUser /\ explorerGestures < MaxExplorerGestures /\ explorerGestures' = explorerGestures + 1 /\ UNCHANGED changes
  \/ ListAnswers /\ UNCHANGED <<explorerGestures, changes>>
  \/ \E r \in Row : Change(r)

ExplorerSpec == ExplorerInit /\ [][ExplorerNext]_explorerVars

-----------------------------------------------------------------------------
(* Types of the variables. *)
ExplorerTypeOK ==
  /\ sessionRows \subseteq Row /\ listed \subseteq SessionFilter
  /\ detail \in [ExplorerSession -> (SUBSET Row) \union {NoPayload}] /\ messages \in [ExplorerSession -> (SUBSET Row) \union {NoPayload}]
  /\ explorerRoute \in Route /\ explorerTab \in ExplorerTab /\ selection \in Row \union {NoPayload}
  /\ paletteQuery \in [palette : PaletteQuery, page : PaletteQuery]

(* A deep link's row is selected as soon as it is loaded, whichever of the  *)
(* session and its messages arrives last, also when the page stays and only *)
(* the session changes; until the user selects another                      *)
(* (SessionsExplorerPage.tsx 51-80).                                        *)
FocusIsSelected ==
  explorerRoute.page = "sessions" /\ FocusMatch(ThisView) /\ ~clicked => selection = explorerRoute.focus
=============================================================================
