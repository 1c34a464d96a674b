------------------------- MODULE ViewerPagesProofs --------------------------
(***************************************************************************)
(* The pages that show one thing of many: the drawer of the extensions     *)
(* page, the row of the explorer, the page of a search, the parts of a     *)
(* message.  Each is the one that the path, the link, the query or the     *)
(* reader has named, for any data and any number of steps.                 *)
(***************************************************************************)
EXTENDS ExtensionsConfig, SessionsExplorer, ExtensionsHub, SessionTimeline, SessionDataPages, MessageContent, ArrayProofs, TLAPS

-----------------------------------------------------------------------------
(* The extensions page of the viewer.                                       *)

(* Arriving at a route opens the extension it names; one that names none   *)
(* keeps the drawer only while the route stays.                            *)
LEMMA ArrivalKeepsDrawer ==
  ASSUME DrawerIsOfPath, NEW to, NEW plugin, NEW tab, ArriveAtConfig(to, plugin, tab)
  PROVE  DrawerIsOfPath'
<1>1. configRoute' = to
  BY DEF ArriveAtConfig
<1>2. CASE (to = NoDrawer) # (configRoute = NoDrawer)
  BY <1>1, <1>2 DEF ArriveAtConfig, MountConfig, DrawerIsOfPath
<1>3. CASE (to = NoDrawer) = (configRoute = NoDrawer)
  <2>1. CASE to = configRoute
    BY <1>1, <1>3, <2>1 DEF ArriveAtConfig, DrawerIsOfPath
  <2>2. CASE to # configRoute
    <3>1. to # NoDrawer
      BY <1>3, <2>2
    <3>2. drawer' = to
      BY <1>3, <2>2, <3>1 DEF ArriveAtConfig, DrawerAfter
    <3> QED BY <1>1, <3>2 DEF DrawerIsOfPath
  <2> QED BY <2>1, <2>2
<1> QED BY <1>2, <1>3

LEMMA DrawerStep == DrawerIsOfPath /\ [ConfigNext]_configVars => DrawerIsOfPath'
<1> SUFFICES ASSUME DrawerIsOfPath, [ConfigNext]_configVars PROVE DrawerIsOfPath'
  OBVIOUS
<1>1. ASSUME NEW e \in ConfigRows, ClickExtension(e) PROVE DrawerIsOfPath'
  BY <1>1 DEF ClickExtension, DrawerIsOfPath
<1>2. ASSUME NEW to, NEW plugin, NEW tab, FollowConfigLink(to, plugin, tab) PROVE DrawerIsOfPath'
  BY <1>2, ArrivalKeepsDrawer DEF FollowConfigLink
<1>3. ASSUME ConfigBack PROVE DrawerIsOfPath'
  BY <1>3, ArrivalKeepsDrawer DEF ConfigBack
<1>4. ASSUME CloseDrawer PROVE DrawerIsOfPath'
  BY <1>4 DEF CloseDrawer, DrawerIsOfPath
<1>5. ASSUME UNCHANGED <<configRoute, drawer>> PROVE DrawerIsOfPath'
  BY <1>5 DEF DrawerIsOfPath
<1>6. ASSUME ConfigAnswer \/ DetailAnswer PROVE UNCHANGED <<configRoute, drawer>>
  BY <1>6 DEF ConfigAnswer, DetailAnswer
<1>7. ASSUME NEW t, NEW s, NEW b, NEW p, SetConfigFilters(t, s, b, p) PROVE UNCHANGED <<configRoute, drawer>>
  BY <1>7 DEF SetConfigFilters
<1>8. ASSUME NEW tab, SetConfigTab(tab) PROVE UNCHANGED <<configRoute, drawer>>
  BY <1>8 DEF SetConfigTab
<1>9. ASSUME UNCHANGED configVars PROVE UNCHANGED <<configRoute, drawer>>
  BY <1>9 DEF configVars
<1> QED BY <1>1, <1>2, <1>3, <1>4, <1>5, <1>6, <1>7, <1>8, <1>9 DEF ConfigNext

(* An open drawer shows the extension of the path, after clicks, links,    *)
(* Back and Forward (ExtensionsConfigPage.tsx 55-59, 171-174).             *)
THEOREM DrawerCorrect == ConfigSpec => []DrawerIsOfPath
<1>1. ConfigInit => DrawerIsOfPath
  BY DEF ConfigInit, DrawerIsOfPath
<1> QED BY <1>1, DrawerStep, PTL DEF ConfigSpec

-----------------------------------------------------------------------------
(* The sessions explorer and the palette.                                   *)

(* A row clicked is the selection until the view changes. *)
FocusInv == clicked \in BOOLEAN /\ FocusIsSelected

(* The view of the effects is the one the next step starts from. *)
LEMMA EffectsSelect ==
  ASSUME FocusInv, NEW mounted \in BOOLEAN, Effects(mounted),
         mounted \/ explorerRoute.page = "sessions"
  PROVE  FocusInv'
<1> DEFINE seen == ThisView'
<1>1. seen.focus = explorerRoute'.focus /\ ThisView.focus = explorerRoute.focus
  BY DEF ThisView, View
<1>2. /\ selection' = IF (mounted \/ seen # ThisView) /\ FocusMatch(seen) THEN seen.focus
                      ELSE IF mounted THEN NoPayload ELSE selection
      /\ clicked' = (clicked /\ seen = ThisView /\ ~mounted)
  BY DEF Effects, ThisView, LooksAgain
<1>3. FocusMatch(ThisView)' <=> FocusMatch(seen)
  BY DEF FocusMatch, ThisView
<1> HIDE DEF seen
<1>4. ASSUME FocusMatch(seen), ~clicked' PROVE selection' = explorerRoute'.focus
  <2>1. CASE mounted \/ seen # ThisView
    BY <1>1, <1>2, <1>4, <2>1
  <2>2. CASE ~mounted /\ seen = ThisView
    <3>1. ~clicked /\ FocusMatch(ThisView)
      BY <1>2, <1>4, <2>2 DEF FocusInv
    <3> QED BY <1>1, <1>2, <2>2, <3>1 DEF FocusInv, FocusIsSelected
  <2> QED BY <2>1, <2>2
<1> QED BY <1>2, <1>3, <1>4 DEF FocusInv, FocusIsSelected

LEMMA GotoRouteSelects == ASSUME FocusInv, NEW r, GotoRoute(r) PROVE FocusInv'
<1> DEFINE mounted == r.page # explorerRoute.page \/ (r.session = NoPayload) # (explorerRoute.session = NoPayload)
<1>1. mounted \in BOOLEAN /\ explorerRoute' = r
  BY DEF GotoRoute
<1>2. CASE r.page = "sessions"
  <2>1. Effects(mounted) /\ (mounted \/ explorerRoute.page = "sessions")
    BY <1>2 DEF GotoRoute
  <2> HIDE DEF mounted
  <2> QED BY <1>1, <2>1, EffectsSelect
<1>3. CASE r.page # "sessions"
  BY <1>1, <1>3 DEF GotoRoute, FocusInv, FocusIsSelected
<1> QED BY <1>2, <1>3

LEMMA FocusKept == ASSUME FocusInv, UNCHANGED <<explorerCache, explorerRoute, filter, selection, clicked>> PROVE FocusInv'
<1>1. ThisView' = ThisView
  BY DEF ThisView, View, Selected, explorerCache
<1> QED BY <1>1 DEF FocusInv, FocusIsSelected, FocusMatch

LEMMA FocusStep == FocusInv /\ [ExplorerNext]_explorerVars => FocusInv'
<1> SUFFICES ASSUME FocusInv, [ExplorerNext]_explorerVars PROVE FocusInv'
  OBVIOUS
<1>1. ASSUME NEW p, NavItem(p) PROVE FocusInv'
  BY <1>1, GotoRouteSelects DEF NavItem
<1>2. ASSUME NEW s, SelectSession(s) PROVE FocusInv'
  BY <1>2, GotoRouteSelects DEF SelectSession
<1>3. ASSUME NEW f, SetFilter(f) PROVE FocusInv'
  BY <1>3, EffectsSelect DEF SetFilter
<1>4. ASSUME NEW t, SetTab(t) PROVE FocusInv'
  BY <1>4, FocusKept DEF SetTab
<1>5. ASSUME NEW r, SelectSessionRow(r) PROVE FocusInv'
  BY <1>5 DEF SelectSessionRow, FocusInv, FocusIsSelected
<1>6. ASSUME LoadList PROVE FocusInv'
  BY <1>6, EffectsSelect DEF LoadList
<1>7. ASSUME NEW k, LoadSession(k) PROVE FocusInv'
  BY <1>7, EffectsSelect DEF LoadSession
<1>8. ASSUME NEW w, NEW r, OpenResult(w, r) PROVE FocusInv'
  BY <1>8, GotoRouteSelects, FocusKept DEF OpenResult, page
<1>9. ASSUME NEW r, Change(r) PROVE FocusInv'
  BY <1>9, FocusKept DEF Change, page
<1>10. ASSUME NEW w, NEW q, TogglePalette \/ SetPaletteQuery(w, q) \/ LoadResults(w) PROVE FocusInv'
  BY <1>10, FocusKept DEF TogglePalette, SetPaletteQuery, LoadResults, page
<1>11. ASSUME UNCHANGED explorerVars PROVE FocusInv'
  BY <1>11, FocusKept DEF explorerVars, page
<1> QED BY <1>1, <1>2, <1>3, <1>4, <1>5, <1>6, <1>7, <1>8, <1>9, <1>10, <1>11
        DEF ExplorerNext, ExplorerUser, ListAnswers

(* A deep link selects the row it names once the row is there, and only a   *)
(* click takes the selection away (SessionsExplorerPage.tsx 51-80).         *)
THEOREM FocusCorrect == ExplorerSpec => []FocusIsSelected
<1>1. ASSUME ExplorerInit PROVE FocusInv
  <2>1. ThisView.focus = NoPayload /\ clicked = FALSE
    BY <1>1 DEF ExplorerInit, ThisView, View, At
  <2> QED BY <2>1 DEF FocusInv, FocusIsSelected, FocusMatch
<1>2. FocusInv => FocusIsSelected
  BY DEF FocusInv
<1> QED BY <1>1, <1>2, FocusStep, PTL DEF ExplorerSpec

-----------------------------------------------------------------------------
(* The session timeline.                                                    *)

(* A field that is not mounted has no text left. *)
FieldInv == FilterIsShown /\ (isCollapsed => sideValue = "")

LEMMA FieldStep == FieldInv /\ [TimelineNext]_timelineVars => FieldInv'
<1> SUFFICES ASSUME FieldInv, [TimelineNext]_timelineVars PROVE FieldInv'
  OBVIOUS
<1>1. ASSUME NEW t, TypeSide(t) PROVE FieldInv'
  BY <1>1, Zenon DEF FieldInv, FilterIsShown, TypeSide, unchangedTimeline, timeField
<1>2. CASE SideSettles
  BY <1>2, Zenon DEF FieldInv, FilterIsShown, SideSettles, unchangedTimeline, timeField
<1>3. ASSUME NEW o, SetOrder(o) PROVE FieldInv'
  BY <1>3, Zenon DEF FieldInv, FilterIsShown, SetOrder, unchangedTimeline, timeField
<1>4. CASE Collapse
  BY <1>4, Zenon DEF FieldInv, FilterIsShown, Collapse, unchangedTimeline, timeField
<1>5. CASE Expand
  BY <1>5, Zenon DEF FieldInv, FilterIsShown, Expand, QueryAtMount, unchangedTimeline, timeField
<1>6. ASSUME NEW t, TypeTime(t) PROVE FieldInv'
  BY <1>6, Zenon DEF FieldInv, FilterIsShown, TypeTime, sidebar
<1>7. CASE TimeSettles
  BY <1>7, Zenon DEF FieldInv, FilterIsShown, TimeSettles, sidebar
<1>8. ASSUME UNCHANGED <<sidebar, timeField, timeQuery>> PROVE FieldInv'
  BY <1>8, Zenon DEF FieldInv, FilterIsShown, sidebar, timeField
<1>9. ASSUME NEW t, onSessionSelect(t) \/ MessagesArrive(t) \/ toggleFilter(t) \/ StepMatch(t) \/ toggleExpanded(t)
      PROVE  FieldInv'
  BY <1>8, <1>9, Zenon DEF onSessionSelect, MessagesArrive, toggleFilter, StepMatch, toggleExpanded
<1>10. CASE UNCHANGED timelineVars
  BY <1>8, <1>10, Zenon DEF timelineVars
<1> QED BY <1>1, <1>2, <1>3, <1>4, <1>5, <1>6, <1>7, <1>9, <1>10, Zenon DEF TimelineNext

(* A list is filtered by the text its field shows, unless the field's timer *)
(* is running (SearchInput.tsx 55-65, SessionListSidebar.tsx 150-196).      *)
THEOREM FilterCorrect == TimelineSpec => []FilterIsShown
<1>1. TimelineInit => FieldInv
  BY Zenon DEF TimelineInit, FieldInv, FilterIsShown
<1>2. FieldInv => FilterIsShown
  BY Zenon DEF FieldInv
<1> QED BY <1>1, <1>2, FieldStep, PTL DEF TimelineSpec

-----------------------------------------------------------------------------
(* The searches of todos and plans.                                         *)

(* How many rows the server has for a query and a status. *)
Hits(query, status) == FindHits[<<query, status>>]

FindText == SearchText \union ShortText \union {""}

(* No query, no request. *)
AnswersHaveText == \A status, from : <<"", status, from>> \notin findAnswered

(* The offset is that of a row of the query and status in use: either is    *)
(* reset, or they are the same.                                             *)
FindInv ==
  /\ findInput \in FindText /\ findQuery \in FindText /\ findStatus \in Statuses
  /\ offset \in Nat
  /\ AnswersHaveText
  /\ offset > 0 => offset < Hits(findQuery, findStatus)

LEMMA MaxOfTwo ==
  ASSUME NEW a \in Int, NEW b \in Int
  PROVE  /\ Max({a, b}) = IF a >= b THEN a ELSE b
         /\ Min({a, b}) = IF a <= b THEN a ELSE b
<1>1. Max({a, b}) = IF a >= b THEN a ELSE b
  BY DEF Max
<1>2. Min({a, b}) = IF a <= b THEN a ELSE b
  BY DEF Min
<1> QED BY <1>1, <1>2

(* The page of a row is one of the pages there are. *)
LEMMA PageOfRow ==
  ASSUME NEW row \in Nat, NEW rows \in Nat, row < rows
  PROVE  row \div Limit + 1 <= (rows + Limit - 1) \div Limit
<1> Limit \in Nat /\ Limit > 0
  BY FindAssumption
<1>1. PICK n \in Nat : n = row \div Limit
  OBVIOUS
<1>2. PICK m \in Nat : m = (rows + Limit - 1) \div Limit
  OBVIOUS
<1>3. n * Limit <= row
  BY <1>1
<1>4. rows + Limit - 1 < (m + 1) * Limit
  BY <1>2
<1>5. n * Limit < m * Limit
  BY <1>3, <1>4
<1>6. n < m
  BY <1>5
<1> QED BY <1>1, <1>2, <1>6

LEMMA TotalIsCount ==
  ASSUME FindInv
  PROVE  total \in Nat /\ (total > 0 => total = Hits(findQuery, findStatus))
<1>1. CASE FindKey \in findAnswered /\ findQuery \notin ShortText
  <2>1. findQuery \in SearchText
    BY <1>1 DEF FindInv, FindKey, FindText, AnswersHaveText
  <2>2. Hits(findQuery, findStatus) \in Nat
    BY <2>1, FindAssumption DEF FindInv, Hits
  <2> QED BY <1>1, <2>2 DEF total, Hits
<1>2. CASE ~(FindKey \in findAnswered /\ findQuery \notin ShortText)
  BY <1>2 DEF total
<1> QED BY <1>1, <1>2

LEMMA RowsAreShown == FindInv => PageShownExists
<1> SUFFICES ASSUME FindInv, total > 0 PROVE foundRows > 0 /\ Page <= Pages
  BY DEF PageShownExists
<1>1. total \in Nat /\ Limit \in Nat /\ Limit > 0 /\ offset \in Nat /\ offset < total
  BY TotalIsCount, FindAssumption DEF FindInv
<1>2. foundRows > 0
  BY <1>1, MaxOfTwo DEF foundRows
<1> QED BY <1>1, <1>2, PageOfRow DEF Page, Pages

LEMMA AnswersKept == ASSUME AnswersHaveText, UNCHANGED findAnswered PROVE AnswersHaveText'
BY DEF AnswersHaveText

LEMMA FindStep == FindInv /\ [DataNext \/ FindNext]_dataVars => FindInv'
<1> SUFFICES ASSUME FindInv, [DataNext \/ FindNext]_dataVars PROVE FindInv'
  OBVIOUS
<1>1. ASSUME UNCHANGED findVars PROVE FindInv'
  BY <1>1, AnswersKept DEF FindInv, findVars
<1>2. CASE DataNext
  <2>1. UNCHANGED findVars
    BY <1>2 DEF DataNext, EditFile, TodosLoad, PlansLoad, TodoDetail, PlanDetail, handleDataRefresh, Reindexed, RefetchTodos,
                RefetchPlans, RefreshFails, setActiveTab, setSearchTerm, SelectTodos, SelectPlan
  <2> QED BY <1>1, <2>1
<1>3. ASSUME NEW text \in FindText, TypeFind(text) PROVE FindInv'
  BY <1>3, AnswersKept DEF TypeFind, FindInv
<1>4. CASE FindSettles
  BY <1>4, AnswersKept DEF FindSettles, FindInv
<1>5. ASSUME NEW status \in Statuses, SetStatus(status) PROVE FindInv'
  BY <1>5, AnswersKept DEF SetStatus, FindInv
<1>6. CASE FindAnswer
  <2>1. AnswersHaveText'
    BY <1>6 DEF FindAnswer, FindInv, FindKey, AnswersHaveText
  <2> QED BY <1>6, <2>1 DEF FindAnswer, FindInv
<1>7. CASE PreviousPage
  <2>1. total \in Nat /\ total > Limit /\ Limit \in Nat /\ Limit > 0
    BY <1>7, TotalIsCount, FindAssumption DEF PreviousPage, Paged
  <2>2. Hits(findQuery, findStatus) \in Nat
    BY <2>1, TotalIsCount
  <2>3. offset' \in Nat /\ offset' <= offset
    BY <1>7, <2>1, MaxOfTwo DEF PreviousPage, FindInv
  <2> QED BY <1>7, <2>2, <2>3, AnswersKept DEF PreviousPage, FindInv
<1>8. CASE NextPage
  <2>1. total \in Nat /\ offset' = offset + Limit /\ offset' < total
    BY <1>8, TotalIsCount DEF NextPage, FindInv
  <2>2. total = Hits(findQuery, findStatus)
    BY <2>1, TotalIsCount, FindAssumption DEF FindInv
  <2> QED BY <1>8, <2>1, <2>2, FindAssumption, AnswersKept DEF NextPage, FindInv
<1>9. CASE UNCHANGED dataVars
  BY <1>1, <1>9 DEF dataVars
<1> QED BY <1>2, <1>3, <1>4, <1>5, <1>6, <1>7, <1>8, <1>9 DEF FindNext, FindText

LEMMA FindInitially == DataInit => FindInv
<1> SUFFICES ASSUME DataInit PROVE FindInv
  OBVIOUS
<1>1. findInput \in FindText /\ findQuery \in FindText /\ findStatus \in Statuses /\ AnswersHaveText /\ offset = 0
  BY DEF DataInit, FindText, Statuses, TodoState, AnswersHaveText
<1> QED BY <1>1 DEF FindInv

(* The page shown of what was found has rows, and its number is at most     *)
(* that of the pages (TodosSearch.tsx 11-18, 44-50, 121-140): each change   *)
(* of query or status goes back to the first page.                          *)
THEOREM PageCorrect == DataSpec => []PageShownExists
<1> QED BY FindInitially, FindStep, RowsAreShown, PTL DEF DataSpec

-----------------------------------------------------------------------------
(* The parts of a message.                                                  *)
LEMMA MinAndMax ==
  ASSUME NEW S \in SUBSET Int, IsFiniteSet(S), S # {}
  PROVE  /\ Min(S) \in S /\ \A x \in S : Min(S) <= x
         /\ Max(S) \in S /\ \A x \in S : x <= Max(S)
<1> DEFINE R == Earlier(S)
           n == Cardinality(S)
           s == Ranked(S, R)
<1>1. OrdersTotally(R, S) /\ n \in Nat /\ n # 0
  BY EarlierIsTotal, FS_CardinalityType, FS_EmptySet
<1>2. s \in [1 .. n -> S] /\ \A x \in S : \E k \in 1 .. n : s[k] = x
  <2>1. s \in [1 .. n -> S]
    BY <1>1, RankedLists
  <2>2. \A x \in S : \E k \in 1 .. n : s[k] = x
    BY <1>1, RankedHoldsAll
  <2> QED BY <2>1, <2>2
<1>3. \A i, j \in 1 .. n : i < j => s[i] < s[j]
  <2>1. \A i, j \in 1 .. n : i < j => <<s[i], s[j]>> \in R
    BY <1>1, RankedIsOrdered
  <2> QED BY <1>2, <2>1 DEF Earlier
<1> HIDE DEF s, n, R
<1>4. s[1] \in S /\ s[n] \in S /\ 1 \in 1 .. n /\ n \in 1 .. n
  BY <1>1, <1>2
<1>5. ASSUME NEW x \in S PROVE s[1] <= x /\ x <= s[n]
  <2>1. PICK k \in 1 .. n : s[k] = x
    BY <1>2
  <2>2. k = 1 \/ s[1] < s[k]
    BY <1>1, <1>3, <1>4
  <2>3. k = n \/ s[k] < s[n]
    BY <1>1, <1>3, <1>4
  <2>4. s[1] \in Int /\ s[n] \in Int /\ s[k] \in Int
    BY <1>4, <2>1
  <2> QED BY <2>1, <2>2, <2>3, <2>4
<1>6. Min(S) \in S /\ \A x \in S : Min(S) <= x
  BY <1>4, <1>5 DEF Min
<1>7. Max(S) \in S /\ \A x \in S : x <= Max(S)
  BY <1>4, <1>5 DEF Max
<1> QED BY <1>6, <1>7

LEMMA StretchMinAndMax ==
  ASSUME NEW i \in Int, NEW j \in Int, NEW S \in SUBSET (i .. j), S # {}
  PROVE  /\ Min(S) \in S /\ \A x \in S : Min(S) <= x
         /\ Max(S) \in S /\ \A x \in S : x <= Max(S)
<1>1. IsFiniteSet(S)
  BY FS_Interval, FS_Subset
<1>2. S \in SUBSET Int
  OBVIOUS
<1> QED BY <1>1, <1>2, MinAndMax

Stretches == [kind : {"text", "reminder"}, from : Int, to : Int]

(* One of the parts holds the place w, and no other does. *)
HoldsOnce(s, w) == \E k \in DOMAIN s : \A m \in DOMAIN s : IsIn(s[m], w) <=> m = k

(* A list of parts that holds each word from i to j once, and no others. *)
Covers(s, text, i, j) ==
  /\ s \in Seq(Stretches)
  /\ \A m \in DOMAIN s : i <= s[m].from /\ s[m].to <= j
  /\ \A w \in i .. j : IsWord(text[w]) => HoldsOnce(s, w)

LEMMA TrimmedCovers ==
  ASSUME NEW text, NEW kind \in {"text", "reminder"}, NEW i \in Int, NEW j \in Int, i <= j + 1
  PROVE  Covers(<<Trimmed(kind, text, i, j)>>, text, i, j)
<1> DEFINE P == Filling(text, i, j)
           t == Trimmed(kind, text, i, j)
<1>1. P \in SUBSET (i .. j) /\ \A w \in i .. j : IsWord(text[w]) => w \in P
  BY DEF Filling, IsWord
<1>2. /\ t \in Stretches /\ i <= t.from /\ t.to <= j
      /\ \A w \in i .. j : IsWord(text[w]) => IsIn(t, w)
  <2>1. CASE P = {}
    <3>1. t = Part(kind, i, i - 1)
      BY <2>1 DEF Trimmed
    <3> QED BY <1>1, <2>1, <3>1 DEF Part, Stretches
  <2>2. CASE P # {}
    <3>1. t = Part(kind, Min(P), Max(P))
      BY <2>2 DEF Trimmed
    <3>2. Min(P) \in i .. j /\ Max(P) \in i .. j /\ \A x \in P : Min(P) <= x /\ x <= Max(P)
      BY <1>1, <2>2, StretchMinAndMax
    <3> HIDE DEF P, t
    <3>3. t.kind = kind /\ t.from = Min(P) /\ t.to = Max(P) /\ t \in Stretches
      BY <3>1, <3>2 DEF Part, Stretches
    <3> QED BY <1>1, <3>2, <3>3 DEF IsIn
  <2> QED BY <2>1, <2>2
<1> HIDE DEF t
<1>3. <<t>> \in Seq(Stretches) /\ DOMAIN <<t>> = 1 .. 1 /\ <<t>>[1] = t
  BY <1>2
<1>4. \A m \in DOMAIN <<t>> : m = 1
  BY <1>3
<1>5. Covers(<<t>>, text, i, j)
  BY <1>2, <1>3, <1>4 DEF Covers, HoldsOnce
<1> QED BY <1>5 DEF t

LEMMA TextPartCovers ==
  ASSUME NEW text, NEW i \in Int, NEW j \in Int, i <= j + 1
  PROVE  Covers(TextPart(text, i, j), text, i, j)
<1>1. CASE Filling(text, i, j) = {}
  <2>1. TextPart(text, i, j) = <<>>
    BY <1>1 DEF TextPart
  <2>2. \A w \in i .. j : ~IsWord(text[w])
    BY <1>1 DEF Filling, IsWord
  <2> QED BY <2>1, <2>2 DEF Covers
<1>2. CASE Filling(text, i, j) # {}
  <2>1. TextPart(text, i, j) = <<Trimmed("text", text, i, j)>>
    BY <1>2 DEF TextPart
  <2> QED BY <2>1, TrimmedCovers
<1> QED BY <1>1, <1>2

(* What stands between two stretches is not a word. *)
LEMMA CoversJoin ==
  ASSUME NEW text, NEW s, NEW t, NEW i \in Int, NEW j \in Int, NEW c \in Int, NEW k \in Int,
         Covers(s, text, i, j), Covers(t, text, c, k), i <= c, j < c, j <= k,
         \A w \in j + 1 .. c - 1 : ~IsWord(text[w])
  PROVE  Covers(s \o t, text, i, k)
<1> DEFINE q == s \o t
           n == Len(s)
<1>1. s \in Seq(Stretches) /\ t \in Seq(Stretches) /\ n \in Nat /\ DOMAIN s = 1 .. n
  BY DEF Covers
<1>2. /\ q \in Seq(Stretches) /\ DOMAIN q = 1 .. n + Len(t) /\ DOMAIN t = 1 .. Len(t) /\ Len(t) \in Nat
      /\ \A m \in 1 .. n : q[m] = s[m]
      /\ \A m \in 1 .. Len(t) : q[n + m] = t[m]
  BY <1>1
<1>3. \A m \in DOMAIN s : s[m].from \in Int /\ s[m].to \in Int /\ i <= s[m].from /\ s[m].to <= j
  <2>1. \A m \in DOMAIN s : s[m] \in Stretches
    BY <1>1
  <2> QED BY <2>1 DEF Covers, Stretches
<1>4. \A m \in DOMAIN t : t[m].from \in Int /\ t[m].to \in Int /\ c <= t[m].from /\ t[m].to <= k
  <2>1. \A m \in DOMAIN t : t[m] \in Stretches
    BY <1>1
  <2> QED BY <2>1 DEF Covers, Stretches
<1> HIDE DEF q, n
<1>5. \A m \in DOMAIN q : m \in DOMAIN s \/ (m - n \in DOMAIN t /\ q[m] = t[m - n])
  <2> SUFFICES ASSUME NEW m \in DOMAIN q, m \notin DOMAIN s PROVE m - n \in DOMAIN t /\ q[m] = t[m - n]
    OBVIOUS
  <2>1. m - n \in 1 .. Len(t) /\ n + (m - n) = m
    BY <1>1, <1>2
  <2>2. q[n + (m - n)] = t[m - n]
    BY <1>2, <2>1
  <2> QED BY <1>2, <2>1, <2>2
<1>6. \A m \in DOMAIN q : i <= q[m].from /\ q[m].to <= k
  <2> SUFFICES ASSUME NEW m \in DOMAIN q PROVE i <= q[m].from /\ q[m].to <= k
    OBVIOUS
  <2>1. CASE m \in DOMAIN s
    BY <1>1, <1>2, <1>3, <2>1
  <2>2. CASE m - n \in DOMAIN t /\ q[m] = t[m - n]
    BY <1>4, <2>2
  <2> QED BY <1>5, <2>1, <2>2
<1>7. ASSUME NEW w \in i .. k, IsWord(text[w])
      PROVE  HoldsOnce(q, w)
  <2>1. w \in i .. j \/ w \in c .. k
    BY <1>7
  <2>2. CASE w \in i .. j
    <3>1. PICK e \in DOMAIN s : \A m \in DOMAIN s : IsIn(s[m], w) <=> m = e
      BY <1>7, <2>2 DEF Covers, HoldsOnce
    <3>2. \A m \in DOMAIN t : ~IsIn(t[m], w)
      BY <1>4, <2>2 DEF IsIn
    <3>3. e \in DOMAIN q /\ e \in 1 .. n
      BY <1>1, <1>2, <3>1
    <3>4. ASSUME NEW m \in DOMAIN q PROVE IsIn(q[m], w) <=> m = e
      <4>1. CASE m \in DOMAIN s
        BY <1>1, <1>2, <3>1, <4>1
      <4>2. CASE m - n \in DOMAIN t /\ q[m] = t[m - n]
        <5>1. m # e
          BY <1>1, <1>2, <3>3, <4>2
        <5> QED BY <3>2, <4>2, <5>1
      <4> QED BY <1>5, <4>1, <4>2
    <3> QED BY <3>3, <3>4 DEF HoldsOnce
  <2>3. CASE w \in c .. k
    <3>1. PICK e \in DOMAIN t : \A m \in DOMAIN t : IsIn(t[m], w) <=> m = e
      BY <1>7, <2>3 DEF Covers, HoldsOnce
    <3>2. \A m \in DOMAIN s : ~IsIn(s[m], w)
      BY <1>3, <2>3 DEF IsIn
    <3>3. n + e \in DOMAIN q /\ e \in 1 .. Len(t)
      BY <1>1, <1>2, <3>1
    <3>4. ASSUME NEW m \in DOMAIN q PROVE IsIn(q[m], w) <=> m = n + e
      <4>1. CASE m \in DOMAIN s
        <5>1. m # n + e /\ q[m] = s[m]
          BY <1>1, <1>2, <3>3, <4>1
        <5> QED BY <3>2, <4>1, <5>1
      <4>2. CASE m - n \in DOMAIN t /\ q[m] = t[m - n]
        <5>1. m - n = e <=> m = n + e
          BY <1>1, <1>2, <3>3
        <5> QED BY <3>1, <4>2, <5>1
      <4> QED BY <1>5, <4>1, <4>2
    <3> QED BY <3>3, <3>4 DEF HoldsOnce
  <2> QED BY <2>1, <2>2, <2>3
<1> QED BY <1>2, <1>6, <1>7 DEF Covers, q

(* One step of the loop of Parts, from place i on, with f the parts from    *)
(* each later place.                                                        *)
PartsFrom(text, i, f) ==
  LET a == FirstAt(text, "<reminder>", i)
      b == IF a = 0 THEN 0 ELSE FirstAt(text, "</reminder>", a + 1)
  IN IF b = 0 THEN TextPart(text, i, Len(text))
     ELSE TextPart(text, i, a - 1) \o <<Trimmed("reminder", text, a + 1, b - 1)>> \o f[b + 1]

LEMMA FirstAtIs ==
  ASSUME NEW text, NEW word, Len(text) \in Nat, NEW i \in Nat \ {0}
  PROVE  FirstAt(text, word, i) = 0 \/ (FirstAt(text, word, i) \in i .. Len(text) /\ text[FirstAt(text, word, i)] = word)
<1> DEFINE P == {k \in i .. Len(text) : text[k] = word}
<1>1. FirstAt(text, word, i) = IF P = {} THEN 0 ELSE Min(P)
  BY DEF FirstAt
<1>2. P \in SUBSET (i .. Len(text)) /\ \A k \in P : text[k] = word
  OBVIOUS
<1> HIDE DEF P
<1>3. P # {} => Min(P) \in P
  <2>1. i \in Int /\ Len(text) \in Int
    OBVIOUS
  <2> QED BY <1>2, <2>1, StretchMinAndMax
<1> QED BY <1>1, <1>2, <1>3

(* The loop goes forward: it looks only at the parts from a later place. *)
LEMMA LaterParts ==
  ASSUME NEW text, Len(text) \in Nat, NEW i \in 1 .. Len(text) + 1, NEW f, NEW g,
         \A m \in i + 1 .. Len(text) + 1 : f[m] = g[m]
  PROVE  PartsFrom(text, i, f) = PartsFrom(text, i, g)
<1> DEFINE a == FirstAt(text, "<reminder>", i)
           b == IF a = 0 THEN 0 ELSE FirstAt(text, "</reminder>", a + 1)
<1>1. a = 0 \/ a \in i .. Len(text)
  BY FirstAtIs
<1>2. a # 0 => FirstAt(text, "</reminder>", a + 1) = 0 \/ FirstAt(text, "</reminder>", a + 1) \in a + 1 .. Len(text)
  <2> HIDE DEF a
  <2> QED BY <1>1, FirstAtIs
<1>3. b # 0 => b + 1 \in i + 1 .. Len(text) + 1
  <2> HIDE DEF a
  <2> QED BY <1>1, <1>2
<1>4. PartsFrom(text, i, f) = IF b = 0 THEN TextPart(text, i, Len(text))
        ELSE TextPart(text, i, a - 1) \o <<Trimmed("reminder", text, a + 1, b - 1)>> \o f[b + 1]
  BY DEF PartsFrom
<1>5. PartsFrom(text, i, g) = IF b = 0 THEN TextPart(text, i, Len(text))
        ELSE TextPart(text, i, a - 1) \o <<Trimmed("reminder", text, a + 1, b - 1)>> \o g[b + 1]
  BY DEF PartsFrom
<1> HIDE DEF a, b
<1> QED BY <1>3, <1>4, <1>5

(* One step keeps what the later parts hold. *)
LEMMA StepCovers ==
  ASSUME NEW text, Len(text) \in Nat, NEW i \in 1 .. Len(text) + 1, NEW f,
         \A m \in i + 1 .. Len(text) + 1 : Covers(f[m], text, m, Len(text))
  PROVE  Covers(PartsFrom(text, i, f), text, i, Len(text))
<1> DEFINE n == Len(text)
           a == FirstAt(text, "<reminder>", i)
           b == IF a = 0 THEN 0 ELSE FirstAt(text, "</reminder>", a + 1)
           s == TextPart(text, i, a - 1)
           t == <<Trimmed("reminder", text, a + 1, b - 1)>>
<1>1. a = 0 \/ (a \in i .. n /\ text[a] = "<reminder>")
  BY FirstAtIs
<1>2. a # 0 => b = 0 \/ (b \in a + 1 .. n /\ text[b] = "</reminder>")
  <2> HIDE DEF a
  <2> QED BY <1>1, FirstAtIs
<1>3. PartsFrom(text, i, f) = IF b = 0 THEN TextPart(text, i, n) ELSE s \o t \o f[b + 1]
  BY DEF PartsFrom
<1>4. a = 0 => b = 0
  OBVIOUS
<1> HIDE DEF a, b, s, t
<1>5. CASE b = 0
  BY <1>3, <1>5, TextPartCovers
<1>6. CASE b # 0
  <2>1. a \in i .. n /\ b \in a + 1 .. n /\ ~IsWord(text[a]) /\ ~IsWord(text[b])
    BY <1>1, <1>2, <1>4, <1>6 DEF IsWord
  <2>2. Covers(s, text, i, a - 1)
    BY <2>1, TextPartCovers DEF s
  <2>3. Covers(t, text, a + 1, b - 1)
    BY <2>1, TrimmedCovers DEF t
  <2>4. Covers(s \o t, text, i, b - 1)
    BY <2>1, <2>2, <2>3, CoversJoin
  <2>5. Covers(f[b + 1], text, b + 1, n)
    BY <2>1
  <2>6. Covers((s \o t) \o f[b + 1], text, i, n)
    BY <2>1, <2>4, <2>5, CoversJoin
  <2> QED BY <1>3, <1>6, <2>6
<1> QED BY <1>5, <1>6

(* What Parts computes: its recursion has a solution, found from the end of *)
(* the text, and every solution holds each word once, wherever it starts.   *)
(* Were there places without, the last of them would have one.              *)
THEOREM PartsHoldEachWord ==
  ASSUME NEW text, Len(text) \in Nat
  PROVE  Covers(Parts(text), text, 1, Len(text))
<1> DEFINE n == Len(text)
           Step(f) == [i \in 1 .. n + 1 |-> PartsFrom(text, i, f)]
           Solves(f, k) == \A i \in k .. n + 1 : f[i] = PartsFrom(text, i, f)
<1>1. \A k \in 1 .. n + 1 : \E f : Solves(f, k)
  <2> DEFINE Without == {k \in 1 .. n + 1 : ~\E f : Solves(f, k)}
  <2> SUFFICES ASSUME Without # {} PROVE FALSE
    OBVIOUS
  <2>1. Without \in SUBSET (1 .. n + 1) /\ 1 \in Int /\ n + 1 \in Int
    OBVIOUS
  <2> HIDE DEF Without
  <2> DEFINE k == Max(Without)
  <2>2. k \in Without /\ \A x \in Without : x <= k
    BY <2>1, StretchMinAndMax
  <2> HIDE DEF k
  <2>9. k \in 1 .. n + 1
    BY <2>1, <2>2
  <2>3. \E f : Solves(f, k + 1)
    <3>1. CASE k = n + 1
      <4>1. k + 1 .. n + 1 = {}
        BY <3>1
      <4> QED BY <4>1
    <3>2. CASE k # n + 1
      <4>1. k + 1 \in 1 .. n + 1 /\ k + 1 \notin Without
        BY <2>1, <2>2, <3>2
      <4> QED BY <4>1 DEF Without
    <3> QED BY <3>1, <3>2
  <2>4. PICK f : Solves(f, k + 1)
    BY <2>3
  <2> DEFINE g == [i \in k .. n + 1 |-> IF i = k THEN PartsFrom(text, k, f) ELSE f[i]]
  <2>5. \A i \in k + 1 .. n + 1 : f[i] = g[i]
    BY <2>9
  <2>6. g[k] = PartsFrom(text, k, f)
    BY <2>9
  <2> HIDE DEF g
  <2>7. ASSUME NEW i \in k .. n + 1 PROVE g[i] = PartsFrom(text, i, g)
    <3>1. i \in 1 .. n + 1 /\ \A m \in i + 1 .. n + 1 : f[m] = g[m]
      BY <2>5, <2>9
    <3>2. PartsFrom(text, i, f) = PartsFrom(text, i, g)
      BY <3>1, LaterParts
    <3>3. CASE i = k
      BY <2>6, <3>2, <3>3
    <3>4. CASE i # k
      <4>1. i \in k + 1 .. n + 1
        BY <2>9, <3>4
      <4> QED BY <2>4, <2>5, <3>2, <4>1
    <3> QED BY <3>3, <3>4
  <2>8. Solves(g, k)
    BY <2>7
  <2> QED BY <2>2, <2>8 DEF Without
<1>2. \E f : f = Step(f)
  <2>1. PICK f : Solves(f, 1)
    BY <1>1
  <2> DEFINE g == [i \in 1 .. n + 1 |-> f[i]]
  <2>2. \A i \in 1 .. n + 1 : g[i] = f[i]
    OBVIOUS
  <2>3. ASSUME NEW i \in 1 .. n + 1 PROVE g[i] = PartsFrom(text, i, g)
    <3>1. \A m \in i + 1 .. n + 1 : f[m] = g[m]
      BY <2>2
    <3> HIDE DEF g
    <3>2. PartsFrom(text, i, f) = PartsFrom(text, i, g)
      BY <3>1, LaterParts
    <3> QED BY <2>1, <2>2, <3>2
  <2>4. g = [i \in 1 .. n + 1 |-> g[i]]
    OBVIOUS
  <2> HIDE DEF g
  <2> QED BY <2>3, <2>4
<1> DEFINE parts == CHOOSE f : f = Step(f)
<1>3. parts = Step(parts)
  <2> HIDE DEF Step
  <2> QED BY <1>2
<1>4. Parts(text) = parts[1]
  BY DEF Parts, PartsFrom
<1> HIDE DEF parts
<1>5. \A i \in 1 .. n + 1 : parts[i] = PartsFrom(text, i, parts)
  BY <1>3
<1>6. \A i \in 1 .. n + 1 : Covers(parts[i], text, i, n)
  <2> DEFINE Without == {i \in 1 .. n + 1 : ~Covers(parts[i], text, i, n)}
  <2> SUFFICES ASSUME Without # {} PROVE FALSE
    OBVIOUS
  <2>1. Without \in SUBSET (1 .. n + 1) /\ 1 \in Int /\ n + 1 \in Int
    OBVIOUS
  <2> HIDE DEF Without
  <2> DEFINE k == Max(Without)
  <2>2. k \in Without /\ \A x \in Without : x <= k
    BY <2>1, StretchMinAndMax
  <2> HIDE DEF k
  <2> USE DEF Without
  <2>3. \A m \in k + 1 .. n + 1 : Covers(parts[m], text, m, n)
    BY <2>2
  <2>4. Covers(PartsFrom(text, k, parts), text, k, n)
    BY <2>2, <2>3, StepCovers
  <2> QED BY <1>5, <2>2, <2>4
<1> QED BY <1>4, <1>6

(* The texts and the reminders, apart: each word is still in one part. *)
Apart(parts) == OfKind(parts, "text") \o OfKind(parts, "reminder")

LEMMA ApartHoldsEachWord ==
  ASSUME NEW text, NEW parts, Covers(parts, text, 1, Len(text)), NEW w \in 1 .. Len(text), IsWord(text[w]),
         NEW view, view = Apart(parts)
  PROVE  HoldsOnce(view, w)
<1> DEFINE T == {i \in DOMAIN parts : parts[i].kind = "text"}
           U == {i \in DOMAIN parts : parts[i].kind = "reminder"}
           x == Cardinality(T)
           y == Cardinality(U)
           one == Kept(parts, T)
           two == Kept(parts, U)
<1>1. parts \in Seq(Stretches) /\ DOMAIN parts = 1 .. Len(parts) /\ Len(parts) \in Nat
  BY DEF Covers
<1>2. T \in SUBSET Int /\ U \in SUBSET Int /\ IsFiniteSet(T) /\ IsFiniteSet(U)
  <2>1. T \in SUBSET (1 .. Len(parts)) /\ U \in SUBSET (1 .. Len(parts))
    BY <1>1
  <2> HIDE DEF T, U
  <2>2. IsFiniteSet(1 .. Len(parts))
    BY <1>1, CountsAreFinite
  <2>3. IsFiniteSet(T) /\ IsFiniteSet(U)
    BY <2>1, <2>2, FS_Subset
  <2> QED BY <2>1, <2>3
<1>3. DOMAIN parts = T \cup U /\ T \cap U = {}
  <2>1. \A i \in DOMAIN parts : parts[i] \in Stretches
    BY <1>1
  <2>2. \A i \in DOMAIN parts : parts[i].kind = "text" \/ parts[i].kind = "reminder"
    BY <2>1 DEF Stretches
  <2>3. DOMAIN parts = T \cup U
    BY <2>2
  <2>4. \A i : ~(i \in T /\ i \in U)
    OBVIOUS
  <2> QED BY <2>3, <2>4
<1> HIDE DEF T, U
<1>4. PICK a : /\ a \in [1 .. x -> T]
               /\ \A k \in 1 .. x : one[k] = parts[a[k]]
               /\ \A i \in T : \E k \in 1 .. x : a[k] = i
               /\ \A k, l \in 1 .. x : a[k] = a[l] => k = l
  <2>1. PICK a : KeepsAt(a, parts, T)
    BY <1>2, KeptPlaces
  <2> QED BY <2>1 DEF KeepsAt
<1>5. PICK b : /\ b \in [1 .. y -> U]
               /\ \A k \in 1 .. y : two[k] = parts[b[k]]
               /\ \A i \in U : \E k \in 1 .. y : b[k] = i
               /\ \A k, l \in 1 .. y : b[k] = b[l] => k = l
  <2>1. PICK b : KeepsAt(b, parts, U)
    BY <1>2, KeptPlaces
  <2> QED BY <2>1 DEF KeepsAt
<1>6. /\ x \in Nat /\ one \in Seq(Stretches) /\ Len(one) = x
      /\ y \in Nat /\ two \in Seq(Stretches) /\ Len(two) = y
  <2>1. x \in Nat /\ DOMAIN one = 1 .. x /\ y \in Nat /\ DOMAIN two = 1 .. y
    BY <1>2, KeptLists
  <2>2. one \in Seq({parts[i] : i \in T}) /\ Len(one) = x /\ two \in Seq({parts[i] : i \in U}) /\ Len(two) = y
    BY <1>2, KeptLists
  <2>0. \A i \in DOMAIN parts : parts[i] \in Stretches
    BY <1>1
  <2>3. {parts[i] : i \in T} \subseteq Stretches /\ {parts[i] : i \in U} \subseteq Stretches
    BY <1>3, <2>0
  <2> HIDE DEF one, two
  <2> QED BY <2>1, <2>2, <2>3
<1>7. view = one \o two
  BY DEF Apart, OfKind, T, U
<1> HIDE DEF x, y, one, two
<1>13. DOMAIN view = 1 .. x + y
  BY <1>6, <1>7, ConcatIs
<1>8. /\ \A m \in 1 .. x : view[m] = one[m]
      /\ \A m \in 1 .. y : view[x + m] = two[m]
  <2>1. one \in Seq(Stretches) /\ two \in Seq(Stretches)
    BY <1>6
  <2>2. /\ \A m \in 1 .. Len(one) : (one \o two)[m] = one[m]
        /\ \A m \in 1 .. Len(two) : (one \o two)[Len(one) + m] = two[m]
    BY <2>1, ConcatIs
  <2>3. x = Len(one) /\ y = Len(two)
    BY <1>6
  <2> QED BY <1>7, <2>2, <2>3
<1>14. x \in Nat /\ y \in Nat
  BY <1>6
<1>9. \A m \in 1 .. x + y : (m \in 1 .. x /\ view[m] = parts[a[m]])
                            \/ (m - x \in 1 .. y /\ m \notin 1 .. x /\ view[m] = parts[b[m - x]])
  <2> SUFFICES ASSUME NEW m \in 1 .. x + y, m \notin 1 .. x
               PROVE  m - x \in 1 .. y /\ view[m] = parts[b[m - x]]
    BY <1>4, <1>8, <1>13
  <2>1. m - x \in 1 .. y /\ x + (m - x) = m
    BY <1>6
  <2> QED BY <1>5, <1>8, <2>1
<1>10. PICK p \in DOMAIN parts : \A m \in DOMAIN parts : IsIn(parts[m], w) <=> m = p
  BY DEF Covers, HoldsOnce
<1>11. CASE p \in T
  <2>1. PICK k \in 1 .. x : a[k] = p
    BY <1>4, <1>11
  <2>2. ASSUME NEW m \in DOMAIN view PROVE IsIn(view[m], w) <=> m = k
    <3>1. CASE m \in 1 .. x /\ view[m] = parts[a[m]]
      <4>1. a[m] \in DOMAIN parts /\ (a[m] = p <=> m = k)
        BY <1>3, <1>4, <2>1, <3>1
      <4> QED BY <1>10, <3>1, <4>1
    <3>2. CASE m - x \in 1 .. y /\ m \notin 1 .. x /\ view[m] = parts[b[m - x]]
      <4>1. b[m - x] \in DOMAIN parts /\ b[m - x] # p /\ m # k
        BY <1>3, <1>5, <1>11, <2>1, <3>2
      <4> QED BY <1>10, <3>2, <4>1
    <3> QED BY <1>9, <1>13, <3>1, <3>2
  <2>3. k \in DOMAIN view
    BY <1>6, <1>13, <2>1
  <2> QED BY <2>2, <2>3 DEF HoldsOnce
<1>12. CASE p \in U
  <2>1. PICK k \in 1 .. y : b[k] = p
    BY <1>5, <1>12
  <2>2. ASSUME NEW m \in DOMAIN view PROVE IsIn(view[m], w) <=> m = x + k
    <3>1. CASE m \in 1 .. x /\ view[m] = parts[a[m]]
      <4>1. a[m] \in DOMAIN parts /\ a[m] # p
        BY <1>3, <1>4, <1>12, <3>1
      <4>2. m # x + k
        BY <1>14, <2>1, <3>1
      <4> QED BY <1>10, <3>1, <4>1, <4>2
    <3>2. CASE m - x \in 1 .. y /\ m \notin 1 .. x /\ view[m] = parts[b[m - x]]
      <4>1. b[m - x] \in DOMAIN parts /\ (b[m - x] = p <=> m - x = k)
        BY <1>3, <1>5, <2>1, <3>2
      <4>2. m - x = k <=> m = x + k
        <5>1. m \in 1 .. x + y
          BY <1>13
        <5>2. m \in Int /\ x \in Int /\ k \in Int
          BY <1>14, <2>1, <5>1
        <5> QED BY <5>2
      <4> QED BY <1>10, <3>2, <4>1, <4>2
    <3> QED BY <1>9, <1>13, <3>1, <3>2
  <2>3. x + k \in DOMAIN view
    BY <1>6, <1>13, <2>1
  <2> QED BY <2>2, <2>3 DEF HoldsOnce
<1> QED BY <1>3, <1>10, <1>11, <1>12

(* A text that is rendered shows each of its words once. *)
THEOREM TextShown ==
  ASSUME NEW text, text \in Seq(Range(text)), ~(TextKind(text) = "tools" /\ ToolsView(text) = <<>>),
         NEW w \in DOMAIN text, IsWord(text[w]), NEW view, view = TextView(text)
  PROVE  HoldsOnce(view, w)
<1> DEFINE n == Len(text)
<1>1. n \in Nat /\ w \in 1 .. n /\ DOMAIN text = 1 .. n
  OBVIOUS
<1>2. CASE TextKind(text) = "reminders"
  <2>1. view = Apart(Parts(text))
    BY <1>2 DEF TextView, ReminderView, Apart
  <2>2. Covers(Parts(text), text, 1, Len(text))
    BY <1>1, PartsHoldEachWord
  <2> QED BY <1>1, <2>1, <2>2, ApartHoldsEachWord
<1>3. CASE TextKind(text) = "tools"
  <2> DEFINE a == FirstAt(text, "<functions>", 1)
             b == FirstAt(text, "</functions>", a + 1)
             P == {k \in 1 .. n : text[k] = "<functions>"}
  <2>1. view = ToolsView(text) /\ view # <<>>
    BY <1>3 DEF TextView
  <2>2. b # 0 /\ view = <<Part("text", 1, a - 1), Part("tools", a + 1, b - 1), Part("text", b + 1, n)>>
    BY <2>1 DEF ToolsView
  <2>3. P # {}
    BY <1>1, <1>3 DEF TextKind, Contains
  <2>4. a = Min(P)
    BY <2>3 DEF FirstAt
  <2>5. a \in P
    <3>1. P \in SUBSET (1 .. n)
      OBVIOUS
    <3> HIDE DEF P, a
    <3>2. 1 \in Int /\ n \in Int
      BY <1>1
    <3>3. Min(P) \in P
      BY <2>3, <3>1, <3>2, StretchMinAndMax
    <3> QED BY <2>4, <3>3
  <2>6. a \in 1 .. n /\ text[a] = "<functions>"
    BY <2>5
  <2> HIDE DEF P, a
  <2>7. b \in a + 1 .. n /\ text[b] = "</functions>"
    <3>1. a + 1 \in Nat \ {0}
      BY <1>1, <2>6
    <3> QED BY <1>1, <2>2, <3>1, FirstAtIs
  <2> HIDE DEF b
  <2>8. w # a /\ w # b
    BY <2>6, <2>7 DEF IsWord
  <2>9. /\ DOMAIN view = 1 .. 3
        /\ IsIn(view[1], w) <=> w \in 1 .. a - 1
        /\ IsIn(view[2], w) <=> w \in a + 1 .. b - 1
        /\ IsIn(view[3], w) <=> w \in b + 1 .. n
    BY <2>2 DEF IsIn, Part
  <2>10. CASE w < a
    <3>1. IsIn(view[1], w) /\ ~IsIn(view[2], w) /\ ~IsIn(view[3], w)
      BY <1>1, <2>6, <2>7, <2>9, <2>10
    <3> QED BY <2>9, <3>1 DEF HoldsOnce
  <2>11. CASE a < w /\ w < b
    <3>1. ~IsIn(view[1], w) /\ IsIn(view[2], w) /\ ~IsIn(view[3], w)
      BY <1>1, <2>6, <2>7, <2>9, <2>11
    <3> QED BY <2>9, <3>1 DEF HoldsOnce
  <2>12. CASE b < w
    <3>1. ~IsIn(view[1], w) /\ ~IsIn(view[2], w) /\ IsIn(view[3], w)
      BY <1>1, <2>6, <2>7, <2>9, <2>12
    <3> QED BY <2>9, <3>1 DEF HoldsOnce
  <2> QED BY <1>1, <2>6, <2>7, <2>8, <2>10, <2>11, <2>12
<1>4. CASE TextKind(text) \notin {"reminders", "tools"}
  <2>1. view = <<Part("text", 1, n)>>
    BY <1>4 DEF TextView
  <2>2. DOMAIN view = 1 .. 1 /\ IsIn(view[1], w)
    BY <1>1, <2>1 DEF IsIn, Part
  <2> QED BY <2>2 DEF HoldsOnce
<1> QED BY <1>2, <1>3, <1>4

(* The longest common beginning and end. *)
LEMMA CommonParts ==
  ASSUME NEW old, NEW new, Len(old) \in Nat, Len(new) \in Nat
  PROVE  LET p == CommonPrefix(old, new)
             s == CommonSuffix(old, new)
         IN /\ p \in Nat /\ s \in Nat /\ p + s <= Len(old) /\ p + s <= Len(new)
            /\ \A i \in 1 .. p : old[i] = new[i]
            /\ \A i \in 0 .. s - 1 : old[Len(old) - i] = new[Len(new) - i]
            /\ old = new => p = Len(old)
<1> DEFINE p == CommonPrefix(old, new)
           s == CommonSuffix(old, new)
           shorter(x, y) == Min({x, y})
<1>1. ASSUME NEW x \in Nat, NEW y \in Nat
      PROVE  shorter(x, y) \in Nat /\ shorter(x, y) <= x /\ shorter(x, y) <= y /\ (x = y => shorter(x, y) = x)
  <2>1. {x, y} \in SUBSET (0 .. x + y) /\ {x, y} # {} /\ 0 \in Int /\ x + y \in Int
    OBVIOUS
  <2>2. Min({x, y}) \in {x, y} /\ \A z \in {x, y} : Min({x, y}) <= z
    BY <2>1, StretchMinAndMax
  <2> QED BY <2>2
<1> DEFINE a == shorter(Len(old), Len(new))
           P == {k \in 0 .. a : \A i \in 1 .. k : old[i] = new[i]}
<1>2. p = Max(P)
  BY DEF CommonPrefix
<1>3. a \in Nat /\ a <= Len(old) /\ a <= Len(new) /\ (old = new => a = Len(old))
  BY <1>1
<1> HIDE DEF shorter, a, p
<1>4. P \in SUBSET (0 .. a) /\ 0 \in P
  BY <1>3
<1>6. old = new => a \in P
  BY <1>3
<1>5. p \in P /\ \A k \in P : k <= p
  <2> HIDE DEF P
  <2>1. 0 \in Int /\ a \in Int /\ P # {}
    BY <1>3, <1>4
  <2> QED BY <1>2, <1>4, <2>1, StretchMinAndMax
<1>7. p \in Nat /\ p <= Len(old) /\ p <= Len(new) /\ (\A i \in 1 .. p : old[i] = new[i]) /\ (old = new => p = Len(old))
  BY <1>3, <1>5, <1>6
<1> HIDE DEF P
<1> DEFINE c == shorter(Len(old) - p, Len(new) - p)
           S == {k \in 0 .. c : \A i \in 0 .. k - 1 : old[Len(old) - i] = new[Len(new) - i]}
<1>8. s = Max(S)
  BY DEF CommonSuffix, p, shorter
<1>9. c \in Nat /\ c <= Len(old) - p /\ c <= Len(new) - p
  <2>1. Len(old) - p \in Nat /\ Len(new) - p \in Nat
    BY <1>7
  <2> QED BY <1>1, <2>1
<1> HIDE DEF c, s
<1>10. S \in SUBSET (0 .. c) /\ 0 \in S
  BY <1>9
<1>11. s \in S
  <2> HIDE DEF S
  <2>1. 0 \in Int /\ c \in Int /\ S # {}
    BY <1>9, <1>10
  <2> QED BY <1>8, <1>10, <2>1, StretchMinAndMax
<1>12. s \in Nat /\ s <= c /\ \A i \in 0 .. s - 1 : old[Len(old) - i] = new[Len(new) - i]
  BY <1>9, <1>11
<1>13. p + s <= Len(old) /\ p + s <= Len(new)
  BY <1>7, <1>9, <1>12
<1> QED BY <1>7, <1>12, <1>13 DEF p, s

(* One column of an edit: what is not marked is its beginning and its end.  *)
Column(lines, p, s) == [i \in DOMAIN lines |-> [line |-> lines[i], marked |-> i \in p + 1 .. Len(lines) - s]]
WithoutMiddle(lines, p, s) ==
  [k \in 1 .. p + s |-> [line |-> lines[AtEnds(Len(lines), p, s)[k]], marked |-> FALSE]]

LEMMA UnmarkedIs ==
  ASSUME NEW lines, Len(lines) \in Nat, DOMAIN lines = 1 .. Len(lines),
         NEW p \in Nat, NEW s \in Nat, p + s <= Len(lines)
  PROVE  Unmarked(Column(lines, p, s)) = WithoutMiddle(lines, p, s)
<1> DEFINE n == Len(lines)
           column == Column(lines, p, s)
<1>1. DOMAIN column = 1 .. n /\ \A i \in 1 .. n : column[i] = [line |-> lines[i], marked |-> i \in p + 1 .. n - s]
  BY DEF Column
<1>2. \A i \in 1 .. n : column[i].marked <=> i \in p + 1 .. n - s
  BY DEF Column
<1> HIDE DEF column
<1>3. {i \in DOMAIN column : ~column[i].marked} = Ends(n, p, s)
  BY <1>1, <1>2 DEF Ends
<1>4. Unmarked(column) = Kept(column, Ends(n, p, s))
  BY <1>3 DEF Unmarked
<1>5. Kept(column, Ends(n, p, s)) = [k \in 1 .. p + s |-> column[AtEnds(n, p, s)[k]]]
  <2>1. Kept(column, Ends(n, p, s)) = KeptAtEnds(column, n, p, s)
    BY KeptEnds
  <2> QED BY <2>1 DEF KeptAtEnds
<1>6. ASSUME NEW k \in 1 .. p + s
      PROVE  column[AtEnds(n, p, s)[k]] = [line |-> lines[AtEnds(n, p, s)[k]], marked |-> FALSE]
  <2> DEFINE at == AtEnds(n, p, s)[k]
  <2>1. at \in 1 .. n /\ at \notin p + 1 .. n - s
    BY DEF AtEnds
  <2> HIDE DEF at
  <2>3. (at \in p + 1 .. n - s) = FALSE
    BY <2>1
  <2>4. column[at] = [line |-> lines[at], marked |-> at \in p + 1 .. n - s]
    BY <1>1, <2>1
  <2>5. column[at] = [line |-> lines[at], marked |-> FALSE]
    BY <2>3, <2>4
  <2> QED BY <2>5 DEF at
<1>7. Unmarked(column) = WithoutMiddle(lines, p, s)
  BY <1>4, <1>5, <1>6 DEF WithoutMiddle
<1> QED BY <1>7 DEF column

(* The lines of an edit that are not marked are the same on both sides,     *)
(* also when lines repeat, and an edit that changes nothing marks none      *)
(* (EditTool.tsx 102-142).                                                  *)
THEOREM EditShown ==
  ASSUME NEW old, NEW new, old \in Seq(Range(old)), new \in Seq(Range(new)),
         NEW d, d = CodeDiff(old, new)
  PROVE  /\ Unmarked(d.old) = Unmarked(d.new)
         /\ old = new => Unmarked(d.old) = d.old
<1> DEFINE p == CommonPrefix(old, new)
           s == CommonSuffix(old, new)
<1>1. /\ Len(old) \in Nat /\ DOMAIN old = 1 .. Len(old)
      /\ Len(new) \in Nat /\ DOMAIN new = 1 .. Len(new)
  OBVIOUS
<1>2. p \in Nat /\ s \in Nat /\ p + s <= Len(old) /\ p + s <= Len(new)
  BY <1>1, CommonParts
<1>3. /\ \A i \in 1 .. p : old[i] = new[i]
      /\ \A i \in 0 .. s - 1 : old[Len(old) - i] = new[Len(new) - i]
      /\ old = new => p = Len(old)
  BY <1>1, CommonParts
<1>4. d.old = Column(old, p, s) /\ d.new = Column(new, p, s)
  BY DEF CodeDiff, computeDiff, Column
<1> HIDE DEF p, s
<1>5. Unmarked(d.old) = WithoutMiddle(old, p, s) /\ Unmarked(d.new) = WithoutMiddle(new, p, s)
  BY <1>1, <1>2, <1>4, UnmarkedIs
<1>6. ASSUME NEW k \in 1 .. p + s PROVE old[AtEnds(Len(old), p, s)[k]] = new[AtEnds(Len(new), p, s)[k]]
  <2>1. CASE k <= p
    <3>1. AtEnds(Len(old), p, s)[k] = k /\ AtEnds(Len(new), p, s)[k] = k
      BY <2>1 DEF AtEnds
    <3>2. k \in 1 .. p
      BY <1>2, <2>1
    <3> QED BY <1>3, <3>1, <3>2
  <2>2. CASE ~(k <= p)
    <3>1. PICK i \in 0 .. s - 1 : k = p + s - i
      <4>1. s - (k - p) \in 0 .. s - 1 /\ k = p + s - (s - (k - p))
        BY <1>2, <2>2
      <4> QED BY <4>1
    <3>2. ASSUME NEW n \in Nat PROVE AtEnds(n, p, s)[k] = n - i
      <4>1. AtEnds(n, p, s)[k] = n - s + (k - p)
        BY <2>2 DEF AtEnds
      <4> QED BY <1>2, <3>1, <4>1
    <3> QED BY <1>1, <1>3, <3>2
  <2> QED BY <2>1, <2>2
<1>7. Unmarked(d.old) = Unmarked(d.new)
  BY <1>5, <1>6 DEF WithoutMiddle
<1>8. ASSUME old = new PROVE Unmarked(d.old) = d.old
  <2>1. p = Len(old)
    BY <1>3, <1>8
  <2>2. s = 0
    BY <1>1, <1>2, <2>1
  <2>3. ASSUME NEW k \in 1 .. Len(old)
        PROVE  [line |-> old[AtEnds(Len(old), p, s)[k]], marked |-> FALSE] = [line |-> old[k], marked |-> k \in p + 1 .. Len(old) - s]
    <3>1. AtEnds(Len(old), p, s)[k] = k
      BY <1>1, <2>1, <2>2 DEF AtEnds
    <3>2. k \notin p + 1 .. Len(old) - s
      BY <1>1, <2>1, <2>2
    <3>3. (k \in p + 1 .. Len(old) - s) = FALSE
      BY <3>2
    <3> QED BY <3>1, <3>3
  <2>4. p + s = Len(old)
    BY <1>1, <2>1, <2>2
  <2>5. WithoutMiddle(old, p, s) = [k \in 1 .. Len(old) |-> [line |-> old[AtEnds(Len(old), p, s)[k]], marked |-> FALSE]]
    BY <2>4 DEF WithoutMiddle
  <2>6. d.old = [k \in 1 .. Len(old) |-> [line |-> old[k], marked |-> k \in p + 1 .. Len(old) - s]]
    BY <1>1, <1>4 DEF Column
  <2> QED BY <1>5, <2>3, <2>5, <2>6
<1> QED BY <1>7, <1>8

(* Every todo has one of the three states. *)
THEOREM TodosShown ==
  ASSUME NEW todos, todos \in Seq({"in_progress", "pending", "completed"})
  PROVE  Len(TodosListed(todos)) = Len(todos)
<1> DEFINE n == Len(todos)
           A == WithStatus(todos, "in_progress")
           B == WithStatus(todos, "pending")
           C == WithStatus(todos, "completed")
<1>1. n \in Nat /\ DOMAIN todos = 1 .. n
  OBVIOUS
<1>2. A \cup B \cup C = 1 .. n /\ A \cap B = {} /\ (A \cup B) \cap C = {}
  BY <1>1 DEF WithStatus
<1>3. IsFiniteSet(1 .. n) /\ Cardinality(1 .. n) = n
  BY <1>1, FS_Interval
<1> HIDE DEF A, B, C
<1>4. IsFiniteSet(A) /\ IsFiniteSet(B) /\ IsFiniteSet(C) /\ IsFiniteSet(A \cup B)
  BY <1>2, <1>3, FS_Subset
<1>5. Cardinality(A \cup B) = Cardinality(A) + Cardinality(B) - Cardinality(A \cap B)
  BY <1>4, FS_Union
<1>6. Cardinality((A \cup B) \cup C) = Cardinality(A \cup B) + Cardinality(C) - Cardinality((A \cup B) \cap C)
  BY <1>4, FS_Union
<1>7. Cardinality(A) \in Nat /\ Cardinality(B) \in Nat /\ Cardinality(C) \in Nat /\ Cardinality({}) = 0
  BY <1>4, FS_CardinalityType, FS_EmptySet
<1>8. Cardinality(A) + Cardinality(B) + Cardinality(C) = n
  <2>1. Cardinality(A \cap B) = 0 /\ Cardinality((A \cup B) \cap C) = 0
    BY <1>2, <1>7
  <2>2. Cardinality((A \cup B) \cup C) = n
    BY <1>2, <1>3
  <2> QED BY <1>5, <1>6, <1>7, <2>1, <2>2
<1>9. /\ Kept(todos, A) \in Seq({todos[i] : i \in A}) /\ Len(Kept(todos, A)) = Cardinality(A)
      /\ Kept(todos, B) \in Seq({todos[i] : i \in B}) /\ Len(Kept(todos, B)) = Cardinality(B)
      /\ Kept(todos, C) \in Seq({todos[i] : i \in C}) /\ Len(Kept(todos, C)) = Cardinality(C)
  <2>1. A \in SUBSET Int /\ B \in SUBSET Int /\ C \in SUBSET Int
    BY <1>2
  <2> QED BY <1>4, <2>1, KeptLists
<1>10. Len((Kept(todos, A) \o Kept(todos, B)) \o Kept(todos, C)) = Cardinality(A) + Cardinality(B) + Cardinality(C)
  <2> DEFINE a == Kept(todos, A)
             b == Kept(todos, B)
             c == Kept(todos, C)
             V == {todos[i] : i \in A} \cup {todos[i] : i \in B} \cup {todos[i] : i \in C}
  <2>1. a \in Seq(V) /\ b \in Seq(V) /\ c \in Seq(V)
    BY <1>9
  <2> HIDE DEF a, b, c, V
  <2>2. Len((a \o b) \o c) = Len(a) + Len(b) + Len(c)
    BY <2>1
  <2> QED BY <1>9, <2>2 DEF a, b, c
<1> QED BY <1>8, <1>10 DEF TodosListed, A, B, C

(* What is on the page is a request of the thread. *)
ContentIsOfThread ==
  /\ thread \in Threads /\ shownRequest \in 1 .. 2
  /\ content \in {NoContentYet, thread[shownRequest]}

LEMMA ContentStep == ContentIsOfThread /\ [MessageNext]_messageVars => ContentIsOfThread'
<1> SUFFICES ASSUME ContentIsOfThread, [MessageNext]_messageVars PROVE ContentIsOfThread'
  OBVIOUS
<1> USE DEF ContentIsOfThread
<1>1. CASE ShowDetail
  BY <1>1 DEF ShowDetail
<1>2. ASSUME NEW r \in 1 .. 2, ShowRequest(r) PROVE ContentIsOfThread'
  BY <1>2 DEF ShowRequest
<1>3. ASSUME NEW p \in 1 .. 2, ToggleTool(p) PROVE ContentIsOfThread'
  BY <1>3 DEF ToggleTool
<1>4. ASSUME NEW p \in 1 .. 2, ToggleLightbox(p) PROVE ContentIsOfThread'
  BY <1>4 DEF ToggleLightbox
<1>5. ASSUME NEW p \in 1 .. 2, ImageFails(p) PROVE ContentIsOfThread'
  BY <1>5 DEF ImageFails
<1>6. ASSUME NEW p, NEW mark, ToggleInner(p, mark) PROVE ContentIsOfThread'
  BY <1>6 DEF ToggleInner
<1>7. CASE UNCHANGED messageVars
  BY <1>7 DEF messageVars
<1> QED BY <1>1, <1>2, <1>3, <1>4, <1>5, <1>6, <1>7 DEF MessageNext

LEMMA ContentIsShown == ContentIsOfThread => ShownInFull
<1> SUFFICES ASSUME ContentIsOfThread, content # NoContentYet, ~Hangs, NEW p \in DOMAIN content.blocks
             PROVE  LET b == Block(p) IN
                    /\ b.type = "text"
                         => LET view == TextView(b.text) IN
                            \A i \in DOMAIN b.text :
                              IsWord(b.text[i]) => \E k \in DOMAIN view : \A m \in DOMAIN view : IsIn(view[m], i) <=> m = k
                    /\ b.type = "tool_use" /\ b.name = "Edit"
                         => LET d == CodeDiff(b.old, b.new) IN
                            /\ Unmarked(d.old) = Unmarked(d.new)
                            /\ b.old = b.new => Unmarked(d.old) = d.old
                    /\ b.type = "tool_use" /\ b.name = "TodoWrite" => Len(TodosListed(b.todos)) = Len(b.todos)
  BY DEF ShownInFull
<1> DEFINE b == Block(p)
<1>1. content # NoContentYet /\ ~Hangs /\ p \in DOMAIN content.blocks
  OBVIOUS
<1>2. ~NeverRendered(b)
  BY <1>1 DEF Hangs, Block
<1>3. IsBlock(b)
  <2>1. content = thread[shownRequest] /\ b \in Range(content.blocks)
    BY <1>1 DEF ContentIsOfThread, Block, Range
  <2> QED BY <2>1, MessageAssumption DEF ContentIsOfThread
<1> HIDE DEF b
<1>4. ASSUME b.type = "text", NEW i \in DOMAIN b.text, IsWord(b.text[i])
      PROVE  \E k \in DOMAIN TextView(b.text) : \A m \in DOMAIN TextView(b.text) : IsIn(TextView(b.text)[m], i) <=> m = k
  <2>1. b.text \in Seq(Range(b.text)) /\ ~(TextKind(b.text) = "tools" /\ ToolsView(b.text) = <<>>)
    BY <1>2, <1>3, <1>4 DEF IsBlock, IsList, NeverRendered
  <2> QED BY <1>4, <2>1, TextShown DEF HoldsOnce
<1>5. ASSUME b.type = "tool_use", b.name = "Edit"
      PROVE  /\ Unmarked(CodeDiff(b.old, b.new).old) = Unmarked(CodeDiff(b.old, b.new).new)
             /\ b.old = b.new => Unmarked(CodeDiff(b.old, b.new).old) = CodeDiff(b.old, b.new).old
  <2>1. b.old \in Seq(Range(b.old)) /\ b.new \in Seq(Range(b.new))
    BY <1>3, <1>5 DEF IsBlock, IsList
  <2> QED BY <2>1, EditShown
<1>6. ASSUME b.type = "tool_use", b.name = "TodoWrite" PROVE Len(TodosListed(b.todos)) = Len(b.todos)
  BY <1>3, <1>6, TodosShown DEF IsBlock
<1> QED BY <1>4, <1>5, <1>6 DEF b

(* Where its rendering ends, nothing of a message is lost or shown twice    *)
(* (MessageContent.tsx 227-253, EditTool.tsx 102-142, TodoWriteTool.tsx).   *)
THEOREM ShownCorrect == MessageSpec => []ShownInFull
<1>1. MessageInit => ContentIsOfThread
  BY DEF MessageInit, ContentIsOfThread
<1> QED BY <1>1, ContentStep, ContentIsShown, PTL DEF MessageSpec

-----------------------------------------------------------------------------
(* The types of the explorer.                                              *)
(* The cache has rows, of the filters there are; the page shows what exists. *)
CacheTyped ==
  /\ sessionRows \subseteq Row /\ listed \subseteq SessionFilter
  /\ detail \in [ExplorerSession -> (SUBSET Row) \union {NoPayload}]
  /\ messages \in [ExplorerSession -> (SUBSET Row) \union {NoPayload}]
PageTyped == explorerRoute \in Route /\ explorerTab \in ExplorerTab /\ selection \in Row \union {NoPayload}
FilterTyped == filter \in SessionFilter
QueryTyped == paletteQuery \in [palette : PaletteQuery, page : PaletteQuery]
ExplorerTypes == CacheTyped /\ PageTyped /\ FilterTyped /\ QueryTyped

(* The empty texts are a filter and a query, and a link without a tab has one. *)
LEMMA EmptyIsFilter ==
  /\ "" \in SessionFilter /\ "" \in PaletteQuery
  /\ \A r \in Row : FocusTab(r) \in ExplorerTab
<1>1. "messages" \in ExplorerTab
  BY DEF ExplorerTab
<1>2. ASSUME NEW r \in Row PROVE LinkTab[r] \in ExplorerTab \/ LinkTab[r] = ""
  <2>1. LinkTab \in [Row -> ExplorerTab \union {""}]
    BY Zenon, ExplorerAssumption
  <2> QED BY <2>1, Zenon
<1>3. ASSUME NEW r \in Row PROVE FocusTab(r) \in ExplorerTab
  BY <1>1, <1>2, Zenon DEF FocusTab
<1> QED BY <1>3, ExplorerAssumption, Zenon

LEMMA FoundAreRoutes == ASSUME NEW w, NEW r, r \in PaletteResults(w) \ {NoPayload}, <<w, paletteQuery[w]>> \in found => paletteQuery[w] \in PaletteQuery PROVE r \in Route
<1>1. \A q \in PaletteQuery : PaletteHits[q] \subseteq Route \union {NoPayload}
  <2>1. PaletteHits \in [PaletteQuery -> SUBSET (Route \union {NoPayload})]
    BY Zenon, ExplorerAssumption
  <2> QED BY <2>1
<1> QED BY <1>1, Zenon DEF PaletteResults

LEMMA EffectsTyped ==
  ASSUME PageTyped, NEW mounted \in BOOLEAN, explorerRoute' \in Route, Effects(mounted)
  PROVE  PageTyped'
<1> DEFINE now == View(explorerRoute', filter', listed', detail', messages')
<1>1. now.focus = explorerRoute'.focus /\ explorerRoute'.focus \in Row \union {NoPayload}
  BY DEF View, Route
<1>2. "messages" \in ExplorerTab /\ \A r \in Row : FocusTab(r) \in ExplorerTab
  BY EmptyIsFilter DEF ExplorerTab
<1>3. explorerTab' \in ExplorerTab
  <2>1. explorerTab' = IF now.focus # NoPayload /\ (mounted \/ now.focus # explorerRoute.focus) THEN FocusTab(now.focus)
                       ELSE IF mounted THEN "messages" ELSE explorerTab
    BY DEF Effects
  <2> HIDE DEF now
  <2> QED BY <1>1, <1>2, <2>1 DEF PageTyped
<1>4. selection' \in Row \union {NoPayload}
  <2>1. selection' = IF (mounted \/ LooksAgain(ThisView, now)) /\ FocusMatch(now) THEN now.focus
                     ELSE IF mounted THEN NoPayload ELSE selection
    BY DEF Effects
  <2> HIDE DEF now
  <2> QED BY <1>1, <2>1 DEF PageTyped
<1> QED BY <1>3, <1>4 DEF PageTyped

LEMMA GotoRouteTyped ==
  ASSUME ExplorerTypes, NEW r \in Route, GotoRoute(r), UNCHANGED sessionRows
  PROVE  CacheTyped' /\ PageTyped' /\ FilterTyped'
<1> DEFINE mounted == r.page # explorerRoute.page \/ (r.session = NoPayload) # (explorerRoute.session = NoPayload)
<1>1. mounted \in BOOLEAN /\ explorerRoute' = r
  BY DEF GotoRoute
<1>2. CacheTyped'
  BY DEF GotoRoute, ExplorerTypes, CacheTyped, explorerCache
<1>3. FilterTyped'
  <2>1. filter' = "" \/ filter' = filter
    BY Zenon DEF GotoRoute
  <2> QED BY <2>1, EmptyIsFilter, Zenon DEF ExplorerTypes, FilterTyped
<1>4. PageTyped'
  <2>1. CASE r.page = "sessions"
    <3>1. Effects(mounted)
      BY <2>1 DEF GotoRoute
    <3> HIDE DEF mounted
    <3> QED BY <1>1, <3>1, EffectsTyped DEF ExplorerTypes
  <2>2. CASE r.page # "sessions"
    BY <1>1, <2>2 DEF GotoRoute, PageTyped, ExplorerTab
  <2> QED BY <2>1, <2>2
<1> QED BY <1>2, <1>3, <1>4

LEMMA SessionIsLoaded ==
  ASSUME CacheTyped, NEW k, LoadSession(k)
  PROVE  CacheTyped'
<1>1. CASE k = "detail"
  BY <1>1 DEF LoadSession, CacheTyped
<1>2. CASE k = "messages"
  BY <1>2 DEF LoadSession, CacheTyped
<1> QED BY <1>1, <1>2 DEF LoadSession

LEMMA ExplorerTypesStep == ExplorerTypes /\ [ExplorerNext]_explorerVars => ExplorerTypes'
<1> SUFFICES ASSUME ExplorerTypes, [ExplorerNext]_explorerVars PROVE ExplorerTypes'
  OBVIOUS
<1> USE DEF ExplorerTypes
<1>1. ASSUME NEW p \in {"sessions", "search"}, NavItem(p) PROVE ExplorerTypes'
  <2>1. At(p, NoPayload, NoPayload) \in Route
    BY DEF At, Route
  <2>2. CacheTyped' /\ PageTyped' /\ FilterTyped'
    BY <1>1, <2>1, GotoRouteTyped DEF NavItem
  <2>3. QueryTyped'
    <3>1. paletteQuery' = paletteQuery \/ paletteQuery' = [paletteQuery EXCEPT !.page = ""]
      BY <1>1, Zenon DEF NavItem
    <3>2. \A q \in PaletteQuery : [paletteQuery EXCEPT !.page = q] \in [palette : PaletteQuery, page : PaletteQuery]
      BY DEF QueryTyped
    <3> QED BY <3>1, <3>2, EmptyIsFilter, Zenon DEF QueryTyped
  <2> QED BY <2>2, <2>3
<1>2. ASSUME NEW s \in ExplorerSession, SelectSession(s) PROVE ExplorerTypes'
  <2>1. At("sessions", s, NoPayload) \in Route
    BY DEF At, Route
  <2>2. CacheTyped' /\ PageTyped' /\ FilterTyped'
    BY <1>2, <2>1, GotoRouteTyped DEF SelectSession
  <2> QED BY <1>2, <2>2 DEF SelectSession, routeSearch, QueryTyped
<1>3. ASSUME NEW f \in SessionFilter, SetFilter(f) PROVE ExplorerTypes'
  <2>1. PageTyped'
    BY <1>3, EffectsTyped DEF SetFilter, PageTyped
  <2> QED BY <1>3, <2>1 DEF SetFilter, routeSearch, explorerCache, QueryTyped, CacheTyped, FilterTyped
<1>4. ASSUME NEW t \in ExplorerTab, SetTab(t) PROVE ExplorerTypes'
  BY <1>4 DEF SetTab, routeSearch, explorerCache, QueryTyped, CacheTyped, FilterTyped, PageTyped
<1>5. ASSUME NEW r \in Row, SelectSessionRow(r) PROVE ExplorerTypes'
  BY <1>5 DEF SelectSessionRow, routeSearch, explorerCache, QueryTyped, CacheTyped, FilterTyped, PageTyped
<1>6. ASSUME LoadList PROVE ExplorerTypes'
  <2>1. PageTyped'
    BY <1>6, EffectsTyped DEF LoadList, PageTyped
  <2> QED BY <1>6, <2>1 DEF LoadList, routeSearch, explorerCache, QueryTyped, CacheTyped, FilterTyped
<1>7. ASSUME NEW k, LoadSession(k) PROVE ExplorerTypes'
  <2>1. PageTyped'
    BY <1>7, EffectsTyped DEF LoadSession, PageTyped
  <2>2. CacheTyped'
    BY <1>7, SessionIsLoaded
  <2> QED BY <1>7, <2>1, <2>2 DEF LoadSession, routeSearch, QueryTyped, FilterTyped
<1>8. ASSUME NEW w \in {"palette", "page"}, NEW r, OpenResult(w, r) PROVE ExplorerTypes'
  <2>1. r \in Route
    <3>1. paletteQuery[w] \in PaletteQuery
      BY DEF QueryTyped
    <3> QED BY <1>8, <3>1, FoundAreRoutes DEF OpenResult
  <2>2. CacheTyped' /\ PageTyped' /\ FilterTyped'
    <3>1. CASE r = explorerRoute
      BY <1>8, <3>1 DEF OpenResult, explorerCache, page, CacheTyped, PageTyped, FilterTyped
    <3>2. CASE r # explorerRoute
      BY <1>8, <2>1, <3>2, GotoRouteTyped DEF OpenResult
    <3> QED BY <3>1, <3>2
  <2> QED BY <1>8, <2>2 DEF OpenResult, QueryTyped
<1>9. ASSUME NEW r \in Row, Change(r) PROVE ExplorerTypes'
  BY <1>9 DEF Change, explorerCache, page, routeSearch, QueryTyped, CacheTyped, FilterTyped, PageTyped
<1>10. ASSUME NEW w \in {"palette", "page"}, NEW q \in PaletteQuery, SetPaletteQuery(w, q) PROVE ExplorerTypes'
  BY <1>10 DEF SetPaletteQuery, explorerCache, page, QueryTyped, CacheTyped, FilterTyped, PageTyped
<1>11. ASSUME NEW w, TogglePalette \/ LoadResults(w) PROVE ExplorerTypes'
  BY <1>11, Zenon DEF TogglePalette, LoadResults, explorerCache, page, QueryTyped, CacheTyped, FilterTyped, PageTyped
<1>12. ASSUME UNCHANGED explorerVars PROVE ExplorerTypes'
  BY <1>12 DEF explorerVars, explorerCache, page, routeSearch, QueryTyped, CacheTyped, FilterTyped, PageTyped
<1> QED BY <1>1, <1>2, <1>3, <1>4, <1>5, <1>6, <1>7, <1>8, <1>9, <1>10, <1>11, <1>12
        DEF ExplorerNext, ExplorerUser, ListAnswers

LEMMA ExplorerTypesInitially == ExplorerInit => ExplorerTypes
<1> SUFFICES ASSUME ExplorerInit PROVE ExplorerTypes
  OBVIOUS
<1>1. CacheTyped
  BY Zenon DEF ExplorerInit, CacheTyped
<1>2. PageTyped
  <2>1. explorerRoute = At("sessions", NoPayload, NoPayload) /\ explorerTab = "messages" /\ selection = NoPayload
    BY Zenon DEF ExplorerInit
  <2> QED BY <2>1 DEF PageTyped, At, Route, ExplorerTab
<1>3. FilterTyped
  BY EmptyIsFilter, Zenon DEF ExplorerInit, FilterTyped
<1>4. QueryTyped
  <2>1. paletteQuery = [palette |-> "", page |-> ""]
    BY Zenon DEF ExplorerInit
  <2>2. \A q \in PaletteQuery : [palette |-> q, page |-> q] \in [palette : PaletteQuery, page : PaletteQuery]
    OBVIOUS
  <2> QED BY <2>1, <2>2, EmptyIsFilter, Zenon DEF QueryTyped
<1> QED BY <1>1, <1>2, <1>3, <1>4 DEF ExplorerTypes

LEMMA ExplorerTypesAre == ExplorerTypes => ExplorerTypeOK
BY DEF ExplorerTypes, CacheTyped, PageTyped, QueryTyped, ExplorerTypeOK

(* The types of the explorer: what is selected, shown and searched for      *)
(* exists (SessionsExplorerPage.tsx, AppShellRoot.tsx).                     *)
THEOREM ExplorerTypesCorrect == ExplorerSpec => []ExplorerTypeOK
<1>1. ExplorerSpec => []ExplorerTypes
  BY ExplorerTypesInitially, ExplorerTypesStep, PTL DEF ExplorerSpec
<1> QED BY ExplorerTypesAre, <1>1, PTL

-----------------------------------------------------------------------------
(* The types of the extensions page.                                       *)
(* What a path, a parameter or an entry of the history names exists.        *)
Drawer == Configured \union {NoDrawer}
PluginName == ConfigPlugin \union {""}
ConfigEntry == Drawer \X PluginName \X ConfigTab

ConfigTypes ==
  /\ <<configRoute, pluginParam, tabParam>> \in ConfigEntry
  /\ drawer \in Drawer /\ configTab \in ConfigTab /\ filterPlugin \in PluginName
  /\ detailKnown \subseteq Configured
  /\ history \in Seq(ConfigEntry)

LEMMA NoPluginIsName == "" \in PluginName
BY Zenon DEF PluginName

LEMMA EntryIs ==
  ASSUME NEW to, NEW plugin, NEW tab
  PROVE  <<to, plugin, tab>> \in ConfigEntry <=> to \in Drawer /\ plugin \in PluginName /\ tab \in ConfigTab
BY DEF ConfigEntry

LEMMA ArrivalTyped ==
  ASSUME ConfigTypes, NEW to \in Drawer, NEW plugin \in PluginName, NEW tab \in ConfigTab,
         ArriveAtConfig(to, plugin, tab)
  PROVE  /\ <<configRoute, pluginParam, tabParam>>' \in ConfigEntry
         /\ drawer' \in Drawer /\ configTab' \in ConfigTab /\ filterPlugin' \in PluginName
<1>1. configRoute' = to /\ pluginParam' = plugin /\ tabParam' = tab
  BY DEF ArriveAtConfig
<1>2. CASE (to = NoDrawer) # (configRoute = NoDrawer)
  <2>1. MountConfig(to, plugin, tab)
    BY <1>2 DEF ArriveAtConfig
  <2>2. filterPlugin' = plugin /\ drawer' = to /\ configTab' = tab
    BY <2>1, Zenon DEF MountConfig
  <2> QED BY <1>1, <2>2, EntryIs
<1>3. CASE ~((to = NoDrawer) # (configRoute = NoDrawer))
  <2>1. /\ filterPlugin' = (IF plugin # pluginParam THEN plugin ELSE filterPlugin)
        /\ configTab' = (IF tab # tabParam THEN tab ELSE configTab)
        /\ IF to # configRoute THEN DrawerAfter(to) ELSE UNCHANGED drawer
    BY <1>3 DEF ArriveAtConfig
  <2> QED BY <1>1, <2>1, EntryIs DEF ConfigTypes, DrawerAfter
<1> QED BY <1>2, <1>3

LEMMA HistoryGrows ==
  ASSUME ConfigTypes, history' = Append(history, <<configRoute, pluginParam, tabParam>>)
  PROVE  history' \in Seq(ConfigEntry)
<1> DEFINE entry == <<configRoute, pluginParam, tabParam>>
<1>1. entry \in ConfigEntry /\ history \in Seq(ConfigEntry)
  BY DEF ConfigTypes
<1> HIDE DEF entry
<1>2. Append(history, entry) \in Seq(ConfigEntry)
  BY <1>1
<1> QED BY <1>2 DEF entry

LEMMA ConfigTypesStep == ConfigTypes /\ [ConfigNext]_configVars => ConfigTypes'
<1> SUFFICES ASSUME ConfigTypes, [ConfigNext]_configVars PROVE ConfigTypes'
  OBVIOUS
<1>1. ASSUME NEW e \in Configured, ClickExtension(e) PROVE ConfigTypes'
  <2>1. /\ configRoute' = e /\ pluginParam' = "" /\ tabParam' = "claude_md" /\ drawer' = e
        /\ filterPlugin' \in {"", filterPlugin} /\ configTab' \in {"claude_md", configTab}
        /\ UNCHANGED detailKnown
    BY <1>1, Zenon DEF ClickExtension
  <2>2. e \in Drawer /\ "claude_md" \in ConfigTab
    BY DEF Drawer, ConfigTab
  <2>3. history' \in Seq(ConfigEntry)
    BY <1>1, HistoryGrows DEF ClickExtension
  <2>4. drawer' \in Drawer /\ configTab' \in ConfigTab /\ filterPlugin' \in PluginName /\ detailKnown' \subseteq Configured
    BY <2>1, <2>2, NoPluginIsName, Zenon DEF ConfigTypes
  <2>5. <<configRoute, pluginParam, tabParam>>' \in ConfigEntry
    BY <2>1, <2>2, NoPluginIsName, EntryIs, Zenon
  <2> QED BY <2>3, <2>4, <2>5 DEF ConfigTypes
<1>2. ASSUME NEW to \in Drawer, NEW plugin \in PluginName, NEW tab \in ConfigTab, FollowConfigLink(to, plugin, tab)
      PROVE  ConfigTypes'
  <2>1. history' \in Seq(ConfigEntry)
    BY <1>2, HistoryGrows DEF FollowConfigLink
  <2> QED BY <1>2, <2>1, ArrivalTyped DEF FollowConfigLink, ConfigTypes
<1>3. CASE ConfigBack
  <2> DEFINE h == history[Len(history)]
  <2>1. history \in Seq(ConfigEntry) /\ history # <<>>
    BY <1>3 DEF ConfigBack, ConfigTypes
  <2>2. h \in ConfigEntry /\ SubSeq(history, 1, Len(history) - 1) \in Seq(ConfigEntry)
    BY <2>1
  <2>3. h[1] \in Drawer /\ h[2] \in PluginName /\ h[3] \in ConfigTab
    BY <2>2 DEF ConfigEntry
  <2>4. ArriveAtConfig(h[1], h[2], h[3]) /\ history' = SubSeq(history, 1, Len(history) - 1) /\ UNCHANGED detailKnown
    BY <1>3 DEF ConfigBack
  <2> HIDE DEF h
  <2> QED BY <2>2, <2>3, <2>4, ArrivalTyped DEF ConfigTypes
<1>4. CASE CloseDrawer
  BY <1>4 DEF CloseDrawer, ConfigTypes, configFilters, Drawer
<1>5. ASSUME NEW t, NEW s, NEW b, NEW p \in PluginName, SetConfigFilters(t, s, b, p) PROVE ConfigTypes'
  BY <1>5 DEF SetConfigFilters, ConfigTypes
<1>6. ASSUME NEW tab \in ConfigTab, SetConfigTab(tab) PROVE ConfigTypes'
  BY <1>6 DEF SetConfigTab, ConfigTypes, configFilters
<1>7. CASE ConfigAnswer
  BY <1>7 DEF ConfigAnswer, ConfigTypes, configFilters
<1>8. CASE DetailAnswer
  BY <1>8 DEF DetailAnswer, ConfigTypes, configFilters, Drawer
<1>9. CASE UNCHANGED configVars
  BY <1>9 DEF configVars, ConfigTypes, configFilters
<1>10. CASE ConfigNext
  <2>1. ConfigRows \subseteq Configured /\ PluginOptions \subseteq ConfigPlugin
    BY Zenon DEF ConfigRows, ConfigMatches, PluginOptions
  <2>2. /\ \A p \in ConfigPlugin : NoDrawer \in Drawer /\ p \in PluginName /\ "claude_md" \in ConfigTab
        /\ \A e \in Configured : e \in Drawer
        /\ \A p \in PluginOptions \union {""} : p \in PluginName
        /\ NoDrawer \in Drawer /\ "claude_md" \in ConfigTab /\ filterPlugin \in PluginName
    BY <2>1, Zenon DEF Drawer, PluginName, ConfigTab, ConfigTypes
  <2>3. CASE \E p \in ConfigPlugin : FollowConfigLink(NoDrawer, p, "claude_md")
    BY <2>3, <2>2, <1>2, Zenon
  <2>4. CASE \E tab \in ConfigTab : FollowConfigLink(NoDrawer, "", tab)
    BY <2>4, <2>2, <1>2, NoPluginIsName, Zenon
  <2>5. CASE \E e \in Configured : FollowConfigLink(e, "", "claude_md")
    BY <2>5, <2>2, <1>2, NoPluginIsName, Zenon
  <2>6. CASE \E t \in {e.type : e \in Configured} \union {""} : SetConfigFilters(t, filterSource, filterEnabled, filterPlugin)
    BY <2>6, <2>2, <1>5, Zenon
  <2>7. CASE \E s \in ConfigSources \union {""} : SetConfigFilters(filterType, s, filterEnabled, filterPlugin)
    BY <2>7, <2>2, <1>5, Zenon
  <2>8. CASE \E b \in {"", "true", "false"} : SetConfigFilters(filterType, filterSource, b, filterPlugin)
    BY <2>8, <2>2, <1>5, Zenon
  <2>9. CASE \E p \in PluginOptions \union {""} : SetConfigFilters(filterType, filterSource, filterEnabled, p)
    BY <2>9, <2>2, <1>5, Zenon
  <2>10. CASE (\E e \in ConfigRows : ClickExtension(e)) \/ \E tab \in ConfigTab : SetConfigTab(tab)
    BY <2>10, <2>1, <1>1, <1>6
  <2> QED BY <1>3, <1>4, <1>7, <1>8, <1>10, <2>3, <2>4, <2>5, <2>6, <2>7, <2>8, <2>9, <2>10, Zenon DEF ConfigNext
<1> QED BY <1>9, <1>10

LEMMA ConfigTypesInitially == ConfigInit => ConfigTypes
<1> SUFFICES ASSUME ConfigInit PROVE ConfigTypes
  OBVIOUS
<1>1. /\ configRoute \in Drawer /\ pluginParam = "" /\ tabParam \in ConfigTab
      /\ drawer \in Drawer /\ configTab \in ConfigTab /\ filterPlugin = "" /\ detailKnown = {} /\ history = <<>>
  BY Zenon DEF ConfigInit, Drawer, ConfigTab
<1>2. filterPlugin \in PluginName /\ pluginParam \in PluginName
  BY <1>1, NoPluginIsName, Zenon
<1>3. history \in Seq(ConfigEntry)
  <2>1. history = <<>>
    BY <1>1, Zenon
  <2> QED BY <2>1
<1>4. <<configRoute, pluginParam, tabParam>> \in ConfigEntry
  BY <1>1, <1>2, EntryIs, Zenon
<1> QED BY <1>1, <1>2, <1>3, <1>4, Zenon DEF ConfigTypes

LEMMA ConfigTypesAre == ConfigTypes => ConfigTypeOK
<1> SUFFICES ASSUME ConfigTypes PROVE ConfigTypeOK
  OBVIOUS
<1>1. configRoute \in Drawer
  BY EntryIs DEF ConfigTypes
<1>2. DetailShown \in {drawer, NoDrawer}
  BY DEF DetailShown
<1> QED BY <1>1, <1>2, Zenon DEF ConfigTypes, ConfigTypeOK, Drawer, PluginName

(* The types of the extensions page: whatever the way through its routes,   *)
(* Back included, the drawer, the tab and the filter of plugins name what   *)
(* exists (ExtensionsConfigPage.tsx 31-75).                                 *)
THEOREM ConfigTypesCorrect == ConfigSpec => []ConfigTypeOK
<1>1. ConfigSpec => []ConfigTypes
  BY ConfigTypesInitially, ConfigTypesStep, PTL DEF ConfigSpec
<1> QED BY ConfigTypesAre, <1>1, PTL

-----------------------------------------------------------------------------
(* The types of the hub and the plugin view.                               *)
TypeNamed == HubType \union {""}
PluginNamed == Plugin \union {""}

HubTypes ==
  /\ urlType \in TypeNamed /\ urlSource \in sourceOptions /\ urlSelected \in PluginNamed
  /\ expandedMarketplaces \subseteq Marketplace /\ expandedPlugins \subseteq Plugin
  /\ selectedRow \in Installed \union {Nothing}

LEMMA NamedInHub ==
  /\ "" \in TypeNamed /\ "" \in PluginNamed /\ "" \in sourceOptions
  /\ \A p \in Plugin : p \in PluginNamed /\ p \in sourceOptions /\ Market[p] \in Marketplace
  /\ \A t \in HubType : t \in TypeNamed
  /\ \A e \in Installed : e.source # "user" => e.source \in Plugin
<1>1. \A e \in Installed : e.source # "user" => e.source \in Plugin
  BY HubAssumption, Zenon
<1> QED BY <1>1, Zenon DEF TypeNamed, PluginNamed, sourceOptions, Marketplace

(* A page that is loaded has the plugin of its URL open, and no row.        *)
LEMMA LoadedTyped ==
  ASSUME LoadHub, urlType' \in TypeNamed, urlSource' \in sourceOptions, urlSelected' \in PluginNamed
  PROVE  HubTypes'
<1>1. expandedMarketplaces' = {} /\ selectedRow' = Nothing
  BY Zenon DEF LoadHub
<1>2. expandedPlugins' = IF hubPath' = "plugins" /\ urlSelected' # "" THEN {urlSelected'} ELSE {}
  BY Zenon DEF LoadHub
<1>3. expandedPlugins' \subseteq Plugin
  <2>1. urlSelected' # "" => urlSelected' \in Plugin
    BY Zenon DEF PluginNamed
  <2> QED BY <1>2, <2>1, Zenon
<1>4. sourceOptions' = sourceOptions
  BY Zenon DEF sourceOptions
<1> QED BY <1>1, <1>3, <1>4, Zenon DEF HubTypes

LEMMA HubKept ==
  ASSUME HubTypes, UNCHANGED <<urlType, urlSource, urlSelected, expandedMarketplaces, expandedPlugins, selectedRow>>
  PROVE  HubTypes'
BY DEF HubTypes, sourceOptions

LEMMA RenderedTyped ==
  ASSUME NEW open, open \subseteq Marketplace, NEW known
  PROVE  ExpandedInRender(urlSelected, known, open) \subseteq Marketplace
BY NamedInHub, Zenon DEF ExpandedInRender

LEMMA HubTypesStep == HubTypes /\ [HubNext]_hubVars => HubTypes'
<1> SUFFICES ASSUME HubTypes, [HubNext]_hubVars PROVE HubTypes'
  OBVIOUS
<1>0. HubExtensions \subseteq Installed
  BY Zenon DEF HubExtensions, HubMatches
<1>1. ASSUME NEW t \in TypeNamed, updateFilterType(t) PROVE HubTypes'
  BY <1>1, LoadedTyped DEF updateFilterType, HubTypes
<1>2. ASSUME NEW s \in sourceOptions, updateFilterSource(s) PROVE HubTypes'
  BY <1>2, LoadedTyped DEF updateFilterSource, HubTypes
<1>3. ASSUME NEW t, TypeHubSearch(t) \/ HubSearchSettles \/ HubAnswer PROVE HubTypes'
  BY <1>3, HubKept, Zenon DEF TypeHubSearch, HubSearchSettles, HubAnswer
<1>4. ASSUME NEW e \in HubExtensions, ClickRow(e) PROVE HubTypes'
  BY <1>0, <1>4, Zenon DEF ClickRow, HubTypes, sourceOptions
<1>5. ASSUME NEW e \in HubExtensions, FollowSource(e) PROVE HubTypes'
  <2>1. e.source \in Plugin /\ urlSelected' = e.source /\ urlType' = "" /\ urlSource' = "" /\ LoadHub
    BY <1>0, <1>5, NamedInHub, Zenon DEF FollowSource
  <2> QED BY <2>1, NamedInHub, LoadedTyped, Zenon
<1>6. CASE TreeArrives
  <2>1. expandedMarketplaces' \subseteq Marketplace
    BY <1>6, RenderedTyped DEF TreeArrives, HubTypes
  <2> QED BY <1>6, <2>1 DEF TreeArrives, HubTypes, sourceOptions
<1>7. ASSUME NEW m \in Marketplace, toggleMarketplace(m) PROVE HubTypes'
  <2> DEFINE open == IF m \in expandedMarketplaces THEN expandedMarketplaces \ {m} ELSE expandedMarketplaces \union {m}
  <2>1. open \subseteq Marketplace
    BY DEF HubTypes
  <2>2. expandedMarketplaces' = ExpandedInRender(urlSelected, TRUE, open)
    BY <1>7 DEF toggleMarketplace
  <2> HIDE DEF open
  <2>3. expandedMarketplaces' \subseteq Marketplace
    BY <2>1, <2>2, RenderedTyped
  <2> QED BY <1>7, <2>3 DEF toggleMarketplace, HubTypes, sourceOptions
<1>8. ASSUME NEW p \in Plugin, togglePlugin(p) PROVE HubTypes'
  BY <1>8 DEF togglePlugin, HubTypes, sourceOptions
<1>9. ASSUME NEW p \in Plugin, NEW type \in HubType, FollowComponents(p, type) PROVE HubTypes'
  <2>1. urlType' = type /\ urlSource' = p /\ urlSelected' = "" /\ LoadHub
    BY <1>9, Zenon DEF FollowComponents
  <2> QED BY <2>1, NamedInHub, LoadedTyped, Zenon
<1>10. CASE UNCHANGED hubVars
  BY <1>10, HubKept DEF hubVars
<1>11. CASE HubNext
  <2>1. CASE \E t \in (HubType \union {""}) \ {urlType} : updateFilterType(t)
    BY <2>1, <1>1, Zenon DEF TypeNamed
  <2>2. CASE \E s \in sourceOptions \ {urlSource} : updateFilterSource(s)
    BY <2>2, <1>2
  <2> QED BY <1>3, <1>4, <1>5, <1>6, <1>7, <1>8, <1>9, <1>11, <2>1, <2>2, Zenon DEF HubNext
<1> QED BY <1>10, <1>11

LEMMA HubTypesInitially == HubInit => HubTypes
BY NamedInHub, Zenon DEF HubInit, HubTypes, TypeNamed

LEMMA HubTypesAre == HubTypes => HubTypeOK
BY Zenon DEF HubTypes, HubTypeOK, TypeNamed, PluginNamed

(* The types of the hub and the plugin view: a filter, an open branch of    *)
(* the tree and the row selected name what the server has, whatever links   *)
(* were followed (ExtensionsHub.tsx 12-70, PluginView.tsx 24-60).           *)
THEOREM HubTypesCorrect == HubSpec => []HubTypeOK
<1>1. HubSpec => []HubTypes
  BY HubTypesInitially, HubTypesStep, PTL DEF HubSpec
<1> QED BY HubTypesAre, <1>1, PTL

-----------------------------------------------------------------------------
(* The types of the timeline.                                              *)
SideText == TimelineSession \union {""}

TimelineTypes ==
  /\ sideValue \in SideText /\ sideQuery \in SideText
  /\ timeValue \in Text /\ timeQuery \in Text
  /\ selectedSession \in TimelineSession \union {NoneSelected}
  /\ filters \subseteq Kinds3 /\ currentMatchIndex \in Nat
  /\ expandedIds # {} => shownEvents # <<>>

(* The events of a session and those that match are lists.                  *)
LEMMA EventsAreList ==
  ASSUME NEW s \in TimelineSession, NEW on
  PROVE  \E S : Events(s, on) \in Seq(S)
<1> DEFINE rows == {i \in DOMAIN Messages[s] : Messages[s][i].words # {}}
           all == Messages[s]
<1>1. all \in Seq(ToSet(all))
  BY TimelineAssumption
<1>2. DOMAIN all = 1 .. Len(all) /\ Len(all) \in Nat
  BY <1>1
<1>3. IsFiniteSet(rows) /\ rows \in SUBSET Int
  <2>1. rows \subseteq 1 .. Len(all) /\ IsFiniteSet(1 .. Len(all))
    BY <1>2, CountsAreFinite
  <2>2. 1 .. Len(all) \subseteq Int
    OBVIOUS
  <2> QED BY <2>1, <2>2, FS_Subset
<1> DEFINE kept == Kept(all, rows)
           T == {all[i] : i \in rows} \union {Started(s)}
<1>4. kept \in Seq({all[i] : i \in rows})
  BY <1>3, KeptLists
<1> HIDE DEF rows, kept
<1>5. kept \in Seq(T) /\ <<>> \in Seq(T) /\ <<Started(s)>> \in Seq(T)
  BY <1>4
<1>6. Events(s, on) = IF all = <<>> THEN <<>> ELSE <<Started(s)>> \o (IF "conversations" \in on THEN kept ELSE <<>>)
  BY DEF Events, rows, kept
<1> HIDE DEF T, all
<1>7. <<Started(s)>> \o kept \in Seq(T) /\ <<Started(s)>> \o <<>> \in Seq(T)
  BY <1>5, ConcatIs
<1>8. Events(s, on) \in Seq(T)
  BY <1>5, <1>6, <1>7
<1> QED BY <1>8

LEMMA MatchesAreList ==
  ASSUME TimelineTypes
  PROVE  Len(searchMatches) \in Nat /\ (searchMatches # <<>> => Len(searchMatches) > 0)
<1> DEFINE all == Events(selectedSession, filters)
           rows == {i \in DOMAIN all : timeQuery = "" \/ timeQuery \in all[i].words}
<1>1. \E S : shownEvents \in Seq(S)
  <2>1. CASE selectedSession = NoneSelected \/ selectedSession \notin answeredFor
    <3>1. shownEvents = <<>>
      BY <2>1 DEF shownEvents, filteredEvents
    <3> QED BY <3>1
  <2>2. CASE ~(selectedSession = NoneSelected \/ selectedSession \notin answeredFor)
    <3>1. selectedSession \in TimelineSession
      BY <2>2, Zenon DEF TimelineTypes
    <3>2. shownEvents = Kept(all, rows)
      BY <2>2, Zenon DEF shownEvents, filteredEvents
    <3>3. PICK S : all \in Seq(S)
      BY <3>1, EventsAreList
    <3>4. rows \subseteq DOMAIN all
      BY Zenon
    <3> HIDE DEF rows, all
    <3>5. DOMAIN all = 1 .. Len(all) /\ Len(all) \in Nat
      BY <3>3
    <3>6. IsFiniteSet(rows) /\ rows \in SUBSET Int
      <4>1. IsFiniteSet(rows)
        BY <3>4, <3>5, CountsAreFinite, FS_Subset
      <4>2. \A i \in rows : i \in Int
        BY <3>4, <3>5
      <4> QED BY <4>1, <4>2
    <3>7. Kept(all, rows) \in Seq({all[i] : i \in rows})
      BY <3>6, KeptLists
    <3> QED BY <3>2, <3>7
  <2> QED BY <2>1, <2>2
<1>2. searchMatches = <<>> \/ searchMatches = shownEvents
  BY Zenon DEF searchMatches
<1>3. PICK S : searchMatches \in Seq(S)
  <2>1. PICK S : shownEvents \in Seq(S)
    BY <1>1
  <2>2. <<>> \in Seq(S)
    OBVIOUS
  <2> QED BY <1>2, <2>1, <2>2
<1> QED BY <1>3

LEMMA TimelineKept ==
  ASSUME TimelineTypes, UNCHANGED <<selectedSession, answeredFor, timeValue, timeQuery, filters, currentMatchIndex, expandedIds>>,
         sideValue' \in SideText, sideQuery' \in SideText
  PROVE  TimelineTypes'
<1>1. shownEvents' = shownEvents
  BY Zenon DEF shownEvents, filteredEvents
<1> QED BY <1>1, Zenon DEF TimelineTypes

(* What is expanded is forgotten when there is no list left.                *)
LEMMA ExpandedNeedsEvents ==
  ASSUME UNCHANGED answeredFor, expandedIds' = Expanded(selectedSession', timeQuery', filters', expandedIds)
  PROVE  expandedIds' # {} => shownEvents' # <<>>
<1>1. shownEvents' = filteredEvents(selectedSession', timeQuery', filters')
  BY Zenon DEF shownEvents, filteredEvents
<1> QED BY <1>1, Zenon DEF Expanded

LEMMA TimelineTypesStep == TimelineTypes /\ [TimelineNext]_timelineVars => TimelineTypes'
<1> SUFFICES ASSUME TimelineTypes, [TimelineNext]_timelineVars PROVE TimelineTypes'
  OBVIOUS
<1>0. "" \in SideText /\ sideValue \in SideText /\ sideQuery \in SideText
  BY Zenon DEF SideText, TimelineTypes
<1>1. ASSUME NEW t \in SideText, TypeSide(t) PROVE TimelineTypes'
  BY <1>0, <1>1, TimelineKept, Zenon DEF TypeSide, unchangedTimeline, timeField
<1>2. CASE SideSettles
  BY <1>0, <1>2, TimelineKept, Zenon DEF SideSettles, unchangedTimeline, timeField
<1>3. ASSUME NEW o, SetOrder(o) PROVE TimelineTypes'
  BY <1>0, <1>3, TimelineKept, Zenon DEF SetOrder, unchangedTimeline, timeField
<1>4. CASE Collapse
  BY <1>0, <1>4, TimelineKept, Zenon DEF Collapse, unchangedTimeline, timeField
<1>5. CASE Expand
  BY <1>0, <1>5, TimelineKept, Zenon DEF Expand, QueryAtMount, unchangedTimeline, timeField
<1>6. ASSUME NEW s \in TimelineSession, onSessionSelect(s) PROVE TimelineTypes'
  <2>1. /\ selectedSession' = s /\ expandedIds' = Expanded(s, timeQuery, filters, expandedIds)
        /\ UNCHANGED <<sideValue, sideQuery, answeredFor, timeValue, timeQuery, filters, currentMatchIndex>>
    BY <1>6, Zenon DEF onSessionSelect, sidebar, timeField
  <2>2. expandedIds' # {} => shownEvents' # <<>>
    BY <2>1, ExpandedNeedsEvents, Zenon
  <2> QED BY <2>1, <2>2, Zenon DEF TimelineTypes
<1>7. ASSUME NEW ok \in BOOLEAN, MessagesArrive(ok) PROVE TimelineTypes'
  <2>1. UNCHANGED <<sideValue, sideQuery, selectedSession, timeValue, timeQuery, filters, currentMatchIndex, expandedIds>>
    BY <1>7, Zenon DEF MessagesArrive, sidebar, timeField
  <2>2. expandedIds = {}
    <3>1. shownEvents = <<>>
      BY <1>7, Zenon DEF MessagesArrive, shownEvents, filteredEvents
    <3> QED BY <3>1, Zenon DEF TimelineTypes
  <2> QED BY <2>1, <2>2, Zenon DEF TimelineTypes
<1>8. ASSUME NEW t \in Text, TypeTime(t) PROVE TimelineTypes'
  <2>1. timeValue' = t /\ UNCHANGED <<sideValue, sideQuery, selectedSession, answeredFor, timeQuery, filters, currentMatchIndex, expandedIds>>
    BY <1>8, Zenon DEF TypeTime, sidebar, timeField
  <2>2. shownEvents' = shownEvents
    BY <2>1, Zenon DEF shownEvents, filteredEvents
  <2> QED BY <2>1, <2>2, Zenon DEF TimelineTypes
<1>9. CASE TimeSettles
  <2>1. /\ timeQuery' = timeValue /\ expandedIds' = Expanded(selectedSession, timeValue, filters, expandedIds)
        /\ UNCHANGED <<sideValue, sideQuery, selectedSession, answeredFor, timeValue, filters, currentMatchIndex>>
    BY <1>9, Zenon DEF TimeSettles, sidebar, timeField
  <2>2. expandedIds' # {} => shownEvents' # <<>>
    BY <2>1, ExpandedNeedsEvents, Zenon
  <2> QED BY <2>1, <2>2, Zenon DEF TimelineTypes
<1>10. ASSUME NEW k \in Kinds3, toggleFilter(k) PROVE TimelineTypes'
  <2>1. /\ filters' = (IF k \in filters THEN filters \ {k} ELSE filters \union {k})
        /\ expandedIds' = Expanded(selectedSession, timeQuery, filters', expandedIds)
        /\ UNCHANGED <<sideValue, sideQuery, selectedSession, answeredFor, timeValue, timeQuery, currentMatchIndex>>
    BY <1>10, Zenon DEF toggleFilter, sidebar, timeField
  <2>2. expandedIds' # {} => shownEvents' # <<>>
    BY <2>1, ExpandedNeedsEvents, Zenon
  <2>3. filters' \subseteq Kinds3
    <3>1. filters \subseteq Kinds3
      BY Zenon DEF TimelineTypes
    <3> QED BY <2>1, <3>1
  <2> QED BY <2>1, <2>2, <2>3, Zenon DEF TimelineTypes
<1>11. ASSUME NEW d \in {1, -1}, StepMatch(d) PROVE TimelineTypes'
  <2>1. searchMatches # <<>> /\ currentMatchIndex' = Stepped(d)
    BY <1>11, Zenon DEF StepMatch
  <2>2. UNCHANGED <<sideValue, sideQuery, selectedSession, answeredFor, timeValue, timeQuery, filters, expandedIds>>
    BY <1>11, Zenon DEF StepMatch, sidebar, timeField
  <2>3. currentMatchIndex \in Nat /\ Len(searchMatches) \in Nat /\ Len(searchMatches) > 0
    BY <2>1, MatchesAreList, Zenon DEF TimelineTypes
  <2>4. currentMatchIndex' \in Nat
    BY <2>1, <2>3 DEF Stepped
  <2>5. shownEvents' = shownEvents
    BY <2>2, Zenon DEF shownEvents, filteredEvents
  <2> QED BY <2>2, <2>4, <2>5, Zenon DEF TimelineTypes
<1>12. ASSUME NEW id, toggleExpanded(id) PROVE TimelineTypes'
  <2>1. DOMAIN shownEvents # {}
    BY <1>12, Zenon DEF toggleExpanded
  <2>2. shownEvents # <<>>
    BY <2>1
  <2>3. UNCHANGED <<sideValue, sideQuery, selectedSession, answeredFor, timeValue, timeQuery, filters, currentMatchIndex>>
    BY <1>12, Zenon DEF toggleExpanded, sidebar, timeField
  <2>4. shownEvents' = shownEvents
    BY <2>3, Zenon DEF shownEvents, filteredEvents
  <2> QED BY <2>2, <2>3, <2>4, Zenon DEF TimelineTypes
<1>13. CASE UNCHANGED timelineVars
  BY <1>0, <1>13, TimelineKept, Zenon DEF timelineVars, sidebar, timeField
<1>14. CASE TimelineNext
  <2>1. CASE \E t \in (TimelineSession \union {""}) \ {sideValue} : TypeSide(t)
    BY <2>1, <1>1, Zenon DEF SideText
  <2>2. CASE \E t \in Text \ {timeValue} : TypeTime(t)
    BY <2>2, <1>8, Zenon
  <2> QED BY <1>2, <1>3, <1>4, <1>5, <1>6, <1>7, <1>9, <1>10, <1>11, <1>12, <1>14, <2>1, <2>2, Zenon DEF TimelineNext
<1> QED BY <1>13, <1>14

LEMMA TimelineTypesInitially == TimelineInit => TimelineTypes
<1> SUFFICES ASSUME TimelineInit PROVE TimelineTypes
  OBVIOUS
<1>1. /\ sideValue \in SideText /\ sideQuery \in SideText /\ timeValue \in Text /\ timeQuery \in Text
      /\ selectedSession = NoneSelected /\ filters = Kinds3 /\ currentMatchIndex = 0 /\ expandedIds = {}
  BY Zenon DEF TimelineInit, SideText, Text
<1>2. currentMatchIndex \in Nat
  BY <1>1
<1> QED BY <1>1, <1>2, Zenon DEF TimelineTypes

LEMMA TimelineTypesAre == TimelineTypes => TimelineTypeOK
BY Zenon DEF TimelineTypes, TimelineTypeOK, SideText

(* The types of the timeline, and no event is expanded while the list of    *)
(* events is not mounted (SessionTimeline.tsx, ui/Timeline.tsx).            *)
THEOREM TimelineTypesCorrect == TimelineSpec => []TimelineTypeOK
<1>1. TimelineSpec => []TimelineTypes
  BY TimelineTypesInitially, TimelineTypesStep, PTL DEF TimelineSpec
<1> QED BY TimelineTypesAre, <1>1, PTL

-----------------------------------------------------------------------------
(* The types of the overview and the searches of todos and plans.          *)
(* The tables of todo files, by the agent.                                  *)
TableOf(f) == DOMAIN f \subseteq TodoFile /\ \A a \in DOMAIN f : f[a] \in Contents

(* A plan under an id it has or had.                                        *)
PlanRef(x) == x[1] \in PlanFile /\ x[2] \in Nat /\ x[2] <= planIds[x[1]]

TodosTyped ==
  /\ files \in [TodoFile -> Contents \union {NoData}]
  /\ TableOf(todoTable) /\ TableOf(todoDetails)
  /\ todosData # NoData => TableOf(todosData)

PlansTyped ==
  /\ planIds \in [PlanFile -> Nat]
  /\ plansData # NoData => plansData \in [PlanFile -> Nat] /\ \A p \in PlanFile : plansData[p] <= planIds[p]
  /\ selectedPlan # NoData => PlanRef(selectedPlan)
  /\ \A x \in planDetails : PlanRef(x)

RefreshTyped == refreshingData \in {"", "reindex", "todos", "plans"}

(* A page starts at a multiple of its size.                                 *)
WholePages == \E k \in Nat : offset = k * Limit

DataTypes == TodosTyped /\ PlansTyped /\ RefreshTyped /\ FindInv /\ WholePages

(* A dot is green when each todo is completed.                              *)
LEMMA GreenIsDone ==
  ASSUME NEW todos \in Seq(TodoState)
  PROVE  Dot(todos) = "green" <=> todos # <<>> /\ ToSet(todos) = {"completed"}
<1> DEFINE n == Len(todos)
           Done == {i \in DOMAIN todos : todos[i] = "completed"}
           Doing == {i \in DOMAIN todos : todos[i] = "in_progress"}
<1>1. n \in Nat /\ DOMAIN todos = 1 .. n
  OBVIOUS
<1>2. IsFiniteSet(1 .. n) /\ Cardinality(1 .. n) = n
  BY <1>1, CountsAreFinite
<1>3. Count(todos, "completed") = Cardinality(Done) /\ Count(todos, "in_progress") = Cardinality(Doing)
  BY DEF Count
<1>4. Done \subseteq 1 .. n /\ Doing \subseteq 1 .. n
  BY <1>1
<1>5. Done = 1 .. n => Doing = {}
  BY <1>1
<1>6. ToSet(todos) = {"completed"} <=> todos # <<>> /\ Done = 1 .. n
  <2>1. ToSet(todos) = {todos[i] : i \in 1 .. n}
    BY <1>1 DEF ToSet
  <2>2. todos # <<>> <=> n > 0
    BY <1>1
  <2>3. Done = {i \in 1 .. n : todos[i] = "completed"}
    BY <1>1
  <2>4. ASSUME ToSet(todos) = {"completed"} PROVE todos # <<>> /\ Done = 1 .. n
    <3>1. PICK i \in 1 .. n : todos[i] = "completed"
      BY <2>1, <2>4
    <3>2. \A j \in 1 .. n : todos[j] = "completed"
      BY <2>1, <2>4
    <3>3. n > 0
      BY <1>1, <3>1
    <3>4. Done = 1 .. n
      BY <2>3, <3>2, Zenon
    <3> QED BY <2>2, <3>3, <3>4
  <2>5. ASSUME todos # <<>>, Done = 1 .. n PROVE ToSet(todos) = {"completed"}
    <3>1. \A j \in 1 .. n : todos[j] = "completed"
      BY <2>3, <2>5, Zenon
    <3>2. 1 \in 1 .. n
      BY <1>1, <2>2, <2>5
    <3> QED BY <2>1, <3>1, <3>2, Zenon
  <2> QED BY <2>4, <2>5
<1> HIDE DEF n, Done, Doing
<1>7. Cardinality(Done) = n <=> Done = 1 .. n
  BY <1>2, <1>4, FS_Subset
<1>8. Done = 1 .. n => ~(Count(todos, "in_progress") > 0)
  BY <1>3, <1>5, FS_EmptySet
<1>9. CASE todos # <<>> /\ Done = 1 .. n
  <2>1. todos # <<>> /\ Count(todos, "completed") = Len(todos) /\ ~(Count(todos, "in_progress") > 0) /\ ~(todos = <<>>)
    BY <1>3, <1>7, <1>8, <1>9 DEF n
  <2>2. Dot(todos) = "green"
    BY <2>1 DEF Dot
  <2> QED BY <1>6, <1>9, <2>2
<1>10. CASE ~(todos # <<>> /\ Done = 1 .. n)
  <2>1. ~(todos # <<>> /\ Count(todos, "completed") = Len(todos))
    BY <1>3, <1>7, <1>10 DEF n
  <2>2. todos = <<>> => ~(Count(todos, "in_progress") > 0)
    <3>1. ASSUME todos = <<>> PROVE Doing = {}
      BY <3>1 DEF Doing
    <3> QED BY <1>3, <3>1, FS_EmptySet
  <2>3. Dot(todos) # "green"
    <3>1. CASE Count(todos, "in_progress") > 0
      BY <2>1, <2>2, <3>1 DEF Dot
    <3>2. CASE ~(Count(todos, "in_progress") > 0) /\ todos = <<>>
      BY <2>1, <3>2 DEF Dot
    <3>3. CASE ~(Count(todos, "in_progress") > 0) /\ todos # <<>>
      BY <2>1, <3>3 DEF Dot
    <3> QED BY <3>1, <3>2, <3>3
  <2> QED BY <1>6, <1>10, <2>3
<1> QED BY <1>9, <1>10

(* The todos of a list, counted by status.                                  *)
ByStatus(todos) == [s \in TodoState |-> Count(todos, s)]

LEMMA StatusesAreFinite == IsFiniteSet(TodoState)
<1>1. TodoState = ({"pending"} \union {"in_progress"}) \union {"completed"}
  BY DEF TodoState
<1> QED BY <1>1, FS_Singleton, FS_Union

LEMMA StatusesAddUp ==
  ASSUME NEW todos \in Seq(TodoState)
  PROVE  Counts(ByStatus(todos)) /\ SumOf(ByStatus(todos)) = Len(todos)
<1> DEFINE n == Len(todos)
           F == [s \in TodoState |-> {i \in DOMAIN todos : todos[i] = s}]
           c == [p \in Pairs(F) |-> p[2]]
<1>1. n \in Nat /\ DOMAIN todos = 1 .. n /\ \A i \in 1 .. n : todos[i] \in TodoState
  OBVIOUS
<1>2. IsFiniteSet(1 .. n) /\ Cardinality(1 .. n) = n
  BY <1>1, CountsAreFinite
<1>3. DOMAIN F = TodoState /\ \A s \in TodoState : F[s] = {i \in 1 .. n : todos[i] = s}
  BY <1>1
<1>4. \A s \in TodoState : ByStatus(todos)[s] = Cardinality(F[s])
  BY DEF ByStatus, Count
<1> HIDE DEF F, n
<1>5. \A s \in TodoState : IsFiniteSet(F[s]) /\ Cardinality(F[s]) \in Nat
  BY <1>2, <1>3, FS_Subset, FS_CardinalityType
<1>6. FinitePairs(F)
  BY <1>3, <1>5, StatusesAreFinite DEF FinitePairs
<1>7. Counts(ByStatus(todos)) /\ DOMAIN ByStatus(todos) = DOMAIN F
  BY <1>3, <1>4, <1>5, StatusesAreFinite DEF Counts, ByStatus
<1>8. SumOf(ByStatus(todos)) = Cardinality(Pairs(F)) /\ IsFiniteSet(Pairs(F))
  BY <1>3, <1>4, <1>6, <1>7, SumsArePairs, PairsAreFinite
<1>9. \A p \in Pairs(F) : p = <<p[1], p[2]>> /\ p[2] \in 1 .. n /\ todos[p[2]] = p[1]
  BY <1>3, PairsAre
<1>10. \A i \in 1 .. n : <<todos[i], i>> \in Pairs(F)
  <2> TAKE i \in 1 .. n
  <2>1. todos[i] \in DOMAIN F /\ i \in F[todos[i]]
    BY <1>1, <1>3 DEF n
  <2> QED BY <2>1, PairsAre
<1>11. c \in Bijection(Pairs(F), 1 .. n)
  <2>1. \A p \in Pairs(F) : c[p] \in 1 .. n
    BY <1>9
  <2>2. ASSUME NEW p \in Pairs(F), NEW q \in Pairs(F), c[p] = c[q] PROVE p = q
    <3>1. p[2] = q[2] /\ p[1] = q[1]
      BY <1>9, <2>2
    <3> QED BY <1>9, <3>1
  <2>3. \A i \in 1 .. n : \E p \in Pairs(F) : c[p] = i
    <3> TAKE i \in 1 .. n
    <3>1. <<todos[i], i>> \in Pairs(F) /\ c[<<todos[i], i>>] = i
      BY <1>10
    <3> QED BY <3>1
  <2> QED BY <2>1, <2>2, <2>3 DEF Bijection, Injection, IsInjective, Surjection
<1>12. Cardinality(Pairs(F)) = n
  BY <1>2, <1>8, <1>11, FS_Bijection DEF ExistsBijection
<1> QED BY <1>7, <1>8, <1>12 DEF n

(* The breakdown counts each todo of each file once.                        *)
LEMMA NothingAddsToNothing ==
  ASSUME NEW f, Counts(f), \A d \in DOMAIN f : f[d] = 0
  PROVE  SumOf(f) = 0
<1>1. Units(f) = {}
  <2>1. \A p \in Units(f) : p[1] \in DOMAIN f /\ p[2] \in 1 .. f[p[1]]
    BY SumsAreUnits
  <2>2. \A p \in Units(f) : p[2] \in 1 .. 0
    BY <2>1
  <2> QED BY <2>2
<1> QED BY <1>1, SumsAreUnits, FS_EmptySet

LEMMA BreakdownIsWhole ==
  ASSUME NEW table, TableOf(table)
  PROVE  SumOf([s \in TodoState |-> SumOf([a \in DOMAIN table |-> Count(table[a], s)])])
           = SumOf([a \in DOMAIN table |-> Len(table[a])])
<1> DEFINE F == [a \in DOMAIN table |-> ByStatus(table[a])]
           columns == [s \in TodoState |-> SumOf([a \in DOMAIN table |-> Count(table[a], s)])]
           lengths == [a \in DOMAIN table |-> Len(table[a])]
<1>1. IsFiniteSet(DOMAIN table)
  BY ContentsAssumption, FS_Subset DEF TableOf
<1>2. \A a \in DOMAIN table : /\ table[a] \in Seq(TodoState)
                              /\ Counts(ByStatus(table[a])) /\ SumOf(ByStatus(table[a])) = Len(table[a])
  BY ContentsAssumption, StatusesAddUp DEF TableOf
<1>3. DOMAIN F = DOMAIN table /\ \A a \in DOMAIN table : F[a] = ByStatus(table[a])
  OBVIOUS
<1>4. \A a \in DOMAIN table : DOMAIN F[a] = TodoState /\ \A s \in TodoState : F[a][s] = Count(table[a], s)
  BY <1>3 DEF ByStatus
<1>5. Sums(F) = lengths
  BY <1>2, <1>3 DEF Sums
<1> HIDE DEF F
<1>6. FiniteCounts(F)
  BY <1>1, <1>2, <1>3 DEF FiniteCounts
<1>7. CASE DOMAIN table # {}
  <2>1. UNION {DOMAIN F[i] : i \in DOMAIN F} = TodoState
    BY <1>3, <1>4, <1>7
  <2>2. \A s \in TodoState : {j \in DOMAIN F : s \in DOMAIN F[j]} = DOMAIN table
    BY <1>3, <1>4
  <2>3. \A s \in TodoState : [i \in DOMAIN table |-> F[i][s]] = [a \in DOMAIN table |-> Count(table[a], s)]
    BY <1>4
  <2>4. DOMAIN ColumnsOf(F) = TodoState /\ \A s \in TodoState : ColumnsOf(F)[s] = [a \in DOMAIN table |-> Count(table[a], s)]
    BY <2>1, <2>2, <2>3 DEF ColumnsOf
  <2>5. Sums(ColumnsOf(F)) = columns
    BY <2>4 DEF Sums
  <2> QED BY <1>5, <1>6, <2>5, RowsAndColumnsAgree
<1>8. CASE DOMAIN table = {}
  <2>1. Counts(lengths) /\ \A d \in DOMAIN lengths : lengths[d] = 0
    BY <1>8, FS_EmptySet DEF Counts
  <2>2. \A s \in TodoState : SumOf([a \in DOMAIN table |-> Count(table[a], s)]) = 0
    <3> TAKE s \in TodoState
    <3> DEFINE f == [a \in DOMAIN table |-> Count(table[a], s)]
    <3>1. Counts(f) /\ \A d \in DOMAIN f : f[d] = 0
      BY <1>8, FS_EmptySet DEF Counts
    <3> HIDE DEF f
    <3>2. SumOf(f) = 0
      BY <3>1, NothingAddsToNothing
    <3> QED BY <3>2 DEF f
  <2>3. \A s \in TodoState : columns[s] = 0
    BY <2>2
  <2>4. DOMAIN columns = TodoState
    OBVIOUS
  <2>5. columns = [s \in DOMAIN columns |-> columns[s]]
    OBVIOUS
  <2> HIDE DEF columns, lengths
  <2>6. Counts(columns)
    BY <2>3, <2>4, <2>5, StatusesAreFinite DEF Counts
  <2> QED BY <2>1, <2>3, <2>4, <2>6, NothingAddsToNothing DEF columns, lengths
<1> QED BY <1>7, <1>8

-----------------------------------------------------------------------------
LEMMA TodosKept == ASSUME TodosTyped, UNCHANGED <<files, todoTable, todoDetails, todosData>> PROVE TodosTyped'
BY DEF TodosTyped, TableOf

LEMMA PlansKept == ASSUME PlansTyped, UNCHANGED <<planIds, plansData, selectedPlan, planDetails>> PROVE PlansTyped'
BY DEF PlansTyped, PlanRef

LEMMA FilesAreTable ==
  ASSUME NEW f \in [TodoFile -> Contents \union {NoData}]
  PROVE  TableOf(Tables(f)) /\ \A a \in DOMAIN Tables(f) : Tables(f)[a] = f[a]
BY DEF TableOf, Tables

(* The overview of todos: what is read of a file goes to the table, and     *)
(* from there to the answers and the details.                               *)
LEMMA TodosStep == TodosTyped /\ [DataNext \/ FindNext]_dataVars => TodosTyped'
<1> SUFFICES ASSUME TodosTyped, [DataNext \/ FindNext]_dataVars PROVE TodosTyped'
  OBVIOUS
<1>1. CASE EditFile
  <2>1. files' \in [TodoFile -> Contents \union {NoData}]
    BY <1>1 DEF EditFile, TodosTyped
  <2>2. UNCHANGED <<todoTable, todoDetails, todosData>>
    BY <1>1 DEF EditFile
  <2> QED BY <2>1, <2>2 DEF TodosTyped, TableOf
<1>2. CASE TodosLoad
  BY <1>2 DEF TodosLoad, TodosTyped, TableOf
<1>3. CASE TodoDetail
  <2>1. /\ selectedTodos \in DOMAIN todoTable
        /\ todoDetails' = [a \in DOMAIN todoDetails \union {selectedTodos} |->
                             IF a = selectedTodos THEN todoTable[a] ELSE todoDetails[a]]
        /\ UNCHANGED <<files, todoTable, todosData>>
    BY <1>3 DEF TodoDetail
  <2>2. TableOf(todoDetails')
    BY <2>1 DEF TodosTyped, TableOf
  <2> QED BY <2>1, <2>2 DEF TodosTyped, TableOf
<1>4. CASE Reindexed
  <2> DEFINE read == Tables(files)
  <2>1. TableOf(read) /\ \A a \in DOMAIN read : read[a] = files[a]
    BY FilesAreTable DEF TodosTyped
  <2>2. /\ todoTable' = [a \in DOMAIN read \union DOMAIN todoTable |-> IF a \in DOMAIN read THEN files[a] ELSE todoTable[a]]
        /\ UNCHANGED <<files, todoDetails, todosData>>
    BY <1>4 DEF Reindexed
  <2> HIDE DEF read
  <2>3. TableOf(todoTable')
    BY <2>1, <2>2 DEF TodosTyped, TableOf
  <2> QED BY <2>2, <2>3 DEF TodosTyped, TableOf
<1>5. CASE RefetchTodos
  BY <1>5 DEF RefetchTodos, TodosTyped, TableOf
<1>6. ASSUME NEW t, PlansLoad \/ PlanDetail \/ handleDataRefresh \/ RefetchPlans \/ RefreshFails
                    \/ setActiveTab(t) \/ setSearchTerm(t) \/ SelectTodos(t) \/ SelectPlan(t)
      PROVE  TodosTyped'
  BY <1>6, TodosKept, Zenon DEF PlansLoad, PlanDetail, handleDataRefresh, RefetchPlans, RefreshFails, setActiveTab, setSearchTerm, SelectTodos, SelectPlan
<1>7. ASSUME NEW t, FindSettles \/ FindAnswer \/ PreviousPage \/ NextPage \/ TypeFind(t) \/ SetStatus(t) PROVE TodosTyped'
  BY <1>7, TodosKept, Zenon DEF FindSettles, FindAnswer, PreviousPage, NextPage, TypeFind, SetStatus, overviewVars
<1>8. CASE UNCHANGED dataVars
  BY <1>8, TodosKept, Zenon DEF dataVars, overviewVars
<1> QED BY <1>1, <1>2, <1>3, <1>4, <1>5, <1>6, <1>7, <1>8, Zenon DEF DataNext, FindNext

(* The overview of plans: an id only grows.                                 *)
LEMMA PlansStep == PlansTyped /\ [DataNext \/ FindNext]_dataVars => PlansTyped'
<1> SUFFICES ASSUME PlansTyped, [DataNext \/ FindNext]_dataVars PROVE PlansTyped'
  OBVIOUS
<1>1. CASE PlansLoad
  <2>1. plansData' = planIds /\ UNCHANGED <<planIds, selectedPlan, planDetails>>
    BY <1>1 DEF PlansLoad
  <2> QED BY <2>1 DEF PlansTyped, PlanRef
<1>2. ASSUME NEW p \in filteredPlans, SelectPlan(p) PROVE PlansTyped'
  <2>1. plansData # NoData /\ p \in DOMAIN plansData
    BY <1>2, Zenon DEF filteredPlans
  <2>2. p \in PlanFile /\ plansData[p] \in Nat /\ plansData[p] <= planIds[p]
    BY <2>1 DEF PlansTyped
  <2>3. selectedPlan' = <<p, plansData[p]>> /\ UNCHANGED <<planIds, plansData, planDetails>>
    BY <1>2 DEF SelectPlan
  <2> QED BY <2>2, <2>3 DEF PlansTyped, PlanRef
<1>3. CASE PlanDetail
  <2>1. selectedPlan # NoData /\ planDetails' = planDetails \union {selectedPlan} /\ UNCHANGED <<planIds, plansData, selectedPlan>>
    BY <1>3 DEF PlanDetail
  <2> QED BY <2>1 DEF PlansTyped, PlanRef
<1>4. CASE Reindexed
  <2>1. planIds' = [p \in PlanFile |-> planIds[p] + 1] /\ UNCHANGED <<plansData, selectedPlan, planDetails>>
    BY <1>4 DEF Reindexed
  <2>2. \A p \in PlanFile : planIds[p] \in Nat /\ planIds'[p] \in Nat /\ planIds'[p] = planIds[p] + 1
    BY <2>1 DEF PlansTyped
  <2>3. \A p \in PlanFile : \A n \in Nat : n <= planIds[p] => n <= planIds'[p]
    BY <2>2
  <2>4. planIds' \in [PlanFile -> Nat]
    BY <2>1, <2>2
  <2>5. plansData # NoData => \A p \in PlanFile : plansData[p] \in Nat /\ plansData[p] <= planIds'[p]
    BY <2>3 DEF PlansTyped
  <2>6. \A x : PlanRef(x) => PlanRef(x)'
    BY <2>3 DEF PlanRef
  <2>7. selectedPlan # NoData => PlanRef(selectedPlan)'
    BY <2>1, <2>3 DEF PlanRef, PlansTyped
  <2>8. \A x \in planDetails : x[1] \in PlanFile /\ x[2] \in Nat /\ x[2] <= planIds'[x[1]]
    BY <2>3 DEF PlanRef, PlansTyped
  <2> QED BY <2>1, <2>4, <2>5, <2>7, <2>8 DEF PlansTyped, PlanRef
<1>5. CASE RefetchPlans
  <2>1. plansData' = planIds /\ UNCHANGED <<planIds, selectedPlan, planDetails>>
    BY <1>5 DEF RefetchPlans
  <2> QED BY <2>1 DEF PlansTyped, PlanRef
<1>6. ASSUME NEW t, EditFile \/ TodosLoad \/ TodoDetail \/ handleDataRefresh \/ RefetchTodos \/ RefreshFails
                    \/ setActiveTab(t) \/ setSearchTerm(t) \/ SelectTodos(t)
      PROVE  PlansTyped'
  BY <1>6, PlansKept, Zenon DEF EditFile, TodosLoad, TodoDetail, handleDataRefresh, RefetchTodos, RefreshFails, setActiveTab, setSearchTerm, SelectTodos
<1>7. ASSUME NEW t, FindSettles \/ FindAnswer \/ PreviousPage \/ NextPage \/ TypeFind(t) \/ SetStatus(t) PROVE PlansTyped'
  BY <1>7, PlansKept, Zenon DEF FindSettles, FindAnswer, PreviousPage, NextPage, TypeFind, SetStatus, overviewVars
<1>8. CASE UNCHANGED dataVars
  BY <1>8, PlansKept, Zenon DEF dataVars, overviewVars
<1> QED BY <1>1, <1>2, <1>3, <1>4, <1>5, <1>6, <1>7, <1>8, Zenon DEF DataNext, FindNext

LEMMA RefreshStep == RefreshTyped /\ [DataNext \/ FindNext]_dataVars => RefreshTyped'
<1> SUFFICES ASSUME RefreshTyped, [DataNext \/ FindNext]_dataVars PROVE RefreshTyped'
  OBVIOUS
<1>1. ASSUME NEW t, handleDataRefresh \/ Reindexed \/ RefetchTodos \/ RefetchPlans \/ RefreshFails PROVE RefreshTyped'
  BY <1>1, Zenon DEF handleDataRefresh, Reindexed, RefetchTodos, RefetchPlans, RefreshFails, RefreshTyped
<1>2. ASSUME NEW t, EditFile \/ TodosLoad \/ TodoDetail \/ PlansLoad \/ PlanDetail
                    \/ setActiveTab(t) \/ setSearchTerm(t) \/ SelectTodos(t) \/ SelectPlan(t)
      PROVE  RefreshTyped'
  BY <1>2, Zenon DEF EditFile, TodosLoad, TodoDetail, PlansLoad, PlanDetail, setActiveTab, setSearchTerm, SelectTodos, SelectPlan, RefreshTyped
<1>3. ASSUME NEW t, FindSettles \/ FindAnswer \/ PreviousPage \/ NextPage \/ TypeFind(t) \/ SetStatus(t) PROVE RefreshTyped'
  BY <1>3, Zenon DEF FindSettles, FindAnswer, PreviousPage, NextPage, TypeFind, SetStatus, overviewVars, RefreshTyped
<1>4. CASE UNCHANGED dataVars
  BY <1>4, Zenon DEF dataVars, overviewVars, RefreshTyped
<1> QED BY <1>1, <1>2, <1>3, <1>4, Zenon DEF DataNext, FindNext

LEMMA WholePagesStep == WholePages /\ [DataNext \/ FindNext]_dataVars => WholePages'
<1> SUFFICES ASSUME WholePages, [DataNext \/ FindNext]_dataVars PROVE WholePages'
  OBVIOUS
<1>1. PICK k \in Nat : offset = k * Limit
  BY DEF WholePages
<1>2. Limit \in Nat /\ Limit > 0
  BY FindAssumption
<1>3. ASSUME UNCHANGED offset PROVE WholePages'
  BY <1>3 DEF WholePages
<1>4. ASSUME offset' = 0 PROVE WholePages'
  <2>1. offset' = 0 * Limit
    BY <1>2, <1>4
  <2> QED BY <2>1 DEF WholePages
<1>5. CASE PreviousPage
  <2>1. offset # 0 /\ offset' = Max({0, offset - Limit})
    BY <1>5 DEF PreviousPage
  <2>2. k - 1 \in Nat /\ offset - Limit = (k - 1) * Limit /\ offset - Limit >= 0
    BY <1>1, <1>2, <2>1
  <2>3. offset' = offset - Limit \/ offset' = 0
    BY <1>2, <2>1, <2>2, MaxOfTwo
  <2> QED BY <1>4, <2>2, <2>3 DEF WholePages
<1>6. CASE NextPage
  <2>1. offset' = (k + 1) * Limit /\ k + 1 \in Nat
    BY <1>1, <1>2, <1>6 DEF NextPage
  <2> QED BY <2>1 DEF WholePages
<1>7. CASE DataNext
  <2>1. UNCHANGED offset
    BY <1>7, Zenon DEF findVars, DataNext, EditFile, TodosLoad, PlansLoad, TodoDetail, PlanDetail, handleDataRefresh, Reindexed, RefetchTodos,
                RefetchPlans, RefreshFails, setActiveTab, setSearchTerm, SelectTodos, SelectPlan
  <2> QED BY <1>3, <2>1
<1>8. ASSUME NEW t, TypeFind(t) \/ FindAnswer PROVE WholePages'
  BY <1>3, <1>8, Zenon DEF TypeFind, FindAnswer
<1>9. ASSUME NEW t, SetStatus(t) \/ FindSettles PROVE WholePages'
  BY <1>4, <1>9, Zenon DEF SetStatus, FindSettles
<1>10. CASE UNCHANGED dataVars
  BY <1>3, <1>10, Zenon DEF dataVars, findVars
<1> QED BY <1>5, <1>6, <1>7, <1>8, <1>9, <1>10, Zenon DEF FindNext

LEMMA WholePagesStart ==
  ASSUME NEW k \in Nat, NEW n \in Nat, n > 0
  PROVE  (k * n) % n = 0
<1> DEFINE x == k * n
           q == x \div n
           r == x % n
<1>1. x \in Int
  OBVIOUS
<1>2. q \in Int /\ r \in 0 .. n - 1 /\ x = n * q + r
  <2> HIDE DEF x
  <2> QED BY <1>1
<1> HIDE DEF q, r
<1>3. r = n * (k - q)
  BY <1>2
<1>4. k - q = 0
  <2>1. CASE k - q >= 1
    BY <1>2, <1>3, <2>1
  <2>2. CASE k - q <= -1
    BY <1>2, <1>3, <2>2
  <2> QED BY <1>2, <2>1, <2>2
<1>5. r = 0
  BY <1>2, <1>3, <1>4
<1> QED BY <1>5 DEF r

LEMMA DataTypesAre == DataTypes => DataTypeOK
<1> SUFFICES ASSUME DataTypes PROVE DataTypeOK
  OBVIOUS
<1>1. todosData # NoData => DOMAIN todosData \subseteq TodoFile
  BY DEF DataTypes, TodosTyped, TableOf
<1>2. selectedPlan # NoData => selectedPlan[1] \in PlanFile
  BY DEF DataTypes, PlansTyped, PlanRef
<1>3. SessionShown # NoData => SessionShown \in Contents
  BY DEF DataTypes, TodosTyped, TableOf, SessionShown
<1>4. PlanShown # NoData => PlanShown[2] <= planIds[PlanShown[1]]
  BY DEF DataTypes, PlansTyped, PlanRef, PlanShown
<1>5. offset % Limit = 0
  BY WholePagesStart, FindAssumption DEF DataTypes, WholePages
<1>6. FindError => total = 0
  BY DEF FindError, total
<1>7. ASSUME todosData # NoData
      PROVE  /\ \A a \in DOMAIN todosData : Dot(todosData[a]) = "green" <=> todosData[a] # <<>> /\ ToSet(todosData[a]) = {"completed"}
             /\ SumOf(status_breakdown) = SumOf([a \in DOMAIN todosData |-> Len(todosData[a])])
  <2>1. TableOf(todosData)
    BY <1>7 DEF DataTypes, TodosTyped
  <2>2. \A a \in DOMAIN todosData : todosData[a] \in Seq(TodoState)
    BY <2>1, ContentsAssumption DEF TableOf
  <2>3. status_breakdown = [s \in TodoState |-> SumOf([a \in DOMAIN todosData |-> Count(todosData[a], s)])]
    BY <1>7, Zenon DEF status_breakdown, Break
  <2> QED BY <2>1, <2>2, <2>3, GreenIsDone, BreakdownIsWhole
<1>8. refreshingData \in {"", "reindex", "todos", "plans"} /\ findStatus \in Statuses
  BY Zenon DEF DataTypes, RefreshTyped, FindInv
<1> QED BY <1>1, <1>2, <1>3, <1>4, <1>5, <1>6, <1>7, <1>8, Zenon DEF DataTypeOK

LEMMA DataTypesInitially == DataInit => DataTypes
<1> SUFFICES ASSUME DataInit PROVE DataTypes
  OBVIOUS
<1>1. /\ files \in [TodoFile -> Contents \union {NoData}] /\ todoTable = Tables(files)
      /\ planIds = [p \in PlanFile |-> 1] /\ todosData = NoData /\ plansData = NoData
      /\ selectedPlan = NoData /\ todoDetails = <<>> /\ planDetails = {} /\ refreshingData = "" /\ offset = 0
  BY Zenon DEF DataInit
<1>2. TodosTyped
  <2>1. TableOf(todoTable)
    BY <1>1, FilesAreTable, Zenon
  <2>2. TableOf(todoDetails)
    <3>1. todoDetails = <<>>
      BY <1>1, Zenon
    <3> QED BY <3>1 DEF TableOf
  <2> QED BY <1>1, <2>1, <2>2, Zenon DEF TodosTyped
<1>3. PlansTyped
  <2>1. planIds \in [PlanFile -> Nat]
    <3>1. planIds = [p \in PlanFile |-> 1]
      BY <1>1, Zenon
    <3> QED BY <3>1
  <2> QED BY <1>1, <2>1, Zenon DEF PlansTyped
<1>4. WholePages
  <2>1. offset = 0 /\ Limit \in Nat
    BY <1>1, FindAssumption, Zenon
  <2>2. offset = 0 * Limit
    BY <2>1
  <2> QED BY <2>2 DEF WholePages
<1>5. FindInv
  BY FindInitially
<1> QED BY <1>1, <1>2, <1>3, <1>4, <1>5, Zenon DEF DataTypes, RefreshTyped

LEMMA DataTypesStep == DataTypes /\ [DataNext \/ FindNext]_dataVars => DataTypes'
BY TodosStep, PlansStep, RefreshStep, FindStep, WholePagesStep DEF DataTypes

(* The types of the two searches and the overview: a dot is green when all  *)
(* todos of the file are done, the breakdown counts each todo once, and a   *)
(* page of a search starts at a multiple of its size (SessionData.tsx,      *)
(* TodosSearch.tsx 11-18).                                                  *)
THEOREM DataTypesCorrect == DataSpec => []DataTypeOK
<1>1. DataSpec => []DataTypes
  BY DataTypesInitially, DataTypesStep, PTL DEF DataSpec
<1> QED BY <1>1, DataTypesAre, PTL

-----------------------------------------------------------------------------
(* The types of the detail of a request.                                   *)
(* What is open at an index: marks of the component there, and of the one   *)
(* inside it.                                                               *)
OuterMark == {"expanded", "lightbox", "failed"}
IsOpened(o) == o = [outer |-> o.outer, inner |-> o.inner] /\ o.outer \subseteq OuterMark

MessageTypes ==
  /\ ContentIsOfThread
  /\ fetched \subseteq 1 .. 2
  /\ opened = [p \in 1 .. 2 |-> opened[p]] /\ \A p \in 1 .. 2 : IsOpened(opened[p])
  /\ reads \in 0 .. MaxReads

LEMMA ClosedIsOpened == IsOpened(Closed) /\ AllClosed = [p \in 1 .. 2 |-> AllClosed[p]] /\ \A p \in 1 .. 2 : IsOpened(AllClosed[p])
BY DEF IsOpened, Closed, AllClosed

LEMMA ReconciledIsOpened == ASSUME NEW old, NEW new, NEW o, IsOpened(o) PROVE IsOpened(Reconciled(old, new, o))
<1>1. IsOpened([o EXCEPT !.inner = IF Inner(old) = Inner(new) THEN @ ELSE {}])
  BY DEF IsOpened
<1> QED BY <1>1, ClosedIsOpened DEF Reconciled

LEMMA MountedIsOpened ==
  ASSUME MessageTypes, NEW c
  PROVE  Mounted(c) = [p \in 1 .. 2 |-> Mounted(c)[p]] /\ \A p \in 1 .. 2 : IsOpened(Mounted(c)[p])
<1>1. \A p \in 1 .. 2 : Mounted(c)[p] \in {Closed, Reconciled(content.blocks[p], c.blocks[p], opened[p])}
  BY DEF Mounted
<1>2. Mounted(c) = [p \in 1 .. 2 |-> Mounted(c)[p]]
  BY DEF Mounted
<1> QED BY <1>1, <1>2, ClosedIsOpened, ReconciledIsOpened DEF MessageTypes

LEMMA OuterIsOpened ==
  ASSUME MessageTypes, NEW p \in 1 .. 2, NEW mark \in OuterMark, OpenOuter(p, mark)
  PROVE  opened' = [q \in 1 .. 2 |-> opened'[q]] /\ \A q \in 1 .. 2 : IsOpened(opened'[q])
<1> DEFINE outer == SymDiff(opened[p].outer, {mark})
           half == [opened EXCEPT ![p].outer = outer]
<1>1. opened' = [half EXCEPT ![p].inner = {}]
  BY DEF OpenOuter
<1>2. outer \subseteq OuterMark
  BY DEF SymDiff, MessageTypes, IsOpened
<1> HIDE DEF outer
<1>3. \A q \in 1 .. 2 : half[q] = IF q = p THEN [outer |-> outer, inner |-> opened[p].inner] ELSE opened[q]
  BY DEF MessageTypes, IsOpened
<1>4. half = [q \in 1 .. 2 |-> half[q]]
  BY DEF MessageTypes
<1> HIDE DEF half
<1>5. \A q \in 1 .. 2 : opened'[q] = IF q = p THEN [outer |-> outer, inner |-> {}] ELSE opened[q]
  BY <1>1, <1>3, <1>4
<1>6. opened' = [q \in 1 .. 2 |-> opened'[q]]
  BY <1>1, <1>4
<1>7. \A q \in 1 .. 2 : IsOpened(opened'[q])
  BY <1>2, <1>5 DEF IsOpened, MessageTypes
<1> QED BY <1>6, <1>7

LEMMA MessageTypesStep == MessageTypes /\ [MessageNext]_messageVars => MessageTypes'
<1> SUFFICES ASSUME MessageTypes, [MessageNext]_messageVars PROVE MessageTypes'
  OBVIOUS
<1>0. ContentIsOfThread'
  BY ContentStep DEF MessageTypes
<1>r. Reading => reads' \in 0 .. MaxReads
  BY MessageAssumption DEF Reading, MessageTypes
<1>1. CASE ShowDetail
  <2>1. fetched' \subseteq 1 .. 2
    BY <1>1 DEF ShowDetail, MessageTypes, ContentIsOfThread
  <2> QED BY <1>0, <1>1, <2>1 DEF ShowDetail, MessageTypes
<1>2. ASSUME NEW r \in 1 .. 2, ShowRequest(r) PROVE MessageTypes'
  <2>1. opened' = Mounted(thread[r]) \/ opened' = AllClosed
    BY <1>2 DEF ShowRequest
  <2>2. opened' = [p \in 1 .. 2 |-> opened'[p]] /\ \A p \in 1 .. 2 : IsOpened(opened'[p])
    BY <2>1, MountedIsOpened, ClosedIsOpened
  <2>3. fetched' \subseteq 1 .. 2 /\ reads' \in 0 .. MaxReads
    BY <1>2, <1>r DEF ShowRequest, MessageTypes
  <2> QED BY <1>0, <2>2, <2>3 DEF MessageTypes
<1>3. ASSUME NEW p \in 1 .. 2, NEW mark \in OuterMark, OpenOuter(p, mark), UNCHANGED fetched, reads' \in 0 .. MaxReads
      PROVE  MessageTypes'
  BY <1>0, <1>3, OuterIsOpened DEF MessageTypes
<1>4. ASSUME NEW p \in 1 .. 2, ToggleTool(p) \/ ToggleLightbox(p) \/ ImageFails(p) PROVE MessageTypes'
  <2>1. UNCHANGED fetched /\ reads' \in 0 .. MaxReads
    BY <1>4, <1>r DEF ToggleTool, ToggleLightbox, ImageFails, MessageTypes
  <2>2. \E mark \in OuterMark : OpenOuter(p, mark)
    BY <1>4 DEF ToggleTool, ToggleLightbox, ImageFails, OuterMark
  <2> QED BY <1>3, <2>1, <2>2
<1>5. ASSUME NEW p \in Shown, NEW mark, ToggleInner(p, mark) PROVE MessageTypes'
  <2>1. UNCHANGED fetched /\ reads' \in 0 .. MaxReads
    BY <1>5, <1>r DEF ToggleInner
  <2>2. opened' = [opened EXCEPT ![p].inner = SymDiff(@, {mark})]
    BY <1>5 DEF ToggleInner
  <2>3. \A q \in 1 .. 2 : IsOpened(opened'[q])
    <3> TAKE q \in 1 .. 2
    <3>1. opened'[q] = opened[q] \/ opened'[q] = [opened[q] EXCEPT !.inner = SymDiff(@, {mark})]
      BY <2>2 DEF MessageTypes
    <3>2. IsOpened([opened[q] EXCEPT !.inner = SymDiff(@, {mark})]) /\ IsOpened(opened[q])
      BY DEF IsOpened, MessageTypes
    <3> QED BY <3>1, <3>2
  <2>4. opened' = [q \in 1 .. 2 |-> opened'[q]]
    BY <2>2 DEF MessageTypes
  <2> QED BY <1>0, <2>1, <2>3, <2>4 DEF MessageTypes
<1>6. CASE UNCHANGED messageVars
  BY <1>0, <1>6 DEF messageVars, MessageTypes
<1> QED BY <1>1, <1>2, <1>4, <1>5, <1>6 DEF MessageNext

LEMMA MessageTypesInitially == MessageInit => MessageTypes
BY ClosedIsOpened, MessageAssumption DEF MessageInit, MessageTypes, ContentIsOfThread

LEMMA MessageTypesAre == MessageTypes => MessageTypeOK
BY DEF MessageTypes, MessageTypeOK, ContentIsOfThread, IsOpened, OuterMark

(* The types of the detail: the content is that of the request selected,    *)
(* and what is open at an index fits the components there can be            *)
(* (Requests.tsx RequestDetail, MessageContent.tsx 40-226).                 *)
THEOREM MessageTypesCorrect == MessageSpec => []MessageTypeOK
<1>1. MessageSpec => []MessageTypes
  BY MessageTypesInitially, MessageTypesStep, PTL DEF MessageSpec
<1> QED BY MessageTypesAre, <1>1, PTL
=============================================================================
