-------------------------- MODULE ListPagesProofs ---------------------------
(***************************************************************************)
(* The pages that rank, filter and cut lists: the search of the shell, the *)
(* cockpit, the conversations, the workshop and the feed. What they show,  *)
(* select, open and suggest is right for any sets of results, sessions,    *)
(* extensions and states, and any number of steps.                         *)
(***************************************************************************)
EXTENDS LegacyShell, Cockpit, ConversationsPage, ExtensionWorkshop, MissionControl, TokenEconomics, ArrayProofs

-----------------------------------------------------------------------------
(* The search of the legacy shell.                                          *)

(* What the server found for a query, of any kind. *)
FoundBy(q) == UNION {ToSet(ShellResults[q][k]) : k \in Kind}

LEMMA FiveKinds == Kind = {"request", "conversation", "extension", "todo", "plan"}
                   /\ \A k \in 1 .. 5 : Kinds[k] \in Kind
BY DEF Kind, Kinds, ToSet

LEMMA FoundHaveRank == ASSUME NEW q \in LongQuery, NEW item \in FoundBy(q) PROVE item.matches \in Nat /\ item.at \in Nat
BY ResultsAssumption DEF FoundBy, ToSet

(* The results are put together of one answer for each kind, or of the      *)
(* answer of the kind of the tab.                                           *)
LEMMA CollectedAreFound == ASSUME NEW q \in LongQuery, NEW t PROVE Collected(q, t) \in Seq(FoundBy(q))
<1>1. ASSUME NEW k \in Kind PROVE KindAnswers(q, t, k) \in Seq(FoundBy(q))
  <2>1. ShellResults[q][k] \in Seq(ToSet(ShellResults[q][k]))
    BY ResultsAssumption
  <2>2. ToSet(ShellResults[q][k]) \subseteq FoundBy(q)
    BY DEF FoundBy
  <2>3. ShellResults[q][k] \in Seq(FoundBy(q))
    BY <2>1, <2>2
  <2> QED BY <2>3 DEF KindAnswers
<1>2. \A i \in 1 .. 5 : KindAnswers(q, t, Kinds[i]) \in Seq(FoundBy(q))
  BY <1>1, FiveKinds
<1> QED BY <1>2 DEF Collected

(* More matches first, then the newer: a stable sort makes it a total order *)
(* of the places of a list.                                                 *)
LEMMA MatchesOrder ==
  ASSUME NEW s, NEW D \in SUBSET Int, \A i \in D : s[i].matches \in Nat /\ s[i].at \in Nat
  PROVE  OrdersTotally(BestFirst(s, D), D)
<1> DEFINE R == BestFirst(s, D)
<1>1. \A i, j \in D : <<i, j>> \in R <=> Ahead(s, i, j)
  BY DEF BestFirst
<1> HIDE DEF R
<1>2. \A i \in D : ~Ahead(s, i, i)
  BY DEF Ahead
<1>3. \A i, j \in D : i # j => Ahead(s, i, j) \/ Ahead(s, j, i)
  BY DEF Ahead
<1>4. \A i, j, k \in D : Ahead(s, i, j) /\ Ahead(s, j, k) => Ahead(s, i, k)
  BY DEF Ahead
<1>5. OrdersTotally(R, D)
  BY <1>1, <1>2, <1>3, <1>4 DEF OrdersTotally
<1> QED BY <1>5 DEF R

(* The sort loses no result and adds none. *)
LEMMA SortedAreFound ==
  ASSUME NEW q \in LongQuery, NEW s \in Seq(FoundBy(q))
  PROVE  Sorted(s) \in Seq(FoundBy(q))
<1> DEFINE R == BestFirst(s, DOMAIN s)
<1>1. Len(s) \in Nat /\ DOMAIN s = 1 .. Len(s) /\ IsFiniteSet(1 .. Len(s)) /\ Cardinality(1 .. Len(s)) = Len(s)
  <2>1. Len(s) \in Nat /\ DOMAIN s = 1 .. Len(s)
    OBVIOUS
  <2> QED BY <2>1, FS_Interval
<1>2. \A i \in DOMAIN s : s[i] \in FoundBy(q) /\ s[i].matches \in Nat /\ s[i].at \in Nat
  BY <1>1, FoundHaveRank
<1>3. OrdersTotally(R, DOMAIN s)
  <2>1. DOMAIN s \in SUBSET Int
    BY <1>1
  <2> QED BY <1>2, <2>1, MatchesOrder
<1> HIDE DEF R
<1>4. Ranked(DOMAIN s, R) \in [1 .. Len(s) -> DOMAIN s]
  BY <1>1, <1>3, RankedLists
<1>5. Sorted(s) = [i \in DOMAIN s |-> s[Ranked(DOMAIN s, R)[i]]]
  BY DEF Sorted, R
<1>6. Sorted(s) \in [1 .. Len(s) -> FoundBy(q)]
  BY <1>1, <1>2, <1>4, <1>5
<1> QED BY <1>1, <1>6

LEMMA VisibleAreFound ==
  ASSUME NEW done \in SUBSET LongQuery, NEW q, NEW t
  PROVE  /\ Visible(q, t, done) \in Seq(FoundBy(q))
         /\ Visible(q, t, done) # <<>> => q \in LongQuery
BY CollectedAreFound, SortedAreFound DEF Visible

-----------------------------------------------------------------------------
InRange(i, results) == i \in Int /\ (results # <<>> => i \in 0 .. Len(results) - 1)

(* The listener may be that of an earlier render with as many results; what *)
(* it lists was found by the query it closes over.                          *)
ListenerOK ==
  showDropdown =>
    /\ InRange(selected, ShellShown)
    /\ listener.index = selected /\ Len(listener.list) = Len(ShellShown)
    /\ listener.list \in Seq(FoundBy(listener.query))
    /\ listener.list # <<>> => listener.query \in LongQuery

(* A result is opened with a query that found it. *)
OpenedWasFound ==
  openedPath # NoTarget =>
    /\ openedPath.query \in LongQuery
    /\ \E k \in Kind : openedPath.item \in ToSet(ShellResults[openedPath.query][k])

(* Nothing is listed before it was asked for and answered, and the keys     *)
(* work on what was found.                                                  *)
ShellInv ==
  /\ askedQuery \subseteq LongQuery /\ answered \subseteq LongQuery
  /\ showDropdown => shellQuery \in LongQuery
  /\ ListenerOK
  /\ OpenedWasFound

LEMMA ListenerRegistered ==
  ASSUME NEW i, NEW q, NEW t, NEW done \in SUBSET LongQuery, listener' = Listener(i, q, t, done)
  PROVE  /\ listener'.index = i /\ listener'.list = Visible(q, t, done)
         /\ listener'.list \in Seq(FoundBy(listener'.query))
         /\ listener'.list # <<>> => listener'.query \in LongQuery
BY VisibleAreFound DEF Listener

(* A render of the dropdown, whatever it is for. *)
LEMMA DropdownStep ==
  ASSUME ShellInv, NEW shown, NEW q, NEW t, NEW i, NEW done \in SUBSET LongQuery,
         Dropdown(shown, q, t, i, done), shown => shellQuery' = q /\ answered' = done,
         shown /\ showDropdown => InRange(i, ShellShown)
  PROVE  ListenerOK'
<1>1. CASE ~shown
  BY <1>1 DEF Dropdown, ListenerOK
<1>2. ASSUME shown, dropdownTab' = t PROVE ShellShown' = Visible(q, t, done)
  BY <1>2 DEF ShellShown
<1>3. CASE shown /\ ~showDropdown
  <2>1. dropdownTab' = "all" /\ selected' = 0 /\ listener' = Listener(0, q, "all", done)
    BY <1>3 DEF Dropdown
  <2>2. ShellShown' = Visible(q, "all", done) /\ ShellShown' \in Seq(FoundBy(q))
    BY <1>3, <2>1, VisibleAreFound DEF ShellShown
  <2>3. InRange(0, ShellShown')
    BY <2>2 DEF InRange
  <2>4. ListenerOK' <=> (showDropdown' =>
                           /\ InRange(selected', ShellShown')
                           /\ listener'.index = selected' /\ Len(listener'.list) = Len(ShellShown')
                           /\ listener'.list \in Seq(FoundBy(listener'.query))
                           /\ listener'.list # <<>> => listener'.query \in LongQuery)
    BY DEF ListenerOK, InRange, FoundBy
  <2> QED BY <2>1, <2>2, <2>3, <2>4, ListenerRegistered
<1>4. CASE shown /\ showDropdown
  <2> DEFINE resized == Len(Visible(q, t, done)) # Len(ShellShown)
  <2>1. /\ dropdownTab' = t /\ selected' = (IF resized THEN 0 ELSE i)
        /\ listener' = IF resized \/ i # selected THEN Listener(selected', q, t, done) ELSE listener
    BY <1>4 DEF Dropdown
  <2>2. ShellShown' = Visible(q, t, done) /\ ShellShown' \in Seq(FoundBy(q))
    BY <1>2, <1>4, <2>1, VisibleAreFound
  <2>3. ShellShown \in Seq(FoundBy(shellQuery))
    BY VisibleAreFound DEF ShellShown, ShellInv
  <2>4. InRange(selected', ShellShown')
    <3>1. CASE resized
      BY <2>1, <2>2, <3>1 DEF InRange
    <3>2. CASE ~resized
      <4>1. Len(ShellShown') = Len(ShellShown) /\ selected' = i
        BY <2>1, <2>2, <3>2
      <4>2. ShellShown' # <<>> => ShellShown # <<>>
        BY <2>2, <2>3, <4>1
      <4> QED BY <1>4, <4>1, <4>2 DEF InRange
    <3> QED BY <3>1, <3>2
  <2>5. CASE resized \/ i # selected
    BY <2>1, <2>2, <2>4, <2>5, ListenerRegistered DEF ListenerOK, InRange, FoundBy
  <2>6. CASE ~(resized \/ i # selected)
    <3>1. listener' = listener /\ selected' = selected /\ Len(ShellShown') = Len(ShellShown)
      BY <2>1, <2>2, <2>6
    <3> QED BY <1>4, <2>4, <3>1 DEF ListenerOK, ShellInv, InRange, FoundBy
  <2> QED BY <2>5, <2>6
<1> QED BY <1>1, <1>3, <1>4

LEMMA ShownAreFound == ShellInv => ShellShown \in Seq(FoundBy(shellQuery)) /\ (ShellShown # <<>> => shellQuery \in LongQuery)
BY VisibleAreFound DEF ShellShown, ShellInv

(* A step that renders the dropdown and opens nothing. *)
LEMMA DropdownKeeps ==
  ASSUME ShellInv, NEW shown, NEW q, NEW t, NEW i, NEW done \in SUBSET LongQuery,
         Dropdown(shown, q, t, i, done), shown => shellQuery' = q /\ q \in LongQuery, answered' = done,
         shown /\ showDropdown => InRange(i, ShellShown), UNCHANGED openedPath
  PROVE  ShellInv'
<1>1. ListenerOK'
  BY DropdownStep
<1>2. askedQuery' \subseteq LongQuery
  BY DEF Dropdown, ShellInv
<1>3. showDropdown' = shown
  BY DEF Dropdown
<1> QED BY <1>1, <1>2, <1>3 DEF ShellInv, OpenedWasFound

LEMMA SelectionKept == ASSUME ShellInv, showDropdown PROVE InRange(selected, ShellShown)
BY DEF ShellInv, ListenerOK

(* Both ways to open a result, Enter and a click, open one that was found. *)
LEMMA SelectFound ==
  ASSUME ShellInv, NEW q \in LongQuery, NEW item \in FoundBy(q), NEW by, Select(item, q, by)
  PROVE  ShellInv'
<1>1. Dropdown(FALSE, shellQuery, dropdownTab, selected, answered) /\ answered' = answered
  BY DEF Select
<1>2. ListenerOK'
  BY <1>1, DropdownStep DEF ShellInv
<1>3. askedQuery' \subseteq LongQuery
  BY <1>1 DEF Dropdown, ShellInv
<1>7. showDropdown' = FALSE
  BY <1>1 DEF Dropdown
<1>4. openedPath' = [item |-> item, query |-> q, by |-> by]
  BY DEF Select
<1>5. \E k \in Kind : item \in ToSet(ShellResults[q][k])
  BY DEF FoundBy
<1>6. OpenedWasFound'
  BY <1>4, <1>5 DEF OpenedWasFound
<1> QED BY <1>1, <1>2, <1>3, <1>6, <1>7 DEF ShellInv

LEMMA ShellStep == ShellInv /\ [ShellNext]_shellVars => ShellInv'
<1> SUFFICES ASSUME ShellInv, [ShellNext]_shellVars PROVE ShellInv'
  OBVIOUS
<1> answered \in SUBSET LongQuery
  BY DEF ShellInv
<1> DEFINE known == answered \in SUBSET LongQuery /\ (showDropdown => shellQuery \in LongQuery /\ InRange(selected, ShellShown))
<1> known
  BY SelectionKept DEF ShellInv
<1>1. ASSUME NEW q \in ShellQuery, TypeInBar(q) PROVE ShellInv'
  BY <1>1, DropdownKeeps DEF TypeInBar, ShowAfter
<1>2. ASSUME ResetSearch, UNCHANGED <<answered, openedPath>> PROVE ShellInv'
  BY <1>2, DropdownKeeps DEF ResetSearch
<1>3. CASE ClearSearch
  BY <1>2, <1>3 DEF ClearSearch
<1>4. CASE OpenEverything
  BY <1>4, DropdownKeeps DEF OpenEverything, ShowAfter
<1>5. CASE ResetScope
  BY <1>5, DropdownKeeps DEF ResetScope, ShowAfter
<1>6. CASE FocusBar
  <2>1. UNCHANGED <<dropdown, askedQuery, answered, openedPath, shellQuery>>
    BY <1>6 DEF FocusBar
  <2> QED BY <2>1 DEF dropdown, ShellInv, ListenerOK, OpenedWasFound, InRange, ShellShown, Visible
<1>7. CASE ClickOutside
  BY <1>7, DropdownKeeps DEF ClickOutside
<1>8. CASE Escape
  BY <1>2, <1>8, DropdownKeeps DEF Escape
<1>9. ASSUME NEW i, Arrow(i), InRange(i, ShellShown) PROVE ShellInv'
  BY <1>9, DropdownKeeps DEF Arrow, searchState
<1>10. ShellShown \in Seq(FoundBy(shellQuery)) /\ Len(ShellShown) \in Nat /\ (ShellShown # <<>> => Len(ShellShown) > 0)
  BY ShownAreFound
<1>11. CASE ArrowDown
  <2> DEFINE i == Smaller(selected + 1, Len(listener.list) - 1)
  <2>1. showDropdown /\ Arrow(i) /\ Len(listener.list) = Len(ShellShown)
    BY <1>11 DEF ArrowDown, ShellInv, ListenerOK
  <2>2. InRange(i, ShellShown)
    BY <1>10, <2>1 DEF InRange, Smaller
  <2> QED BY <1>9, <2>1, <2>2
<1>12. CASE ArrowUp
  <2> DEFINE i == IF selected > 0 THEN selected - 1 ELSE 0
  <2>1. showDropdown /\ Arrow(i)
    BY <1>12 DEF ArrowUp, Arrow
  <2>2. InRange(i, ShellShown)
    BY <1>10, <2>1 DEF InRange
  <2> QED BY <1>9, <2>1, <2>2
<1>13. CASE Enter
  <2> DEFINE item == listener.list[listener.index + 1]
  <2>1. /\ showDropdown /\ listener.index + 1 \in DOMAIN listener.list /\ Select(item, listener.query, "enter")
        /\ listener.list \in Seq(FoundBy(listener.query))
        /\ listener.list # <<>> => listener.query \in LongQuery
    BY <1>13 DEF Enter, ShellInv, ListenerOK
  <2>2. item \in FoundBy(listener.query) /\ listener.query \in LongQuery
    BY <2>1
  <2> QED BY <2>1, <2>2, SelectFound
<1>14. ASSUME NEW t, ClickTab(t) PROVE ShellInv'
  BY <1>14, DropdownKeeps DEF ClickTab, searchState
<1>15. ASSUME NEW i, ClickResult(i) PROVE ShellInv'
  <2>1. i \in DOMAIN ShellShown /\ Select(ShellShown[i], shellQuery, "click")
    BY <1>15 DEF ClickResult
  <2>2. ShellShown[i] \in FoundBy(shellQuery) /\ shellQuery \in LongQuery
    BY <1>10, <2>1, ShownAreFound
  <2> QED BY <2>1, <2>2, SelectFound
<1>16. ASSUME NEW q \in LongQuery, Answer(q) PROVE ShellInv'
  <2>1. answered' \in SUBSET LongQuery /\ UNCHANGED <<shellQuery, openedPath>>
    BY <1>16 DEF Answer, searchState
  <2>2. CASE showDropdown
    BY <1>16, <2>1, <2>2, DropdownKeeps DEF Answer
  <2>3. CASE ~showDropdown
    BY <1>16, <2>1, <2>3 DEF Answer, dropdown, ShellInv, ListenerOK, OpenedWasFound
  <2> QED BY <2>2, <2>3
<1>17. ASSUME NEW p, GotoPath(p) PROVE ShellInv'
  BY <1>17, DropdownKeeps DEF GotoPath
<1>18. ASSUME NEW p, SelectItem(p) \/ FollowLink(p) PROVE ShellInv'
  BY <1>17, <1>18 DEF SelectItem, FollowLink
<1>19. CASE ReloadPath
  <2>1. showDropdown' = FALSE /\ askedQuery' = {} /\ answered' = {} /\ openedPath' = NoTarget
    BY <1>19 DEF ReloadPath
  <2> QED BY <2>1 DEF ShellInv, ListenerOK, OpenedWasFound
<1>20. CASE UNCHANGED shellVars
  <2>1. UNCHANGED <<dropdown, askedQuery, answered, openedPath, shellQuery>>
    BY <1>20 DEF shellVars, searchState
  <2> QED BY <2>1 DEF dropdown, ShellInv, ListenerOK, OpenedWasFound, InRange, ShellShown, Visible
<1> QED BY <1>1, <1>3, <1>4, <1>5, <1>6, <1>7, <1>8, <1>11, <1>12, <1>13, <1>14, <1>15, <1>16, <1>18, <1>19, <1>20 DEF ShellNext

LEMMA ShellInitially == ShellInit => ShellInv
<1> SUFFICES ASSUME ShellInit PROVE ShellInv
  OBVIOUS
<1>1. showDropdown = FALSE /\ askedQuery = {} /\ answered = {} /\ openedPath = NoTarget
  BY DEF ShellInit
<1> QED BY <1>1 DEF ShellInv, ListenerOK, OpenedWasFound

LEMMA ShellInvariant == ShellSpec => []ShellInv
BY ShellInitially, ShellStep, PTL DEF ShellSpec

(* A dropdown with results has one of them selected, and the listener has   *)
(* the same index and as many results, though not always the ones shown:    *)
(* the effect that resets the index and the one that registers the listener *)
(* keep up with the length of every answer (EverythingDropdown.tsx 166-194).*)
THEOREM SelectionCorrect == ShellSpec => []SelectionInRange
<1>1. ASSUME ShellInv PROVE SelectionInRange
  <2>1. SUFFICES ASSUME showDropdown, ShellShown # <<>>
                 PROVE  selected + 1 \in DOMAIN ShellShown /\ listener.index = selected /\ Len(listener.list) = Len(ShellShown)
    BY DEF SelectionInRange
  <2> QED BY <1>1, <2>1, ShownAreFound DEF ShellInv, ListenerOK, InRange
<1> QED BY <1>1, ShellInvariant, PTL

-----------------------------------------------------------------------------
(* The cockpit.                                                             *)

(* What is copied is a list, which a tick does not lengthen. *)
CopyOK(copy) ==
  copy # NoSession => /\ copy = [of |-> session, todos |-> copy.todos] /\ copy.todos \in Seq(TodoStatus)
                      /\ cockpitTab = "todos"
                      /\ Len(copy.todos) = Len(TodosOf(session, todosKnown).todos)

(* The copy is of the selected session and as long as its todos; a row      *)
(* highlighted may be gone.                                                 *)
CockpitInv ==
  /\ activity \in Seq(Session) /\ selectedIndex \in Int /\ selectedIndex >= -1
  /\ session \in Session \union {NoSession} /\ todosKnown \subseteq Session
  /\ CopyOK(localTodos)

(* The rows that a key moves through are sessions of the last answer. *)
LEMMA SortedAreSessions == ASSUME CockpitInv PROVE sortedSessions \in Seq(Session)
<1> DEFINE rows == {i \in DOMAIN activity : activity[i] \in filteredSessions}
<1>1. IsFiniteSet(1 .. Len(activity)) /\ rows \in SUBSET (1 .. Len(activity)) /\ Len(activity) \in Nat
  BY FS_Interval DEF CockpitInv
<1>2. IsFiniteSet(rows) /\ rows \in SUBSET Int
  BY <1>1, FS_Subset
<1>3. Kept(activity, rows) \in Seq({activity[i] : i \in rows})
  BY <1>2, KeptLists
<1>4. {activity[i] : i \in rows} \subseteq Session
  BY DEF CockpitInv
<1> HIDE DEF rows
<1>5. Kept(activity, rows) \in Seq(Session)
  BY <1>3, <1>4
<1> QED BY <1>5 DEF sortedSessions, rows

(* Whatever leads to another session, tab or answer, the copy of its todos  *)
(* is made anew when they differ.                                           *)
LEMMA CopyMade ==
  ASSUME CockpitInv, NEW s \in Session \union {NoSession}, NEW t, NEW known \in SUBSET Session,
         session' = s, cockpitTab' = t, todosKnown' = known, localTodos' = LocalTodos(s, t, known)
  PROVE  CopyOK(localTodos)'
<1>1. TodosOf(s, known).of = s /\ TodosOf(s, known).todos \in Seq(TodoStatus)
  BY TodosAssumption DEF TodosOf
<1>2. TodosOf(s, known) = [of |-> s, todos |-> TodosOf(s, known).todos]
  BY DEF TodosOf
<1>3. CASE s = NoSession \/ t # "todos"
  BY <1>3 DEF CopyOK, LocalTodos
<1>4. CASE ~(s = NoSession \/ t # "todos") /\ localTodos # NoSession /\ TodosOf(session, todosKnown) = TodosOf(s, known)
  <2>1. s = session
    BY <1>4 DEF TodosOf
  <2>2. localTodos' = localTodos
    BY <1>4 DEF LocalTodos
  <2>3. CopyOK(localTodos)
    BY DEF CockpitInv
  <2> QED BY <1>4, <2>1, <2>2, <2>3 DEF CopyOK
<1>5. CASE ~(s = NoSession \/ t # "todos") /\ ~(localTodos # NoSession /\ TodosOf(session, todosKnown) = TodosOf(s, known))
  <2>1. localTodos' = TodosOf(s, known)
    BY <1>5 DEF LocalTodos
  <2> QED BY <1>1, <1>2, <1>5, <2>1 DEF CopyOK
<1> QED BY <1>3, <1>4, <1>5

LEMMA CopyNavigates ==
  ASSUME CockpitInv, NEW s \in Session \union {NoSession}, NEW t, NavigateTo(s, t), UNCHANGED <<activity, todosKnown>>,
         selectedIndex' \in Int, selectedIndex' >= -1
  PROVE  CockpitInv'
<1>1. CopyOK(localTodos)'
  BY CopyMade DEF NavigateTo, CockpitInv
<1> QED BY <1>1 DEF NavigateTo, CockpitInv

LEMMA CopyKept ==
  ASSUME CockpitInv, UNCHANGED <<session, cockpitTab, todosKnown, localTodos>>, activity' \in Seq(Session), selectedIndex' \in Int, selectedIndex' >= -1
  PROVE  CockpitInv'
BY DEF CockpitInv, CopyOK, TodosOf

LEMMA CockpitStep == CockpitInv /\ [CockpitNext]_cockpitVars => CockpitInv'
<1> SUFFICES ASSUME CockpitInv, [CockpitNext]_cockpitVars PROVE CockpitInv'
  OBVIOUS
<1> DEFINE rows == sortedSessions
<1>1. rows \in Seq(Session) /\ Len(rows) \in Nat /\ selectedIndex \in Int /\ selectedIndex >= -1 /\ activity \in Seq(Session)
  BY SortedAreSessions DEF CockpitInv
<1>2. \A i \in 0 .. Len(rows) - 1 : rows[i + 1] \in Session
  BY <1>1
<1>3. ASSUME NEW i \in 0 .. Len(rows) - 1, handleRowClick(i) \/ handleArrow(i) PROVE CockpitInv'
  BY <1>2, <1>3, CopyNavigates DEF handleRowClick, handleArrow
<1>4. rows # <<>> => Len(rows) > 0
  BY <1>1
<1>5. CASE CockpitDown
  BY <1>1, <1>3, <1>4, <1>5 DEF CockpitDown, handleArrow
<1>6. CASE CockpitUp
  BY <1>1, <1>3, <1>4, <1>6 DEF CockpitUp, handleArrow
<1>7. CASE CockpitUpBeyond
  BY <1>1, <1>7, CopyKept DEF CockpitUpBeyond
<1>8. CASE CockpitEnter
  <2>1. CASE selectedIndex < Len(rows)
    <3>1. selectedIndex \in 0 .. Len(rows) - 1
      BY <1>1, <1>8, <2>1 DEF CockpitEnter
    <3> QED BY <1>1, <1>2, <1>8, <2>1, <3>1, CopyNavigates DEF CockpitEnter
  <2>2. CASE ~(selectedIndex < Len(rows))
    BY <1>1, <1>8, <2>2, CopyKept DEF CockpitEnter
  <2> QED BY <2>1, <2>2
<1>9. ASSUME NEW q, CockpitSearch(q) PROVE CockpitInv'
  BY <1>1, <1>9, CopyKept DEF CockpitSearch
<1>10. ASSUME NEW s \in Session, Worked(s) PROVE CockpitInv'
  <2> DEFINE others == {i \in DOMAIN activity : activity[i] # s}
  <2>1. IsFiniteSet(1 .. Len(activity)) /\ others \in SUBSET (1 .. Len(activity)) /\ Len(activity) \in Nat
    <3>1. Len(activity) \in Nat /\ DOMAIN activity = 1 .. Len(activity)
      BY <1>1
    <3> QED BY <3>1, FS_Interval
  <2>2. IsFiniteSet(others) /\ others \in SUBSET Int
    BY <2>1, FS_Subset
  <2>3. Kept(activity, others) \in Seq({activity[i] : i \in others})
    BY <2>2, KeptLists
  <2>4. {activity[i] : i \in others} \subseteq Session
    BY <1>1
  <2> HIDE DEF others
  <2>5. Kept(activity, others) \in Seq(Session)
    BY <2>3, <2>4
  <2>6. activity' = <<s>> \o Kept(activity, others)
    BY <1>10 DEF Worked, others
  <2>7. activity' \in Seq(Session)
    BY <2>5, <2>6
  <2> QED BY <1>1, <1>10, <2>7, CopyKept DEF Worked
<1>11. ASSUME NEW t, onTabChange(t) PROVE CockpitInv'
  BY <1>1, <1>11, CopyNavigates DEF onTabChange, CockpitInv
<1>12. ASSUME NEW d, TabKey(d) PROVE CockpitInv'
  BY <1>11, <1>12 DEF TabKey
<1>13. CASE TodosArrive
  <2>1. session \in Session /\ todosKnown' \in SUBSET Session
    BY <1>13 DEF TodosArrive, CockpitInv
  <2>2. CopyOK(localTodos)'
    BY <1>13, <2>1, CopyMade DEF TodosArrive
  <2> QED BY <1>13, <2>1, <2>2 DEF TodosArrive, CockpitInv
<1>14. ASSUME NEW i \in Int, handleToggle(i) PROVE CockpitInv'
  <2>1. /\ localTodos # NoSession /\ localTodos = [of |-> session, todos |-> localTodos.todos]
        /\ localTodos.todos \in Seq(TodoStatus) /\ cockpitTab = "todos"
        /\ Len(localTodos.todos) = Len(TodosOf(session, todosKnown).todos)
    BY <1>14 DEF handleToggle, CockpitInv, CopyOK
  <2>2. PICK status \in TodoStatus : localTodos' = [localTodos EXCEPT !.todos = [localTodos.todos EXCEPT ![i] = status]]
    BY <1>14 DEF handleToggle, TodoStatus
  <2> DEFINE todos == localTodos.todos
             ticked == [todos EXCEPT ![i] = status]
  <2>3. ticked \in Seq(TodoStatus) /\ Len(ticked) = Len(todos)
    <3>1. Len(todos) \in Nat /\ todos \in [1 .. Len(todos) -> TodoStatus]
      BY <2>1
    <3>2. ticked \in [1 .. Len(todos) -> TodoStatus]
      BY <3>1
    <3> QED BY <3>1, <3>2
  <2>4. localTodos' = [of |-> session, todos |-> ticked]
    <3>1. localTodos' = [localTodos EXCEPT !.todos = ticked]
      BY <2>2
    <3> HIDE DEF ticked
    <3> QED BY <2>1, <3>1
  <2>5. UNCHANGED <<activity, selectedIndex, session, cockpitTab, todosKnown>>
    BY <1>14 DEF handleToggle
  <2>6. CopyOK(localTodos)'
    BY <2>1, <2>3, <2>4, <2>5 DEF CopyOK, TodosOf
  <2> QED BY <2>5, <2>6 DEF CockpitInv
<1>15. CASE UNCHANGED cockpitVars
  BY <1>1, <1>15, CopyKept DEF cockpitVars
<1> QED BY <1>3, <1>5, <1>6, <1>7, <1>8, <1>9, <1>10, <1>11, <1>12, <1>13, <1>14, <1>15 DEF CockpitNext

LEMMA CockpitInitially == CockpitInit => CockpitInv
<1> SUFFICES ASSUME CockpitInit PROVE CockpitInv
  OBVIOUS
<1>1. Cardinality(Session) \in Nat
  BY FS_CardinalityType, TodosAssumption
<1>2. activity \in [1 .. Cardinality(Session) -> Session]
  BY DEF CockpitInit, SetToSeqs
<1>3. activity \in Seq(Session)
  BY <1>1, <1>2
<1>4. TodosOf(session, {}) = [of |-> session, todos |-> <<>>]
  BY DEF TodosOf
<1>5. /\ session \in Session \union {NoSession} /\ todosKnown = {} /\ selectedIndex = -1
      /\ localTodos = IF session = NoSession \/ cockpitTab # "todos" THEN NoSession ELSE TodosOf(session, {})
  BY DEF CockpitInit
<1>6. TodosOf(session, todosKnown) = [of |-> session, todos |-> <<>>] /\ <<>> \in Seq(TodoStatus)
  BY <1>4, <1>5
<1>7. localTodos # NoSession => localTodos = [of |-> session, todos |-> <<>>] /\ cockpitTab = "todos"
  BY <1>4, <1>5
<1>8. CopyOK(localTodos)
  <2> SUFFICES ASSUME localTodos # NoSession PROVE CopyOK(localTodos)
    BY DEF CopyOK
  <2>1. localTodos = [of |-> session, todos |-> <<>>] /\ cockpitTab = "todos"
    BY <1>7
  <2>2. localTodos.todos = <<>> /\ TodosOf(session, todosKnown).todos = <<>>
    BY <1>6, <2>1
  <2> QED BY <1>6, <2>1, <2>2 DEF CopyOK
<1> QED BY <1>3, <1>5, <1>8 DEF CockpitInv

(* The ticks a reader puts are shown on the session they were put on,       *)
(* however it came to be selected (SessionDetailPanel.tsx 354-378).         *)
THEOREM CopyCorrect == CockpitSpec => []TodosAreOfSession
<1>1. CockpitInv => TodosAreOfSession
  BY DEF CockpitInv, CopyOK, TodosAreOfSession
<1> QED BY <1>1, CockpitInitially, CockpitStep, PTL DEF CockpitSpec

-----------------------------------------------------------------------------
(* The conversations page.                                                  *)

(* A word of a match is marked where it stands, unless it stands only in    *)
(* the label of a tool.                                                     *)
LEMMA MatchIsMarked ==
  ASSUME NEW m, NEW q, Matching(m, q), MarkedBlocks(m, q) = {}
  PROVE  q \subseteq UNION {m.content[j].label : j \in {k \in DOMAIN m.content : m.content[k].type = "tool_use"}}
<1> SUFFICES ASSUME NEW word \in q
             PROVE  \E j \in DOMAIN m.content : m.content[j].type = "tool_use" /\ word \in m.content[j].label
  OBVIOUS
<1>1. PICK i \in DOMAIN m.content : word \in Searched(m.content[i])
  <2>1. CASE q \subseteq ExtractedText(m.content)
    BY <2>1 DEF ExtractedText
  <2>2. CASE \E i \in DOMAIN m.content : m.content[i].type = "tool_use" /\ q \subseteq m.content[i].words
    BY <2>2 DEF Searched
  <2> QED BY <2>1, <2>2 DEF Matching
<1>2. word \notin Displayed(m.content[i])
  BY DEF MarkedBlocks
<1> QED BY <1>1, <1>2 DEF Searched, Displayed

(* A message kept by the query has a block in which something is            *)
(* highlighted, in every state, unless the query stands only in the labels  *)
(* of tools (search.ts 24, 134-148, ConversationThread.tsx 179-274).        *)
THEOREM FilteredCorrect == ConversationsSpec => []FilteredIsMarked
<1>1. FilteredIsMarked
  BY MatchIsMarked DEF FilteredIsMarked, chatMessages
<1> QED BY <1>1, PTL

-----------------------------------------------------------------------------
(* The extension workshop.                                                  *)

(* The server lists each extension of the index once, in the order of the   *)
(* ids.                                                                     *)
LEMMA ListedOnce ==
  ASSUME NEW S \in SUBSET Extension, OnePerId(S)
  PROVE  WorkshopListed(S) \in Seq(S) /\ ToSet(WorkshopListed(S)) = S
<1> DEFINE R == {p \in S \X S : p[1].id < p[2].id}
<1>1. IsFiniteSet(S) /\ \A e \in S : e.id \in Nat
  BY WorkshopAssumption, FS_Subset
<1>2. OrdersTotally(R, S)
  BY <1>1 DEF OrdersTotally, OnePerId
<1> HIDE DEF R
<1>3. Ranked(S, R) \in Seq(S)
  BY <1>1, <1>2, RankedLists
<1>4. ToSet(Ranked(S, R)) = S
  BY <1>1, <1>2, RankedIsOnto DEF ToSet
<1> QED BY <1>3, <1>4 DEF WorkshopListed, R

Run == [at : Stages, left : SUBSET Places]

(* In the table, or yet to be saved by a run that is under way. *)
OnItsWay(a) == a \in index \/ a.id \in scan.left \/ a.id \in otherScan.left

(* What was on disk when a re-indexing was asked for is on its way into the *)
(* table once the run has emptied it, or in the answer that was read then.  *)
WorkshopInv ==
  /\ disk \subseteq Extension /\ index \subseteq Extension /\ OnePerId(disk) /\ OnePerId(index)
  /\ extensions \in Seq(Extension)
  /\ scan \in Run /\ otherScan \in Run /\ (reindex # "posting" => scan = NoScan)
  /\ reply \in [at : Replies, list : Seq(Extension)] /\ OnePerId(ToSet(reply.list))
  /\ askedExtensions \subseteq disk
  /\ (reindex = "posting" /\ scan.at = "save") \/ (reindex = "refetching" /\ reply.at = "asked")
       => \A a \in askedExtensions : OnItsWay(a)
  /\ reindex = "refetching" /\ reply.at = "answered" => askedExtensions \subseteq ToSet(reply.list)

LEMMA RelatedAreOthers == WorkshopInv => RelatedIsAnother
<1> SUFFICES ASSUME WorkshopInv, NEW k \in DOMAIN relatedExtensions PROVE relatedExtensions[k].id # selectedExtension.id
  BY DEF RelatedIsAnother
<1> DEFINE rows == {i \in DOMAIN extensions :
                      LET e == extensions[i] IN
                      e.id # selectedExtension.id /\ (e.source = selectedExtension.source \/ e.type = selectedExtension.type)}
           related == Kept(extensions, rows)
<1>1. selectedExtension # NoExtension /\ relatedExtensions = FirstOf(related, MaxRelated)
  BY DEF relatedExtensions
<1>2. Len(extensions) \in Nat /\ DOMAIN extensions = 1 .. Len(extensions)
  BY DEF WorkshopInv
<1>3. IsFiniteSet(1 .. Len(extensions)) /\ rows \subseteq 1 .. Len(extensions)
  BY <1>2, FS_Interval
<1>4. IsFiniteSet(rows) /\ rows \in SUBSET Int
  BY <1>3, FS_Subset
<1>5. /\ Cardinality(rows) \in Nat /\ DOMAIN related = 1 .. Cardinality(rows)
      /\ related \in Seq({extensions[i] : i \in rows})
      /\ \A j \in 1 .. Cardinality(rows) : \E i \in rows : related[j] = extensions[i]
  BY <1>4, KeptLists
<1> HIDE DEF related
<1>6. k \in DOMAIN related /\ relatedExtensions[k] = related[k]
  BY <1>1, <1>5, FirstAreOf, WorkshopAssumption
<1> QED BY <1>5, <1>6

LEMMA WorkshopKept ==
  ASSUME WorkshopInv, UNCHANGED <<disk, index, scan, otherScan, extensions, reply, reindex, askedExtensions>>
  PROVE  WorkshopInv'
BY DEF WorkshopInv, OnePerId, OnItsWay

LEMMA ListedFromIndex == ASSUME WorkshopInv PROVE WorkshopListed(index) \in Seq(Extension) /\ ToSet(WorkshopListed(index)) = index
<1>1. index \in SUBSET Extension /\ OnePerId(index)
  BY DEF WorkshopInv
<1>2. WorkshopListed(index) \in Seq(index) /\ ToSet(WorkshopListed(index)) = index
  BY <1>1, ListedOnce
<1> QED BY <1>1, <1>2

LEMMA RunsStart == NoScan \in Run /\ FromTheStart \in Run /\ FromTheStart.at # "save"
BY DEF Run, Stages, NoScan, FromTheStart

LEMMA RepliesStart ==
  /\ ListAsked \in [at : Replies, list : Seq(Extension)] /\ NoReply \in [at : Replies, list : Seq(Extension)]
  /\ OnePerId(ToSet(ListAsked.list)) /\ OnePerId(ToSet(NoReply.list))
  /\ NoReply.at = "none" /\ ListAsked.at = "asked"
BY DEF Replies, ListAsked, NoReply, OnePerId, ToSet

(* Two runs of the indexer: one step of either.                             *)
LEMMA ClearsKeep ==
  ASSUME WorkshopInv, Clears
  PROVE  /\ scan' \in Run /\ otherScan' \in Run /\ index' \subseteq index
         /\ scan = NoScan => scan' = NoScan
         /\ scan'.at = "save" \/ scan = NoScan => \A a \in Extension : OnItsWay(a) => OnItsWay(a)'
         /\ scan'.at = "save" /\ scan.at # "save" => \A a \in Extension : OnItsWay(a)'
<1> DEFINE all == [at |-> "save", left |-> Places]
<1>1. all \in Run /\ all.at = "save" /\ all.left = Places /\ \A a \in Extension : a.id \in all.left
  BY DEF Run, Stages, Places
<1>2. scan \in Run /\ otherScan \in Run
  BY DEF WorkshopInv
<1> HIDE DEF all
<1>3. CASE Cleared(scan, scan') /\ UNCHANGED otherScan
  <2>1. scan' = all /\ index' \in {{}, index} /\ scan.at = "clear"
    BY <1>3 DEF Cleared, all
  <2> QED BY <1>1, <1>2, <1>3, <2>1 DEF OnItsWay, NoScan
<1>4. CASE Cleared(otherScan, otherScan') /\ UNCHANGED scan
  <2>1. otherScan' = all /\ index' \in {{}, index}
    BY <1>4 DEF Cleared, all
  <2> QED BY <1>1, <1>2, <1>4, <2>1 DEF OnItsWay
<1> QED BY <1>3, <1>4 DEF Clears

LEMMA SavesKeep ==
  ASSUME WorkshopInv, NEW p, Saves(p)
  PROVE  /\ scan' \in Run /\ otherScan' \in Run /\ index' \subseteq Extension /\ OnePerId(index')
         /\ (scan # NoScan /\ scan'.at = scan.at) \/ scan' = scan
         /\ askedExtensions' \subseteq askedExtensions
         /\ \A a \in askedExtensions' : OnItsWay(a) => OnItsWay(a)'
<1>1. scan \in Run /\ otherScan \in Run /\ disk \subseteq Extension /\ index \subseteq Extension /\ OnePerId(disk) /\ OnePerId(index) /\ askedExtensions \subseteq disk
  BY DEF WorkshopInv
<1> DEFINE found == OnDisk(p)
<1>2. found \subseteq disk /\ (\A e \in found : e.id = p) /\ \A e \in disk : e.id = p => e \in found
  BY DEF OnDisk
<1> HIDE DEF found
<1>3. ASSUME NEW run \in Run, NEW after, Saved(run, p, after)
      PROVE  /\ after \in Run /\ after.at = run.at /\ after.left = run.left \ {p} /\ p \in run.left
             /\ index' \subseteq Extension /\ OnePerId(index') /\ askedExtensions' \subseteq askedExtensions
             /\ \A a \in askedExtensions' : a.id = p \/ a \in index => a \in index'
  <2>1. after = [run EXCEPT !.left = @ \ {p}] /\ p \in run.left
    BY <1>3 DEF Saved
  <2>2. after \in Run /\ after.at = run.at /\ after.left = run.left \ {p}
    BY <2>1 DEF Run
  <2>3. CASE index' = {d \in index : found = {} \/ d.id # p} \union found /\ UNCHANGED askedExtensions
    <3>1. index' \subseteq Extension /\ OnePerId(index')
      BY <1>1, <1>2, <2>3 DEF OnePerId
    <3>2. ASSUME NEW a \in askedExtensions, a.id = p \/ a \in index PROVE a \in index'
      BY <1>1, <1>2, <2>3, <3>2
    <3> QED BY <2>1, <2>2, <2>3, <3>1, <3>2
  <2>4. CASE index' = index /\ askedExtensions' = askedExtensions \ found
    <3>1. ASSUME NEW a \in askedExtensions' PROVE a.id # p
      BY <1>1, <1>2, <2>4, <3>1
    <3> QED BY <1>1, <2>1, <2>2, <2>4, <3>1
  <2> QED BY <1>3, <2>3, <2>4 DEF Saved, found
<1>4. CASE Saved(scan, p, scan') /\ UNCHANGED otherScan
  <2>1. scan # NoScan
    BY <1>1, <1>3, <1>4 DEF NoScan
  <2> QED BY <1>1, <1>3, <1>4, <2>1 DEF OnItsWay
<1>5. CASE Saved(otherScan, p, otherScan') /\ UNCHANGED scan
  BY <1>1, <1>3, <1>5 DEF OnItsWay
<1> QED BY <1>4, <1>5 DEF Saves

LEMMA WorkshopStep == WorkshopInv /\ [WorkshopNext]_workshopVars => WorkshopInv'
<1> SUFFICES ASSUME WorkshopInv, [WorkshopNext]_workshopVars PROVE WorkshopInv'
  OBVIOUS
<1> USE DEF workshopServer, workshopFetch
<1>1. CASE EditDisk
  <2>1. PICK e \in Extension : e \notin disk /\ disk' = {d \in disk : d.id # e.id} \union {e}
    BY <1>1 DEF EditDisk
  <2>2. OnePerId(disk') /\ disk' \subseteq Extension
    BY <2>1 DEF WorkshopInv, OnePerId
  <2> QED BY <1>1, <2>2 DEF EditDisk, WorkshopInv, OnePerId, OnItsWay
<1>2. CASE RemoveFromDisk
  <2>1. disk' \subseteq disk
    BY <1>2 DEF RemoveFromDisk
  <2> QED BY <1>2, <2>1 DEF RemoveFromDisk, WorkshopInv, OnePerId, OnItsWay
<1>3. CASE Clears
  <2>1. UNCHANGED <<disk, extensions, reply, reindex, askedExtensions>>
    BY <1>3 DEF Clears
  <2>2. OnePerId(index') /\ index' \subseteq Extension
    BY <1>3, ClearsKeep DEF WorkshopInv, OnePerId
  <2>3. ASSUME (reindex' = "posting" /\ scan'.at = "save") \/ (reindex' = "refetching" /\ reply'.at = "asked"), NEW a \in askedExtensions' PROVE OnItsWay(a)'
    <3>1. a \in askedExtensions /\ a \in Extension
      BY <2>1, <2>3 DEF WorkshopInv
    <3>2. CASE reindex = "posting" /\ scan'.at = "save"
      BY <1>3, <2>1, <3>1, <3>2, ClearsKeep DEF WorkshopInv
    <3>3. CASE reindex = "refetching" /\ reply.at = "asked"
      BY <1>3, <2>1, <3>1, <3>3, ClearsKeep DEF WorkshopInv
    <3> QED BY <2>1, <2>3, <3>2, <3>3
  <2> QED BY <1>3, <2>1, <2>2, <2>3, ClearsKeep DEF WorkshopInv, OnePerId
<1>4. ASSUME NEW p, Saves(p) PROVE WorkshopInv'
  <2>1. UNCHANGED <<disk, extensions, reply, reindex>>
    BY <1>4 DEF Saves
  <2>2. scan = NoScan => scan' = NoScan
    BY <1>4, SavesKeep
  <2>3. ASSUME (reindex' = "posting" /\ scan'.at = "save") \/ (reindex' = "refetching" /\ reply'.at = "asked"), NEW a \in askedExtensions' PROVE OnItsWay(a)'
    <3>1. a \in askedExtensions
      BY <1>4, SavesKeep
    <3>2. OnItsWay(a)
      BY <1>4, <2>1, <2>3, <3>1, SavesKeep DEF WorkshopInv
    <3> QED BY <1>4, <3>2, SavesKeep
  <2> QED BY <1>4, <2>1, <2>2, <2>3, SavesKeep DEF WorkshopInv, OnePerId
<1>5. CASE OtherEnds
  <2>1. otherScan.left = {} /\ otherScan' = NoScan /\ UNCHANGED <<disk, index, scan, extensions, reply, reindex, askedExtensions>>
    BY <1>5 DEF OtherEnds
  <2>2. otherScan'.left = {}
    BY <2>1 DEF NoScan
  <2> QED BY <2>1, <2>2, RunsStart DEF WorkshopInv, OnePerId, OnItsWay
<1>6. CASE ServerLists
  <2>1. /\ reply.at = "asked" /\ reply' = [at |-> "answered", list |-> WorkshopListed(index)]
        /\ askedExtensions' \subseteq askedExtensions
        /\ reindex = "refetching" => \A a \in askedExtensions' : a.id \notin otherScan.left
        /\ UNCHANGED <<disk, index, scan, otherScan, extensions, reindex>>
    BY <1>6 DEF ServerLists
  <2>2. reply' \in [at : Replies, list : Seq(Extension)] /\ reply'.at = "answered" /\ ToSet(reply'.list) = index
    BY <2>1, ListedFromIndex DEF Replies
  <2>3. reindex = "refetching" => askedExtensions' \subseteq index
    <3>1. reindex = "refetching" => scan.left = {} /\ \A a \in askedExtensions' : OnItsWay(a)
      BY <2>1 DEF WorkshopInv, NoScan
    <3> QED BY <2>1, <3>1 DEF OnItsWay
  <2> QED BY <2>1, <2>2, <2>3 DEF WorkshopInv, OnePerId, OnItsWay
<1>7. CASE ExtensionsArrive \/ ExtensionsFail
  <2>1. reply' = NoReply /\ (reindex' = IF reindex = "posting" THEN "posting" ELSE "idle") /\ UNCHANGED <<disk, index, scan, otherScan, askedExtensions>>
    BY <1>7 DEF ExtensionsArrive, ExtensionsFail, Resolved
  <2>2. extensions' \in Seq(Extension)
    BY <1>7 DEF ExtensionsArrive, ExtensionsFail, WorkshopInv
  <2> QED BY <2>1, <2>2, RepliesStart DEF WorkshopInv, OnePerId, OnItsWay
<1>8. CASE ReindexAnswered
  <2>1. /\ reindex = "posting" /\ scan.at = "save" /\ scan.left = {} /\ scan' = NoScan
        /\ (reindex' = "joining" /\ UNCHANGED reply) \/ (reindex' = "refetching" /\ reply' = ListAsked)
        /\ UNCHANGED <<disk, index, otherScan, extensions, askedExtensions>>
    BY <1>8 DEF ReindexAnswered
  <2>2. scan' \in Run /\ scan'.left = {}
    BY <2>1, RunsStart DEF NoScan
  <2>3. \A a \in askedExtensions' : OnItsWay(a)'
    BY <2>1, <2>2 DEF WorkshopInv, OnItsWay
  <2> QED BY <2>1, <2>2, <2>3, RepliesStart DEF WorkshopInv, OnePerId
<1>9. ASSUME ScanLeft, UNCHANGED <<disk, index>>, reindex' = "idle", askedExtensions' \subseteq askedExtensions,
             extensions' \in Seq(Extension), reply' \in [at : Replies, list : Seq(Extension)], OnePerId(ToSet(reply'.list))
      PROVE  WorkshopInv'
  <2>1. scan' = NoScan /\ otherScan' \in Run
    BY <1>9 DEF ScanLeft, WorkshopInv
  <2> QED BY <1>9, <2>1, RunsStart DEF WorkshopInv, OnePerId
<1>10. CASE ReindexFails
  <2>1. ScanLeft /\ reindex' = "idle" /\ UNCHANGED <<disk, index, extensions, reply, askedExtensions>>
    BY <1>10 DEF ReindexFails
  <2>2. reply' \in [at : Replies, list : Seq(Extension)] /\ OnePerId(ToSet(reply'.list)) /\ extensions' \in Seq(Extension)
    BY <2>1 DEF WorkshopInv, OnePerId
  <2> QED BY <1>9, <2>1, <2>2
<1>11. CASE ReloadWorkshop
  <2>1. ScanLeft /\ extensions' = <<>> /\ reindex' = "idle" /\ askedExtensions' = {} /\ reply' = ListAsked /\ UNCHANGED <<disk, index>>
    BY <1>11 DEF ReloadWorkshop, WorkshopMounts
  <2> QED BY <1>9, <2>1, RepliesStart
<1>12. CASE handleReindex
  <2>1. reindex' = "posting" /\ askedExtensions' = disk /\ scan' = FromTheStart /\ UNCHANGED <<disk, index, otherScan, extensions, reply>>
    BY <1>12 DEF handleReindex
  <2> QED BY <2>1, RunsStart DEF WorkshopInv, OnePerId
<1>13. ASSUME NEW q, TypeSearch(q) \/ SearchSettles PROVE WorkshopInv'
  BY <1>13, WorkshopKept DEF TypeSearch, SearchSettles
<1>14. ASSUME NEW t, NEW s, NEW f, SetFilters(t, s, f) PROVE WorkshopInv'
  BY <1>14, WorkshopKept DEF SetFilters
<1>15. CASE handleClearFilters
  BY <1>14, <1>15 DEF handleClearFilters
<1>16. ASSUME NEW mode, handleViewModeChange(mode) PROVE WorkshopInv'
  BY <1>16, WorkshopKept DEF handleViewModeChange
<1>17. ASSUME NEW e, ShowInDrawer(e) PROVE WorkshopInv'
  BY <1>17, WorkshopKept DEF ShowInDrawer
<1>18. ASSUME NEW e, FollowRelated \/ CloseDetail \/ SelectExtension(e) PROVE WorkshopInv'
  BY <1>17, <1>18 DEF FollowRelated, CloseDetail, SelectExtension
<1>19. CASE UNCHANGED workshopVars
  BY <1>19, WorkshopKept DEF workshopVars
<1>20. CASE ServerGoesOn
  BY <1>3, <1>4, <1>5, <1>6, <1>7, <1>8, <1>10, <1>20 DEF ServerGoesOn
<1> QED BY <1>1, <1>2, <1>11, <1>12, <1>13, <1>14, <1>15, <1>16, <1>18, <1>19, <1>20 DEF WorkshopNext

LEMMA WorkshopInitially == WorkshopInit => WorkshopInv
<1> SUFFICES ASSUME WorkshopInit PROVE WorkshopInv
  OBVIOUS
<1>1. /\ disk \in SUBSET Extension /\ OnePerId(disk) /\ index = disk /\ extensions = <<>> /\ reindex = "idle" /\ askedExtensions = {}
      /\ scan = NoScan /\ otherScan \in {NoScan, FromTheStart} /\ reply = ListAsked
  BY DEF WorkshopInit
<1> QED BY <1>1, RunsStart, RepliesStart DEF WorkshopInv

LEMMA WorkshopInvariant == WorkshopSpec => []WorkshopInv
BY WorkshopInitially, WorkshopStep, PTL DEF WorkshopSpec

(* The extensions suggested beside one are others, whatever has become of   *)
(* the list or of the selected one (ExtensionWorkshop.tsx 109-122).         *)
THEOREM RelatedCorrect == WorkshopSpec => []RelatedIsAnother
<1> QED BY WorkshopInvariant, RelatedAreOthers, PTL

LEMMA ReindexStep ==
  WorkshopInv /\ [WorkshopNext]_workshopVars
    => [reindex = "refetching" /\ reindex' = "idle" /\ reply.at = "answered" /\ loaded'
          => askedExtensions \subseteq ToSet(extensions')]_workshopVars
<1> SUFFICES ASSUME WorkshopInv, WorkshopNext, reindex = "refetching", reindex' = "idle", reply.at = "answered", loaded'
             PROVE  askedExtensions \subseteq ToSet(extensions')
  OBVIOUS
<1>1. CASE ExtensionsArrive
  BY <1>1 DEF ExtensionsArrive, WorkshopInv
<1>2. CASE ReloadWorkshop
  BY <1>2 DEF ReloadWorkshop, WorkshopMounts
<1>3. UNCHANGED reindex => FALSE
  OBVIOUS
<1>4. ASSUME NEW e, EditDisk \/ RemoveFromDisk \/ Clears \/ Saves(e) \/ OtherEnds \/ ServerLists \/ TypeSearch(e) \/ SearchSettles \/ handleViewModeChange(e) PROVE UNCHANGED reindex
  BY <1>4 DEF EditDisk, RemoveFromDisk, Clears, Saves, OtherEnds, ServerLists, TypeSearch, SearchSettles, handleViewModeChange
<1>5. ASSUME NEW t, NEW s, NEW f, SetFilters(t, s, f) \/ handleClearFilters PROVE UNCHANGED reindex
  BY <1>5 DEF SetFilters, handleClearFilters
<1>6. ASSUME NEW e, FollowRelated \/ CloseDetail \/ SelectExtension(e) PROVE UNCHANGED reindex
  BY <1>6 DEF FollowRelated, CloseDetail, SelectExtension, ShowInDrawer
<1>7. ASSUME handleReindex \/ ReindexAnswered \/ ReindexFails \/ ExtensionsFail PROVE FALSE
  BY <1>7 DEF handleReindex, ReindexAnswered, ReindexFails, ExtensionsFail
<1>8. CASE ServerGoesOn
  BY <1>1, <1>3, <1>4, <1>7, <1>8 DEF ServerGoesOn
<1> QED BY <1>2, <1>3, <1>4, <1>5, <1>6, <1>7, <1>8 DEF WorkshopNext

(* A re-indexing whose refetch is answered lists all that was on disk when  *)
(* it was asked for, has stayed as it was and could be saved, except what   *)
(* another run had yet to save when the list was read (ExtensionWorkshop.tsx*)
(* 124-135, extension_indexer.go 56-90).                                    *)
THEOREM ReindexCorrect == WorkshopSpec => ReindexShowsDisk
<1> QED BY WorkshopInvariant, ReindexStep, PTL DEF WorkshopSpec, ReindexShowsDisk

-----------------------------------------------------------------------------
(* The feed of mission control.                                             *)

(* The latest first, and of one time the smaller id: a total order. *)
LEMMA LaterIsTotal == ASSUME NEW S, StatesInTime(S) PROVE OrdersTotally(LaterFirst(S), S)
BY DEF OrdersTotally, LaterFirst, StatesInTime

LEMMA StatesOfPart == ASSUME NEW W, StatesInTime(W), NEW S \in SUBSET W PROVE StatesInTime(S)
BY FS_Subset DEF StatesInTime

(* The first n of a list, latest first, are of the list, and any element   *)
(* with at most n as late is among them.                                   *)
LEMMA FirstHoldLatest ==
  ASSUME NEW S, StatesInTime(S), NEW n \in Nat
  PROVE  /\ Range(FirstOf(NewestFirst(S), n)) \subseteq S
         /\ IsFiniteSet(Range(FirstOf(NewestFirst(S), n)))
         /\ Cardinality(Range(FirstOf(NewestFirst(S), n))) <= n
         /\ \A s \in S : AmongLatest(s, S, n) => s \in Range(FirstOf(NewestFirst(S), n))
         /\ n > 0 => \A s \in S : \E t \in Range(FirstOf(NewestFirst(S), n)) : t.last >= s.last
<1> DEFINE ordered == NewestFirst(S)
           first == FirstOf(ordered, n)
<1>1. IsFiniteSet(S) /\ OrdersTotally(LaterFirst(S), S)
  BY LaterIsTotal DEF StatesInTime
<1>2. /\ Cardinality(S) \in Nat /\ ordered \in [1 .. Cardinality(S) -> S]
      /\ ordered \in Seq(S) /\ Len(ordered) = Cardinality(S)
  BY <1>1, RankedLists DEF NewestFirst
<1> HIDE DEF ordered
<1>3. /\ first \in Seq(S)
      /\ Len(first) = IF Len(ordered) < n THEN Len(ordered) ELSE n
      /\ \A k \in DOMAIN first : k \in DOMAIN ordered /\ first[k] = ordered[k]
      /\ \A k \in DOMAIN ordered : k <= n => k \in DOMAIN first
  BY <1>2, FirstAreOf
<1> HIDE DEF first
<1>4. Range(first) \subseteq S
  BY <1>3 DEF Range
<1>5. IsFiniteSet(Range(first)) /\ Cardinality(Range(first)) <= n
  <2>1. DOMAIN first = 1 .. Len(first) /\ Len(first) \in Nat /\ Len(first) <= n
    BY <1>2, <1>3
  <2>2. IsFiniteSet(1 .. Len(first)) /\ Cardinality(1 .. Len(first)) = Len(first)
    <3>1. \A m \in Nat : IsFiniteSet(1 .. m) /\ Cardinality(1 .. m) = m
      BY FS_Interval
    <3> QED BY <2>1, <3>1
  <2>3. /\ IsFiniteSet({first[k] : k \in DOMAIN first})
        /\ Cardinality({first[k] : k \in DOMAIN first}) <= Len(first)
    <3>1. IsFiniteSet(DOMAIN first) /\ Cardinality(DOMAIN first) = Len(first)
      BY <2>1, <2>2
    <3>2. first \in Surjection(DOMAIN first, {first[k] : k \in DOMAIN first})
      <4>1. first \in [DOMAIN first -> {first[k] : k \in DOMAIN first}]
        BY <1>3
      <4> QED BY <4>1 DEF Surjection
    <3> QED BY <3>1, <3>2, FS_Surjection
  <2>4. Range(first) = {first[k] : k \in DOMAIN first}
    BY DEF Range
  <2>5. Cardinality(Range(first)) \in Nat
    BY <2>3, <2>4, FS_CardinalityType
  <2> QED BY <2>1, <2>3, <2>4, <2>5
<1>6. ASSUME NEW s \in S, AmongLatest(s, S, n)
      PROVE  s \in Range(first)
  <2> DEFINE ahead == AheadOf(s, S, LaterFirst(S))
             late == {t \in S : t.last >= s.last}
             k == Cardinality(ahead) + 1
  <2>1. ahead \subseteq late \ {s} /\ s \in late /\ late \subseteq S
    BY DEF AheadOf, LaterFirst, StatesInTime
  <2>2. IsFiniteSet(late) /\ Cardinality(late) \in Nat /\ Cardinality(late) <= n
    BY <1>1, <1>6, <2>1, FS_Subset, FS_CardinalityType DEF AmongLatest
  <2>3. IsFiniteSet(late \ {s}) /\ Cardinality(late \ {s}) = Cardinality(late) - 1
    BY <2>1, <2>2, FS_RemoveElement
  <2>4. Cardinality(ahead) <= Cardinality(late) - 1
    BY <2>1, <2>3, FS_Subset
  <2>5. k \in 1 .. Cardinality(S) /\ ordered[k] = s
    BY <1>1, RankedHoldsAll DEF NewestFirst, ordered
  <2>6. k <= n
    <3>1. Cardinality(ahead) \in Int
      BY <1>1, AheadIsProper
    <3> QED BY <2>2, <2>4, <3>1
  <2>7. k \in DOMAIN first /\ first[k] = s
    BY <1>2, <1>3, <2>5, <2>6
  <2> QED BY <2>7 DEF Range
<1>7. ASSUME n > 0, NEW s \in S
      PROVE  \E t \in Range(first) : t.last >= s.last
  <2>1. PICK k \in 1 .. Cardinality(S) : ordered[k] = s
    BY <1>1, RankedHoldsAll DEF NewestFirst, ordered
  <2>2. 1 \in DOMAIN ordered /\ 1 \in DOMAIN first /\ first[1] = ordered[1]
    BY <1>2, <1>3, <1>7
  <2>3. ordered[1] \in Range(first)
    BY <2>2 DEF Range
  <2>4. CASE k = 1
    BY <2>1, <2>3, <2>4 DEF StatesInTime
  <2>5. CASE k # 1
    <3>1. <<ordered[1], ordered[k]>> \in LaterFirst(S)
      <4>1. 1 \in 1 .. Cardinality(S) /\ 1 < k
        BY <1>2, <2>5
      <4> QED BY <1>1, <4>1, RankedIsOrdered DEF NewestFirst, ordered
    <3>2. ordered[1].last >= s.last
      BY <2>1, <3>1 DEF LaterFirst, StatesInTime
    <3> QED BY <2>3, <3>2
  <2> QED BY <2>4, <2>5
<1>8. Range(first) = Range(FirstOf(NewestFirst(S), n))
  BY DEF first, ordered
<1> QED BY <1>4, <1>5, <1>6, <1>7, <1>8

(* The order of the feed is total over events of the three kinds. *)
LEMMA LatestIsTotal ==
  ASSUME NEW S \in SUBSET [type : {"conversation", "todo", "plan"}, id : Nat, last : Nat]
  PROVE  OrdersTotally(LatestFirst(S), S)
<1> DEFINE E == [type : {"conversation", "todo", "plan"}, id : Nat, last : Nat]
<1>1. \A e \in E : PushPlace[e.type] \in Int /\ e.id \in Nat /\ e.last \in Nat
  BY DEF PushPlace
<1>2. \A d, e \in E : d # e => d.last # e.last \/ d.id # e.id \/ PushPlace[d.type] # PushPlace[e.type]
  BY DEF PushPlace
<1>3. \A d, e \in E : PushPlace[d.type] = PushPlace[e.type] <=> d.type = e.type
  BY DEF PushPlace
<1> HIDE DEF E
<1>4. \A d \in S : <<d, d>> \notin LatestFirst(S)
  BY <1>1 DEF LatestFirst, PushedBefore, E
<1>5. ASSUME NEW d \in S, NEW e \in S, d # e
      PROVE  <<d, e>> \in LatestFirst(S) \/ <<e, d>> \in LatestFirst(S)
  BY <1>1, <1>2, <1>3, <1>5 DEF LatestFirst, PushedBefore, E
<1>6. ASSUME NEW c \in S, NEW d \in S, NEW e \in S, <<c, d>> \in LatestFirst(S), <<d, e>> \in LatestFirst(S)
      PROVE  <<c, e>> \in LatestFirst(S)
  BY <1>1, <1>3, <1>6 DEF LatestFirst, PushedBefore, E
<1> QED BY <1>4, <1>5, <1>6 DEF OrdersTotally

(* The page knows states of the world: the inductive invariant. *)
Known == conversations \in SUBSET World /\ todoFiles \in SUBSET TodoWorld /\ planFiles \in SUBSET PlanWorld

(* The part a list has in the feed: at most as many events as it is cut to, *)
(* among them those of its latest, and one as late as any.                  *)
LEMMA PartOfFeed ==
  ASSUME NEW kind \in {"conversation", "todo", "plan"}, NEW S, StatesInTime(S), NEW n \in Nat
  PROVE  /\ FeedOf(kind, S, n) \in SUBSET [type : {"conversation", "todo", "plan"}, id : Nat, last : Nat]
         /\ IsFiniteSet(FeedOf(kind, S, n)) /\ Cardinality(FeedOf(kind, S, n)) \in 0 .. n
         /\ \A s \in S : AmongLatest(s, S, n) => EventOf(kind, s) \in FeedOf(kind, S, n)
         /\ n > 0 => \A s \in S : \E e \in FeedOf(kind, S, n) : e.last >= s.last
<1> DEFINE R == Range(FirstOf(NewestFirst(S), n))
<1>1. /\ R \subseteq S /\ IsFiniteSet(R) /\ Cardinality(R) <= n
      /\ \A s \in S : AmongLatest(s, S, n) => s \in R
      /\ n > 0 => \A s \in S : \E t \in R : t.last >= s.last
  BY FirstHoldLatest
<1>2. FeedOf(kind, S, n) = {EventOf(kind, s) : s \in R}
  BY DEF FeedOf
<1> HIDE DEF R
<1>3. IsFiniteSet(FeedOf(kind, S, n)) /\ Cardinality(FeedOf(kind, S, n)) \in 0 .. n
  <2> DEFINE event == [s \in R |-> EventOf(kind, s)]
  <2>1. event \in Surjection(R, FeedOf(kind, S, n))
    BY <1>2 DEF Surjection
  <2>2. IsFiniteSet(FeedOf(kind, S, n)) /\ Cardinality(FeedOf(kind, S, n)) <= Cardinality(R)
    BY <1>1, <2>1, FS_Surjection
  <2>3. Cardinality(FeedOf(kind, S, n)) \in Nat /\ Cardinality(R) \in Nat
    BY <1>1, <2>2, FS_CardinalityType
  <2> QED BY <1>1, <2>2, <2>3
<1>4. \A s \in S : s.id \in Nat /\ s.last \in Nat
  BY DEF StatesInTime
<1>5. FeedOf(kind, S, n) \in SUBSET [type : {"conversation", "todo", "plan"}, id : Nat, last : Nat]
  BY <1>1, <1>2, <1>4 DEF EventOf
<1>6. \A s \in S : AmongLatest(s, S, n) => EventOf(kind, s) \in FeedOf(kind, S, n)
  BY <1>1, <1>2
<1>7. \A t \in R : EventOf(kind, t) \in FeedOf(kind, S, n) /\ EventOf(kind, t).last = t.last
  BY <1>2 DEF EventOf
<1> QED BY <1>1, <1>3, <1>5, <1>6, <1>7

LEMMA CompletedArePart ==
  ASSUME StatesInTime(todoFiles), FeedTodos \in Nat
  PROVE  CompletedFeed \subseteq FeedOf("todo", todoFiles, FeedTodos)
BY DEF CompletedFeed, FeedOf

(* The three parts together fit into the feed, so that no event is cut off. *)
LEMMA KnownHoldsNewest == ASSUME Known PROVE FeedHoldsNewest /\ \E n \in Nat : DOMAIN activityEvents = 1 .. n
<1> DEFINE E == [type : {"conversation", "todo", "plan"}, id : Nat, last : Nat]
           A == FeedOf("conversation", conversations, FeedConversations)
           B == CompletedFeed
           C == FeedOf("plan", planFiles, FeedPlans)
<1>1. StatesInTime(conversations) /\ StatesInTime(todoFiles) /\ StatesInTime(planFiles)
  BY WorldAssumption, StatesOfPart DEF Known
<1>2. /\ A \in SUBSET E /\ IsFiniteSet(A) /\ Cardinality(A) \in 0 .. FeedConversations
      /\ \A s \in conversations : AmongLatest(s, conversations, FeedConversations) => EventOf("conversation", s) \in A
      /\ \A s \in conversations : \E e \in A : e.last >= s.last
  <2>1. FeedConversations \in Nat /\ FeedConversations > 0
    BY FeedAssumption
  <2> QED BY <1>1, <2>1, PartOfFeed
<1>3. /\ C \in SUBSET E /\ IsFiniteSet(C) /\ Cardinality(C) \in 0 .. FeedPlans
      /\ \A s \in planFiles : AmongLatest(s, planFiles, FeedPlans) => EventOf("plan", s) \in C
      /\ \A s \in planFiles : \E e \in C : e.last >= s.last
  <2>1. FeedPlans \in Nat /\ FeedPlans > 0
    BY FeedAssumption
  <2> QED BY <1>1, <2>1, PartOfFeed
<1>4. B \in SUBSET E /\ IsFiniteSet(B) /\ Cardinality(B) \in 0 .. FeedTodos
  <2> DEFINE T == FeedOf("todo", todoFiles, FeedTodos)
  <2>1. FeedTodos \in Nat
    BY FeedAssumption
  <2>2. T \in SUBSET E /\ IsFiniteSet(T) /\ Cardinality(T) \in 0 .. FeedTodos
    BY <1>1, <2>1, PartOfFeed
  <2>3. B \subseteq T
    BY <1>1, <2>1, CompletedArePart
  <2>4. IsFiniteSet(B) /\ Cardinality(B) <= Cardinality(T)
    BY <2>2, <2>3, FS_Subset
  <2>5. Cardinality(B) \in Nat
    BY <2>4, FS_CardinalityType
  <2> QED BY <2>1, <2>2, <2>3, <2>4, <2>5
<1> HIDE DEF A, B, C, E
<1>5. events = (A \union B) \union C
  BY DEF events, A, B, C
<1>6. events \in SUBSET E /\ IsFiniteSet(events) /\ Cardinality(events) \in Nat /\ Cardinality(events) <= FeedLength
  <2>1. IsFiniteSet(A \union B) /\ Cardinality(A \union B) = Cardinality(A) + Cardinality(B) - Cardinality(A \cap B)
    BY <1>2, <1>4, FS_Union
  <2>2. IsFiniteSet(events) /\ Cardinality(events) = Cardinality(A \union B) + Cardinality(C) - Cardinality((A \union B) \cap C)
    BY <1>3, <1>5, <2>1, FS_Union
  <2>3. Cardinality(A \cap B) \in Nat /\ Cardinality((A \union B) \cap C) \in Nat
    BY <1>2, <1>3, <2>1, FS_Intersection, FS_CardinalityType
  <2>4. Cardinality(events) \in Nat
    BY <2>2, FS_CardinalityType
  <2> QED BY <1>2, <1>3, <1>4, <1>5, <2>1, <2>2, <2>3, <2>4, FeedAssumption
<1> DEFINE ordered == Ranked(events, LatestFirst(events))
<1>7. OrdersTotally(LatestFirst(events), events)
  BY <1>6, LatestIsTotal DEF E
<1>8. /\ ordered \in [1 .. Cardinality(events) -> events]
      /\ ordered \in Seq(events) /\ Len(ordered) = Cardinality(events)
  BY <1>6, <1>7, RankedLists
<1>9. \A e \in events : \E k \in 1 .. Cardinality(events) : ordered[k] = e
  BY <1>6, <1>7, RankedHoldsAll
<1>10. \A i, j \in 1 .. Cardinality(events) : i < j => <<ordered[i], ordered[j]>> \in LatestFirst(events)
  BY <1>6, <1>7, RankedIsOrdered
<1>11. \A d, e \in events : <<d, e>> \in LatestFirst(events) => d.last >= e.last
  BY <1>6 DEF LatestFirst, E
<1> HIDE DEF ordered
<1>12. activityEvents = FirstOf(ordered, FeedLength)
  BY DEF activityEvents, ordered
<1>13. /\ DOMAIN activityEvents = 1 .. Cardinality(events)
       /\ \A k \in 1 .. Cardinality(events) : activityEvents[k] = ordered[k]
  <2>1. FeedLength \in Nat
    BY FeedAssumption
  <2>2. /\ activityEvents \in Seq(events)
        /\ Len(activityEvents) = IF Len(ordered) < FeedLength THEN Len(ordered) ELSE FeedLength
        /\ \A k \in DOMAIN activityEvents : activityEvents[k] = ordered[k]
    BY <1>8, <1>12, <2>1, FirstAreOf
  <2>3. Len(activityEvents) = Cardinality(events)
    BY <1>6, <1>8, <2>1, <2>2
  <2>4. DOMAIN activityEvents = 1 .. Cardinality(events)
    BY <2>2, <2>3
  <2> QED BY <2>2, <2>4
<1>14. \A e \in events : e \in Range(activityEvents)
  BY <1>9, <1>13 DEF Range
<1>15. \A e \in events : activityEvents # <<>> /\ activityEvents[1].last >= e.last
  <2> TAKE e \in events
  <2>1. PICK k \in 1 .. Cardinality(events) : ordered[k] = e
    BY <1>9
  <2>2. 1 \in 1 .. Cardinality(events) /\ activityEvents[1] = ordered[1] /\ ordered[1] \in events
    BY <1>6, <1>8, <1>13
  <2>3. activityEvents # <<>>
    <3>1. DOMAIN activityEvents # {}
      BY <1>13, <2>2
    <3> QED BY <3>1
  <2>4. CASE k = 1
    <3>1. e.last \in Nat
      BY <1>6 DEF E
    <3> QED BY <2>1, <2>2, <2>3, <2>4, <3>1
  <2>5. CASE k # 1
    <3>1. 1 < k
      BY <1>6, <2>5
    <3>2. <<ordered[1], ordered[k]>> \in LatestFirst(events)
      BY <1>10, <2>2, <3>1
    <3> QED BY <1>11, <2>1, <2>2, <2>3, <3>2
  <2> QED BY <2>4, <2>5
<1>16. \A i, j \in DOMAIN activityEvents : i < j => activityEvents[i].last >= activityEvents[j].last
  <2> SUFFICES ASSUME NEW i \in 1 .. Cardinality(events), NEW j \in 1 .. Cardinality(events), i < j
               PROVE  ordered[i].last >= ordered[j].last
    BY <1>13
  <2>1. ordered[i] \in events /\ ordered[j] \in events
    BY <1>8
  <2> QED BY <1>10, <1>11, <2>1
<1>17. \A e \in events : e.last \in Nat
  BY <1>6 DEF E
<1>18. \A s \in conversations \union planFiles : s.last \in Nat /\ \E e \in events : e.last >= s.last
  BY <1>1, <1>2, <1>3, <1>5 DEF StatesInTime
<1>19. \A s \in conversations \union planFiles : activityEvents # <<>> /\ activityEvents[1].last >= s.last
  <2> TAKE s \in conversations \union planFiles
  <2>1. PICK e \in events : e.last >= s.last
    BY <1>18
  <2>2. activityEvents[1] \in events
    <3>1. 1 \in 1 .. Cardinality(events)
      BY <1>6, <1>9
    <3> QED BY <1>8, <1>13, <3>1
  <2> QED BY <1>15, <1>17, <1>18, <2>1, <2>2
<1>20. /\ \A c \in conversations : AmongLatest(c, conversations, FeedConversations) => EventOf("conversation", c) \in Range(activityEvents)
       /\ \A p \in planFiles : AmongLatest(p, planFiles, FeedPlans) => EventOf("plan", p) \in Range(activityEvents)
  BY <1>2, <1>3, <1>5, <1>14
<1>21. FeedHoldsNewest
  BY <1>16, <1>19, <1>20 DEF FeedHoldsNewest
<1> QED BY <1>6, <1>13, <1>21

LEMMA KnownStep == Known /\ [MissionNext]_missionVars => Known'
<1> SUFFICES ASSUME Known, [MissionNext]_missionVars PROVE Known'
  OBVIOUS
<1>1. ASSUME NEW W PROVE PresentState(W) \subseteq W
  BY DEF PresentState
<1>2. CASE ConversationsAnswered
  BY <1>1, <1>2 DEF ConversationsAnswered, Known
<1>3. CASE TodosAnswered
  BY <1>1, <1>3 DEF TodosAnswered, Known
<1>4. CASE PlansAnswered
  BY <1>1, <1>4 DEF PlansAnswered, Known
<1>5. CASE UNCHANGED <<conversations, todoFiles, planFiles>>
  BY <1>5 DEF Known
<1>6. UNCHANGED missionVars => UNCHANGED <<conversations, todoFiles, planFiles>>
  BY DEF missionVars
<1> QED
  BY <1>2, <1>3, <1>4, <1>5, <1>6 DEF MissionNext, TimeGoesBy, setActivityFilter, setSearchQuery, handleSort, TableClick, TableArrow, TableEnter

(* Cutting each list before the merge and the feed after it loses none of   *)
(* the latest conversations and plans, and the feed is in order             *)
(* (MissionControl.tsx 144-198).                                            *)
THEOREM FeedCorrect == MissionSpec => []FeedHoldsNewest
<1>1. MissionInit => Known
  BY DEF MissionInit, Known
<1>2. Known => FeedHoldsNewest
  BY KnownHoldsNewest
<1> QED BY <1>1, <1>2, KnownStep, PTL DEF MissionSpec

-----------------------------------------------------------------------------
(* The token page.                                                          *)

(* The card adds up the days, the chart of the models each model's share of *)
(* the days that have it.                                                   *)
LEMMA ModelsMakeTheTotal ==
  ASSUME NEW days, FiniteCounts(days)
  PROVE  SumOf(modelStats(days)) = metrics(days).total
<1>1. DayTokens(days) = Sums(days)
  BY DEF DayTokens, TokensOf, Sums
<1>2. modelStats(days) = Sums(ColumnsOf(days))
  BY DEF modelStats, allModels, DaysWith, Sums, ColumnsOf
<1>3. metrics(days).total = SumOf(DayTokens(days))
  BY DEF metrics
<1> QED BY <1>1, <1>2, <1>3, RowsAndColumnsAgree

LEMMA ProjectsAreOrdered ==
  ASSUME NEW projects, Counts(projects), DOMAIN projects \subseteq Nat
  PROVE  OrdersTotally(LargerFirst(projects), DOMAIN projects)
BY DEF OrdersTotally, LargerFirst, Counts

(* Sorting keeps the sum, and so does cutting the sorted list in two.       *)
LEMMA SlicesMakeTheTotal ==
  ASSUME NEW projects, Counts(projects), DOMAIN projects \subseteq Nat
  PROVE  SumOf(ChartSlices(projects).top) + ChartSlices(projects).other = SumOf(projects)
<1> DEFINE n == Cardinality(DOMAIN projects)
           order == Ranked(DOMAIN projects, LargerFirst(projects))
           sorted == [k \in DOMAIN order |-> projects[order[k]]]
           Top == {k \in DOMAIN sorted : k <= SlicesShown /\ 50 * sorted[k] >= SumOf(projects)}
<1>1. IsFiniteSet(DOMAIN projects) /\ OrdersTotally(LargerFirst(projects), DOMAIN projects)
  BY ProjectsAreOrdered DEF Counts
<1>2. n \in Nat /\ order \in [1 .. n -> DOMAIN projects]
  BY <1>1, RankedLists
<1>3. \A p \in DOMAIN projects : \E k \in 1 .. n : order[k] = p
  BY <1>1, RankedHoldsAll
<1>4. ASSUME NEW i \in 1 .. n, NEW j \in 1 .. n, order[i] = order[j] PROVE i = j
  <2>1. /\ Cardinality(AheadOf(order[i], DOMAIN projects, LargerFirst(projects))) = i - 1
        /\ Cardinality(AheadOf(order[j], DOMAIN projects, LargerFirst(projects))) = j - 1
    BY <1>1, RankedLists
  <2> QED BY <1>2, <1>4, <2>1
<1>5. ChartSlices(projects).top = [k \in Top |-> sorted[k]] /\ ChartSlices(projects).other = SumOf([k \in DOMAIN sorted \ Top |-> sorted[k]])
  BY DEF ChartSlices
<1> HIDE DEF n, order
<1>6. order \in Bijection(1 .. n, DOMAIN projects)
  BY <1>2, <1>3, <1>4 DEF Bijection, Injection, IsInjective, Surjection
<1>7. Counts(sorted) /\ DOMAIN sorted = 1 .. n /\ \A k \in 1 .. n : sorted[k] = projects[order[k]]
  <2>1. DOMAIN sorted = 1 .. n /\ \A k \in 1 .. n : sorted[k] = projects[order[k]]
    BY <1>2
  <2>2. sorted = [k \in DOMAIN sorted |-> sorted[k]]
    OBVIOUS
  <2>3. \A k \in 1 .. n : projects[order[k]] \in Nat
    BY <1>2 DEF Counts
  <2>4. IsFiniteSet(1 .. n)
    BY <1>2, CountsAreFinite
  <2> HIDE DEF sorted, Top
  <2>5. sorted \in [DOMAIN sorted -> Nat]
    BY <2>1, <2>2, <2>3
  <2> QED BY <2>1, <2>4, <2>5 DEF Counts
<1> HIDE DEF sorted
<1>8. Top \subseteq DOMAIN sorted
  OBVIOUS
<1> HIDE DEF Top
<1>9. SumOf([k \in Top |-> sorted[k]]) + SumOf([k \in DOMAIN sorted \ Top |-> sorted[k]]) = SumOf(sorted)
  BY <1>7, <1>8, SumInParts
<1>10. SumOf(sorted) = SumOf(projects)
  <2>1. order \in Bijection(DOMAIN sorted, DOMAIN projects) /\ \A k \in DOMAIN sorted : sorted[k] = projects[order[k]]
    BY <1>6, <1>7
  <2> QED BY <1>7, <2>1, SumRenamed
<1> QED BY <1>5, <1>9, <1>10

(* The fallback adds up the conversations of each project.                  *)
LEMMA ProjectsMakeTheTotal ==
  ASSUME NEW known \in SUBSET TokenConversations
  PROVE  /\ Counts(TokensByProject(known)) /\ DOMAIN TokensByProject(known) \subseteq Nat
         /\ SumOf(TokensByProject(known)) = SumOf([c \in known |-> c.tokens])
<1> DEFINE tokens == [c \in known |-> c.tokens]
           project == [c \in known |-> c.project]
<1>1. \A c \in known : c.tokens \in Nat /\ c.project \in Nat
  BY TokenAssumption
<1>2. Counts(tokens)
  BY <1>1, TokenAssumption, FS_Subset DEF Counts
<1>3. TokensByProject(known) = Sums(GroupsOf(tokens, project))
  BY DEF TokensByProject, ProjectsOf, Sums, GroupsOf
<1>4. DOMAIN TokensByProject(known) \subseteq Nat
  BY <1>1 DEF TokensByProject, ProjectsOf
<1> QED BY <1>2, <1>3, <1>4, SumByGroups

LEMMA FiguresOfRange == tokenRange \in TokenRange => FiguresAgree
<1> SUFFICES ASSUME tokenRange \in TokenRange PROVE FiguresAgree
  OBVIOUS
<1>1. FiniteCounts(dailyStats)
  <2>1. FiniteCounts(Daily[tokenRange])
    <3>1. Daily[tokenRange] \in Seq(Range(Daily[tokenRange])) /\ \A i \in DOMAIN Daily[tokenRange] : Counts(Daily[tokenRange][i])
      BY TokenAssumption
    <3>2. PICK n \in Nat : DOMAIN Daily[tokenRange] = 1 .. n
      BY <3>1
    <3> QED BY <3>1, <3>2, CountsAreFinite DEF FiniteCounts
  <2>2. FiniteCounts(<<>>)
    BY FS_EmptySet DEF FiniteCounts
  <2> QED BY <2>1, <2>2 DEF dailyStats
<1>2. Spikes(dailyStats) = ChartAnomalies(dailyStats)
  BY DEF Spikes, ChartAnomalies
<1>3. SumOf(modelStats(dailyStats)) = metrics(dailyStats).total
  BY <1>1, ModelsMakeTheTotal
<1>4. CASE projectStats # <<>>
  <2>1. displayProjectStats = projectStats /\ projectStats = ProjectTotals[tokenRange]
    BY <1>4 DEF displayProjectStats, projectStats
  <2>2. Counts(projectStats) /\ DOMAIN projectStats \subseteq Nat
    BY <2>1, TokenAssumption
  <2>3. SumOf(ChartSlices(displayProjectStats).top) + ChartSlices(displayProjectStats).other = SumOf(projectStats)
    BY <2>1, <2>2, SlicesMakeTheTotal
  <2> QED BY <1>2, <1>3, <1>4, <2>3 DEF FiguresAgree
<1>5. CASE projectStats = <<>>
  <2>1. displayProjectStats = TokensByProject(conversationsKnown)
    BY <1>5 DEF displayProjectStats
  <2>2. conversationsKnown \subseteq TokenConversations
    BY DEF conversationsKnown
  <2>3. SumOf(ChartSlices(displayProjectStats).top) + ChartSlices(displayProjectStats).other
          = SumOf([c \in conversationsKnown |-> c.tokens])
    BY <2>1, <2>2, ProjectsMakeTheTotal, SlicesMakeTheTotal
  <2> QED BY <1>2, <1>3, <1>5, <2>3 DEF FiguresAgree
<1> QED BY <1>4, <1>5

(* Whatever the days, the projects and the conversations are, and in        *)
(* whatever order the four answers come, the figures agree                  *)
(* (TokenEconomics.tsx 146-234, ProjectBreakdownChart.tsx 43-96).           *)
THEOREM FiguresCorrect == TokenSpec => []FiguresAgree
<1>1. TokenInit => tokenRange \in TokenRange
  BY DEF TokenInit
<1>2. tokenRange \in TokenRange /\ [TokenNext]_tokenVars => (tokenRange \in TokenRange)'
  BY DEF TokenNext, QueryEnds, ChooseRange, RetryPage, SetTimeView, SetViewMode, ToggleShowAll, tokenVars
<1> QED BY <1>1, <1>2, FiguresOfRange, PTL DEF TokenSpec

-----------------------------------------------------------------------------
(* The types of the shell.                                                 *)
(* What the keydown listener closes over, when there is one.                *)
ListenerTyped == listener # NoTarget => DOMAIN listener = {"index", "list", "query"}

(* The dropdown is up only in an overridden scope, and asks before it shows. *)
ShellTypes ==
  /\ path \in Paths /\ activeItem \in SidebarItem /\ shellQuery \in ShellQuery /\ override \in {NoTarget, "everything"}
  /\ everythingOpen \in BOOLEAN /\ focused \in BOOLEAN /\ showDropdown \in BOOLEAN
  /\ dropdownTab \in DropdownTab /\ selected \in Int
  /\ ListenerTyped
  /\ answered \subseteq askedQuery
  /\ showDropdown => everythingOpen
  /\ everythingOpen => override = "everything"

(* What a render of the dropdown leaves alone, and what it makes.          *)
DropdownTyped(shown) ==
  /\ showDropdown = shown /\ dropdownTab \in DropdownTab /\ selected \in Int /\ ListenerTyped

LEMMA DropdownIsTyped ==
  ASSUME ShellTypes, NEW shown, NEW q, NEW t \in DropdownTab, NEW i \in Int, NEW done,
         Dropdown(shown, q, t, i, done)
  PROVE  DropdownTyped(shown)' /\ askedQuery \subseteq askedQuery'
<1>1. showDropdown' = shown /\ askedQuery \subseteq askedQuery'
  BY DEF Dropdown
<1>2. "all" \in DropdownTab
  BY DEF DropdownTab
<1>3. \A j, p, u : DOMAIN Listener(j, p, u, done) = {"index", "list", "query"}
  BY DEF Listener
<1>4. dropdownTab' \in DropdownTab /\ selected' \in Int
  BY <1>2 DEF Dropdown
<1>5. ListenerTyped'
  BY <1>3 DEF Dropdown, ShellTypes, ListenerTyped
<1> QED BY <1>1, <1>4, <1>5 DEF DropdownTyped

LEMMA DropdownTypes ==
  ASSUME ShellTypes, NEW shown \in BOOLEAN, DropdownTyped(shown)', askedQuery \subseteq askedQuery',
         path' \in Paths, activeItem' \in SidebarItem, shellQuery' \in ShellQuery, override' \in {NoTarget, "everything"},
         focused' \in BOOLEAN, everythingOpen' \in BOOLEAN, answered' \subseteq askedQuery',
         shown => everythingOpen', everythingOpen' => override' = "everything"
  PROVE  ShellTypes'
BY DEF ShellTypes, DropdownTyped

LEMMA NoQueryTyped == "" \in ShellQuery /\ LongQuery \subseteq ShellQuery
BY DEF ShellQuery

LEMMA OpenedLeads ==
  ASSUME NEW item, NEW q \in LongQuery
  PROVE  ResultUrl(item, q).path \in Paths /\ ResultUrl(item, q).query \in ShellQuery
<1>1. q \in ShellQuery
  BY NoQueryTyped
<1>2. CASE item.kind = "conversation"
  <2>1. ResultUrl(item, q) = [path |-> "conversation", query |-> q]
    BY <1>2, Zenon DEF ResultUrl
  <2> QED BY <1>1, <2>1 DEF Paths
<1>3. CASE item.kind = "request"
  <2>1. ResultUrl(item, q) = [path |-> "request", query |-> q]
    BY <1>3 DEF ResultUrl
  <2> QED BY <1>1, <2>1 DEF Paths
<1>4. CASE item.kind \notin {"conversation", "request"}
  <2> DEFINE to == ResultUrl(item, q)
  <2>1. to.path \in {"extensions", "session-data"} /\ to.query = ""
    BY <1>4 DEF ResultUrl
  <2>2. to.path \in Paths
    BY <2>1 DEF Paths
  <2> HIDE DEF to
  <2>3. to.query \in ShellQuery
    BY <2>1, NoQueryTyped, Zenon
  <2> QED BY <2>2, <2>3 DEF to
<1> QED BY <1>2, <1>3, <1>4

LEMMA ShellTypesStep == ShellInv /\ ShellTypes /\ [ShellNext]_shellVars => ShellTypes'
<1> SUFFICES ASSUME ShellInv, ShellTypes, [ShellNext]_shellVars PROVE ShellTypes'
  OBVIOUS
<1>1. /\ path \in Paths /\ activeItem \in SidebarItem /\ shellQuery \in ShellQuery /\ override \in {NoTarget, "everything"}
      /\ everythingOpen \in BOOLEAN /\ focused \in BOOLEAN /\ showDropdown \in BOOLEAN
      /\ dropdownTab \in DropdownTab /\ selected \in Int /\ answered \subseteq askedQuery
      /\ showDropdown => everythingOpen
      /\ everythingOpen => override = "everything"
  BY DEF ShellTypes
<1>2. ASSUME NEW shown \in BOOLEAN, NEW q, Dropdown(shown, q, dropdownTab, selected, answered)
      PROVE  DropdownTyped(shown)' /\ askedQuery \subseteq askedQuery'
  BY <1>1, <1>2, DropdownIsTyped
<1>3. ASSUME NEW q, NEW open \in BOOLEAN PROVE ShowAfter(q, open) \in BOOLEAN /\ (ShowAfter(q, open) => open)
  BY <1>1 DEF ShowAfter
<1>4. ASSUME NEW q \in ShellQuery, TypeInBar(q) PROVE ShellTypes'
  <2>1. /\ everythingOpen' \in BOOLEAN /\ (everythingOpen' => everythingOpen) /\ shellQuery' = q /\ focused' = TRUE
        /\ Dropdown(ShowAfter(q, everythingOpen'), q, dropdownTab, selected, answered)
        /\ UNCHANGED <<path, activeItem, override, answered>>
    BY <1>1, <1>4, Zenon DEF TypeInBar
  <2> QED BY <1>1, <1>2, <1>3, <2>1, DropdownTypes
<1>5. ASSUME ResetSearch, UNCHANGED <<path, activeItem, answered>>, focused' \in BOOLEAN PROVE ShellTypes'
  <2>1. /\ shellQuery' \in ShellQuery /\ override' = NoTarget /\ everythingOpen' = FALSE
        /\ DropdownTyped(FALSE)' /\ askedQuery \subseteq askedQuery'
    BY <1>2, <1>5, NoQueryTyped DEF ResetSearch
  <2> QED BY <1>1, <1>5, <2>1, DropdownTypes
<1>6. CASE ClearSearch
  <2>1. ResetSearch /\ UNCHANGED <<path, activeItem, focused, answered>>
    BY <1>6 DEF ClearSearch
  <2> QED BY <1>1, <1>5, <2>1
<1>7. CASE OpenEverything
  BY <1>1, <1>2, <1>3, <1>7, DropdownTypes DEF OpenEverything
<1>8. CASE ResetScope
  BY <1>1, <1>2, <1>3, <1>8, DropdownTypes DEF ResetScope
<1>9. CASE FocusBar
  BY <1>9 DEF FocusBar, ShellTypes, ListenerTyped, dropdown
<1>10. CASE ClickOutside
  BY <1>1, <1>2, <1>10, DropdownTypes DEF ClickOutside
<1>11. CASE Escape
  <2>1. focused' = FALSE /\ UNCHANGED <<path, activeItem, answered>>
    BY <1>11 DEF Escape
  <2>2. CASE focused
    BY <1>5, <1>11, <2>1, <2>2 DEF Escape
  <2>3. CASE ~focused
    BY <1>1, <1>2, <1>11, <2>1, <2>3, DropdownTypes DEF Escape
  <2> QED BY <2>2, <2>3
<1>12. ASSUME NEW i \in Int, Arrow(i) PROVE ShellTypes'
  <2>1. DropdownTyped(TRUE)' /\ askedQuery \subseteq askedQuery'
    BY <1>1, <1>12, DropdownIsTyped DEF Arrow
  <2> QED BY <1>1, <1>12, <2>1, DropdownTypes DEF Arrow, searchState
<1>13. CASE ArrowDown
  <2>1. showDropdown /\ Len(listener.list) = Len(ShellShown) /\ ShellShown \in Seq(FoundBy(shellQuery))
    BY <1>13, ShownAreFound DEF ArrowDown, ShellInv, ListenerOK
  <2>2. Smaller(selected + 1, Len(listener.list) - 1) \in Int
    BY <1>1, <2>1 DEF Smaller
  <2> QED BY <1>12, <1>13, <2>2 DEF ArrowDown
<1>14. CASE ArrowUp
  BY <1>1, <1>12, <1>14 DEF ArrowUp
<1>15. ASSUME NEW q \in LongQuery, NEW item, NEW by, Select(item, q, by) PROVE ShellTypes'
  <2>1. path' \in Paths /\ shellQuery' \in ShellQuery
    BY <1>15, OpenedLeads DEF Select
  <2>2. DropdownTyped(FALSE)' /\ askedQuery \subseteq askedQuery'
    BY <1>2, <1>15 DEF Select
  <2> QED BY <1>1, <1>15, <2>1, <2>2, DropdownTypes DEF Select
<1>16. CASE Enter
  <2>1. listener.query \in LongQuery
    BY <1>16 DEF Enter, ShellInv, ListenerOK
  <2> QED BY <1>15, <1>16, <2>1 DEF Enter
<1>17. ASSUME NEW t \in DropdownTab, ClickTab(t) PROVE ShellTypes'
  <2>1. DropdownTyped(TRUE)' /\ askedQuery \subseteq askedQuery'
    BY <1>1, <1>17, DropdownIsTyped DEF ClickTab
  <2> QED BY <1>1, <1>17, <2>1, DropdownTypes DEF ClickTab, searchState
<1>18. ASSUME NEW i, ClickResult(i) PROVE ShellTypes'
  <2>1. shellQuery \in LongQuery
    BY <1>18 DEF ClickResult, ShellInv
  <2> QED BY <1>15, <1>18, <2>1 DEF ClickResult
<1>19. ASSUME NEW q \in LongQuery, Answer(q) PROVE ShellTypes'
  <2>1. q \in askedQuery /\ answered' = answered \union {q} /\ UNCHANGED <<path, activeItem, shellQuery, override, everythingOpen, focused>>
    BY <1>19 DEF Answer, searchState
  <2>2. CASE showDropdown
    <3>1. Dropdown(TRUE, shellQuery, dropdownTab, selected, answered')
      BY <1>19, <2>2 DEF Answer
    <3>2. DropdownTyped(TRUE)' /\ askedQuery \subseteq askedQuery'
      BY <1>1, <3>1, DropdownIsTyped
    <3> QED BY <1>1, <2>1, <2>2, <3>2, DropdownTypes
  <2>3. CASE ~showDropdown
    BY <1>19, <2>1, <2>3 DEF Answer, dropdown, ShellTypes, ListenerTyped
  <2> QED BY <2>2, <2>3
<1>20. ASSUME NEW p \in Paths, GotoPath(p), activeItem' \in SidebarItem PROVE ShellTypes'
  <2>1. path' = p /\ shellQuery' \in ShellQuery /\ focused' = FALSE /\ UNCHANGED answered
    BY <1>20, NoQueryTyped DEF GotoPath
  <2>2. PICK dropped \in BOOLEAN : /\ override' = (IF dropped THEN NoTarget ELSE override)
                                   /\ everythingOpen' \in BOOLEAN /\ (everythingOpen' => everythingOpen /\ ~dropped)
    <3> DEFINE leaves == path # p /\ override # NoTarget /\ override # AutoScope(p)
    <3>1. override' = (IF leaves THEN NoTarget ELSE override) /\ everythingOpen' = (everythingOpen /\ ~leaves /\ shellQuery = "")
      BY <1>20, Zenon DEF GotoPath
    <3> HIDE DEF leaves
    <3>2. everythingOpen' \in BOOLEAN /\ (everythingOpen' => everythingOpen /\ ~leaves)
      BY <3>1, Zenon
    <3>3. CASE leaves
      BY <3>1, <3>2, <3>3
    <3>4. CASE ~leaves
      BY <3>1, <3>2, <3>4
    <3> QED BY <3>3, <3>4
  <2>3. DropdownTyped(FALSE)' /\ askedQuery \subseteq askedQuery'
    BY <1>2, <1>20 DEF GotoPath
  <2> QED BY <1>1, <1>20, <2>1, <2>2, <2>3, DropdownTypes
<1>21. ASSUME NEW p \in SidebarItem, SelectItem(p) PROVE ShellTypes'
  <2>1. p \in Paths
    BY DEF Paths, SidebarItem
  <2> QED BY <1>20, <1>21, <2>1 DEF SelectItem
<1>22. ASSUME NEW p \in Paths, FollowLink(p) PROVE ShellTypes'
  BY <1>1, <1>20, <1>22 DEF FollowLink
<1>23. CASE ReloadPath
  <2>1. Segment(path) \in SidebarItem
    BY <1>1 DEF Paths, SidebarItem, Segment
  <2>2. "all" \in DropdownTab
    BY DEF DropdownTab
  <2>3. ListenerTyped'
    BY <1>23 DEF ReloadPath, ListenerTyped
  <2>4. /\ activeItem' \in SidebarItem /\ override' = NoTarget /\ everythingOpen' = FALSE /\ focused' = FALSE /\ showDropdown' = FALSE
        /\ dropdownTab' = "all" /\ selected' = 0 /\ askedQuery' = {} /\ answered' = {} /\ UNCHANGED <<path, shellQuery>>
    BY <1>23, <2>1 DEF ReloadPath
  <2>5. selected' \in Int /\ answered' \subseteq askedQuery' /\ dropdownTab' \in DropdownTab /\ path' \in Paths /\ shellQuery' \in ShellQuery
    BY <1>1, <2>2, <2>4
  <2>6. everythingOpen' \in BOOLEAN /\ focused' \in BOOLEAN /\ showDropdown' \in BOOLEAN /\ ~showDropdown' /\ ~everythingOpen'
    BY <2>4
  <2> QED BY <2>3, <2>4, <2>5, <2>6, Zenon DEF ShellTypes
<1>24. CASE UNCHANGED shellVars
  BY <1>24 DEF shellVars, searchState, dropdown, ShellTypes, ListenerTyped
<1> QED BY <1>4, <1>6, <1>7, <1>8, <1>9, <1>10, <1>11, <1>13, <1>14, <1>16, <1>17, <1>18, <1>19, <1>21, <1>22, <1>23, <1>24 DEF ShellNext

LEMMA ShellTypesInitially == ShellInit => ShellTypes
<1> SUFFICES ASSUME ShellInit PROVE ShellTypes
  OBVIOUS
<1>1. Segment(path) \in SidebarItem
  BY DEF ShellInit, Paths, SidebarItem, Segment
<1>2. shellQuery \in ShellQuery
  BY NoQueryTyped DEF ShellInit
<1>3. /\ path \in Paths /\ activeItem = Segment(path) /\ override = NoTarget /\ everythingOpen = FALSE /\ focused = FALSE
      /\ showDropdown = FALSE /\ dropdownTab = "all" /\ selected = 0 /\ listener = NoTarget /\ answered = {}
  BY DEF ShellInit
<1>4. "all" \in DropdownTab
  BY DEF DropdownTab
<1>5. ListenerTyped
  BY <1>3 DEF ListenerTyped
<1>6. selected \in Int /\ answered \subseteq askedQuery /\ activeItem \in SidebarItem /\ dropdownTab \in DropdownTab
  BY <1>1, <1>3, <1>4
<1>7. everythingOpen \in BOOLEAN /\ focused \in BOOLEAN /\ showDropdown \in BOOLEAN /\ ~showDropdown /\ ~everythingOpen
  BY <1>3
<1> QED BY <1>2, <1>3, <1>5, <1>6, <1>7, Zenon DEF ShellTypes

LEMMA ShellTypesAre == ShellInv /\ ShellTypes => ShellTypeOK
<1> SUFFICES ASSUME ShellInv, ShellTypes PROVE ShellTypeOK
  OBVIOUS
<1>1. openedPath # NoTarget => openedPath.item \in Item
  BY DEF ShellInv, OpenedWasFound, Item
<1>2. everythingOpen => Scope = "everything"
  <2>1. NoTarget # "everything"
    BY QueriesAssumption
  <2> QED BY <2>1 DEF Scope, ShellTypes
<1> QED BY <1>1, <1>2 DEF ShellTypeOK, ShellInv, ShellTypes, ListenerTyped

(* The types; the dropdown is up only for a query long enough to be        *)
(* searched, in the scope everything, which no close, navigation or reset   *)
(* leaves behind (SearchBar.tsx 60-63, SearchContext.tsx 74-84).            *)
THEOREM ShellTypesCorrect == ShellSpec => []ShellTypeOK
<1>1. ShellSpec => []ShellTypes
  BY ShellTypesInitially, ShellInvariant, ShellTypesStep, PTL DEF ShellSpec
<1> QED BY ShellTypesAre, <1>1, ShellInvariant, PTL

-----------------------------------------------------------------------------
(* The types of the cockpit.                                               *)
(* Every session is listed, and none twice. *)
ListsEach(seq) ==
  /\ seq \in Seq(Session) /\ Len(seq) = Cardinality(Session)
  /\ \A i, j \in 1 .. Len(seq) : seq[i] = seq[j] => i = j

CockpitTypes == ListsEach(activity) /\ list = activity /\ selectedIndex <= Len(activity) - 1

LEMMA EachIsListed == ASSUME NEW seq, ListsEach(seq) PROVE ToSet(seq) = Session
<1> DEFINE n == Cardinality(Session)
<1>1. n \in Nat /\ IsFiniteSet(1 .. n) /\ Cardinality(1 .. n) = n /\ IsFiniteSet(Session)
  BY CountsAreFinite, FS_CardinalityType, TodosAssumption
<1>2. seq \in [1 .. n -> Session] /\ \A i, j \in 1 .. n : seq[i] = seq[j] => i = j
  BY DEF ListsEach
<1>3. seq \in Injection(1 .. n, Session)
  BY <1>2 DEF Injection, IsInjective
<1>4. seq \in Surjection(1 .. n, Session)
  BY <1>1, <1>3, FS_Injection
<1> HIDE DEF n
<1> QED BY <1>2, <1>4 DEF Surjection, ToSet

(* The one worked on is put before the others. *)
LEMMA WorkedListsEach ==
  ASSUME ListsEach(activity), NEW s \in Session
  PROVE  ListsEach(<<s>> \o Kept(activity, {i \in DOMAIN activity : activity[i] # s}))
<1> DEFINE n == Len(activity)
           rows == {i \in DOMAIN activity : activity[i] # s}
           others == Kept(activity, rows)
<1>1. /\ n \in Nat /\ n = Cardinality(Session) /\ activity \in [1 .. n -> Session] /\ DOMAIN activity = 1 .. n
      /\ \A i, j \in 1 .. n : activity[i] = activity[j] => i = j
      /\ IsFiniteSet(1 .. n) /\ Cardinality(1 .. n) = n
  BY CountsAreFinite DEF ListsEach
<1>2. PICK at \in 1 .. n : activity[at] = s
  BY <1>1, EachIsListed DEF ToSet
<1>3. rows = (1 .. n) \ {at}
  BY <1>1, <1>2
<1>4. IsFiniteSet(rows) /\ Cardinality(rows) = n - 1 /\ rows \in SUBSET Int
  <2>1. IsFiniteSet((1 .. n) \ {at}) /\ Cardinality((1 .. n) \ {at}) = n - 1
    <3>1. ASSUME NEW S, IsFiniteSet(S), at \in S
          PROVE  IsFiniteSet(S \ {at}) /\ Cardinality(S \ {at}) = Cardinality(S) - 1
      BY <3>1, FS_RemoveElement
    <3> QED BY <1>1, <3>1
  <2>2. rows \in SUBSET Int
    BY <1>3
  <2> HIDE DEF rows
  <2> QED BY <1>3, <2>1, <2>2
<1>5. PICK order : KeepsAt(order, activity, rows)
  BY <1>4, KeptPlaces
<1>6. others \in Seq({activity[i] : i \in rows}) /\ Len(others) = n - 1
  BY <1>4, KeptLists
<1>7. {activity[i] : i \in rows} \subseteq Session
  BY <1>1
<1>8. \A k \in 1 .. n - 1 : order[k] \in rows /\ others[k] = activity[order[k]] /\ others[k] # s
  <2> HIDE DEF rows
  <2>1. \A k \in 1 .. n - 1 : order[k] \in rows /\ others[k] = activity[order[k]]
    BY <1>4, <1>5 DEF KeepsAt
  <2> QED BY <2>1 DEF rows
<1>9. \A k, l \in 1 .. n - 1 : others[k] = others[l] => k = l
  <2> SUFFICES ASSUME NEW k \in 1 .. n - 1, NEW l \in 1 .. n - 1, others[k] = others[l] PROVE k = l
    OBVIOUS
  <2>1. order[k] = order[l]
    BY <1>1, <1>3, <1>8
  <2> QED BY <1>4, <1>5, <2>1 DEF KeepsAt
<1> HIDE DEF others, rows
<1>10. others \in Seq(Session)
  BY <1>6, <1>7
<1> DEFINE all == <<s>> \o others
<1>11. all \in Seq(Session) /\ Len(all) = n
  BY <1>1, <1>6, <1>10
<1>12. \A i \in 1 .. n : all[i] = IF i = 1 THEN s ELSE others[i - 1]
  BY <1>1, <1>6, <1>10
<1> HIDE DEF all
<1>13. \A i, j \in 1 .. n : all[i] = all[j] => i = j
  <2> SUFFICES ASSUME NEW i \in 1 .. n, NEW j \in 1 .. n, all[i] = all[j] PROVE i = j
    OBVIOUS
  <2>1. CASE i = 1 /\ j = 1
    BY <2>1
  <2>2. CASE i # 1 /\ j # 1
    <3>1. i - 1 \in 1 .. n - 1 /\ j - 1 \in 1 .. n - 1 /\ others[i - 1] = others[j - 1]
      BY <1>1, <1>12, <2>2
    <3> QED BY <1>9, <3>1
  <2>3. CASE i = 1 /\ j # 1
    <3>1. j - 1 \in 1 .. n - 1 /\ others[j - 1] = s
      BY <1>1, <1>12, <2>3
    <3> QED BY <1>8, <3>1
  <2>4. CASE i # 1 /\ j = 1
    <3>1. i - 1 \in 1 .. n - 1 /\ others[i - 1] = s
      BY <1>1, <1>12, <2>4
    <3> QED BY <1>8, <3>1
  <2> QED BY <2>1, <2>2, <2>3, <2>4
<1>14. ListsEach(all)
  BY <1>1, <1>11, <1>13 DEF ListsEach
<1> QED BY <1>14 DEF all, others, rows

LEMMA SortedArePart == ASSUME CockpitInv PROVE Len(sortedSessions) \in Nat /\ Len(sortedSessions) <= Len(activity)
<1> DEFINE rows == {i \in DOMAIN activity : activity[i] \in filteredSessions}
<1>1. IsFiniteSet(1 .. Len(activity)) /\ Cardinality(1 .. Len(activity)) = Len(activity) /\ rows \in SUBSET (1 .. Len(activity)) /\ Len(activity) \in Nat
  BY CountsAreFinite DEF CockpitInv
<1>2. IsFiniteSet(rows) /\ Cardinality(rows) <= Len(activity) /\ rows \in SUBSET Int
  BY <1>1, FS_Subset
<1>3. Cardinality(rows) \in Nat /\ Len(Kept(activity, rows)) = Cardinality(rows)
  BY <1>2, KeptLists
<1> QED BY <1>2, <1>3 DEF sortedSessions

LEMMA CockpitTypesStep == CockpitInv /\ CockpitTypes /\ [CockpitNext]_cockpitVars => CockpitTypes'
<1> SUFFICES ASSUME CockpitInv, CockpitTypes, [CockpitNext]_cockpitVars PROVE CockpitTypes'
  OBVIOUS
<1>1. /\ selectedIndex \in Int /\ selectedIndex >= -1 /\ selectedIndex <= Len(activity) - 1 /\ Len(activity) \in Nat
      /\ Len(sortedSessions) \in Nat /\ Len(sortedSessions) <= Len(activity) /\ sortedSessions \in Seq(Session)
  BY SortedArePart, SortedAreSessions DEF CockpitInv, CockpitTypes
<1>2. ASSUME UNCHANGED <<activity, list>>, selectedIndex' <= Len(activity) - 1 PROVE CockpitTypes'
  BY <1>2 DEF CockpitTypes, ListsEach
<1>3. ASSUME NEW i \in 0 .. Len(sortedSessions) - 1, handleRowClick(i) \/ handleArrow(i) PROVE CockpitTypes'
  BY <1>1, <1>2, <1>3 DEF handleRowClick, handleArrow
<1>4. sortedSessions # <<>> => Len(sortedSessions) > 0
  BY <1>1
<1>5. CASE CockpitDown
  BY <1>1, <1>3, <1>4, <1>5 DEF CockpitDown, handleArrow
<1>6. CASE CockpitUp
  BY <1>1, <1>3, <1>4, <1>6 DEF CockpitUp, handleArrow
<1>7. CASE CockpitUpBeyond
  BY <1>1, <1>2, <1>7 DEF CockpitUpBeyond
<1>8. CASE CockpitEnter
  BY <1>1, <1>2, <1>8 DEF CockpitEnter
<1>9. ASSUME NEW q, CockpitSearch(q) PROVE CockpitTypes'
  BY <1>1, <1>2, <1>9 DEF CockpitSearch
<1>10. ASSUME NEW s \in Session, Worked(s) PROVE CockpitTypes'
  <2>1. ListsEach(activity') /\ list' = activity' /\ selectedIndex' = selectedIndex
    BY <1>10, WorkedListsEach DEF Worked, CockpitTypes
  <2>2. Len(activity') = Len(activity)
    BY <2>1 DEF ListsEach, CockpitTypes
  <2> QED BY <1>1, <2>1, <2>2 DEF CockpitTypes, ListsEach
<1>11. ASSUME NEW t, onTabChange(t) PROVE CockpitTypes'
  BY <1>1, <1>2, <1>11 DEF onTabChange
<1>12. ASSUME NEW d, TabKey(d) PROVE CockpitTypes'
  BY <1>11, <1>12 DEF TabKey
<1>13. CASE TodosArrive
  BY <1>1, <1>2, <1>13 DEF TodosArrive
<1>14. ASSUME NEW i, handleToggle(i) PROVE CockpitTypes'
  <2>1. UNCHANGED <<activity, list, selectedIndex>>
    BY <1>14 DEF handleToggle
  <2> QED BY <1>1, <1>2, <2>1
<1>15. CASE UNCHANGED cockpitVars
  BY <1>1, <1>2, <1>15 DEF cockpitVars
<1> QED BY <1>3, <1>5, <1>6, <1>7, <1>8, <1>9, <1>10, <1>11, <1>12, <1>13, <1>14, <1>15 DEF CockpitNext

LEMMA CockpitTypesInitially == CockpitInit => CockpitTypes
<1> SUFFICES ASSUME CockpitInit PROVE CockpitTypes
  OBVIOUS
<1>1. Cardinality(Session) \in Nat
  BY FS_CardinalityType, TodosAssumption
<1>2. activity \in [1 .. Cardinality(Session) -> Session] /\ \A i, j \in 1 .. Cardinality(Session) : i # j => activity[i] # activity[j]
  BY DEF CockpitInit, SetToSeqs
<1>3. activity \in Seq(Session) /\ Len(activity) = Cardinality(Session)
  BY <1>1, <1>2
<1>4. ListsEach(activity)
  BY <1>2, <1>3 DEF ListsEach
<1>5. selectedIndex = -1 /\ list = activity
  BY DEF CockpitInit
<1> QED BY <1>1, <1>3, <1>4, <1>5 DEF CockpitTypes

LEMMA CockpitTypesAre == CockpitInv /\ CockpitTypes => CockpitTypeOK
<1> SUFFICES ASSUME CockpitInv, CockpitTypes PROVE CockpitTypeOK
  OBVIOUS
<1>1. ToSet(list) = Session
  BY EachIsListed DEF CockpitTypes
<1>2. Len(list) = Len(activity) /\ Len(activity) \in Nat /\ selectedIndex \in -1 .. Len(list) - 1
  BY DEF CockpitInv, CockpitTypes
<1> QED BY <1>1, <1>2 DEF CockpitTypeOK, CockpitInv

(* The types: the panel lists every session once, and the index, which the  *)
(* search leaves where it was, is that of a row of the whole list           *)
(* (SessionListPanel.tsx, CockpitView.tsx).                                 *)
THEOREM CockpitTypesCorrect == CockpitSpec => []CockpitTypeOK
<1>1. CockpitSpec => [](CockpitInv /\ CockpitTypes)
  BY CockpitTypesInitially, CockpitInitially, CockpitStep, CockpitTypesStep, PTL DEF CockpitSpec
<1> QED BY CockpitTypesAre, <1>1, PTL

-----------------------------------------------------------------------------
(* The types of the conversations page.                                    *)
ConversationsTyped ==
  /\ ConversationsTypeOK /\ listKnown \in SUBSET Conv

(* Each of the sorts makes a total order of the list. *)
LEMMA InListIsTotal ==
  /\ \A a \in Conv : ~InList(a, a)
  /\ \A a, b \in Conv : a # b => InList(a, b) \/ InList(b, a)
  /\ \A a, b, c \in Conv : InList(a, b) /\ InList(b, c) => InList(a, c)
<1>1. \A c \in Conv : c \in Int /\ Conversation[c].at \in Int /\ Conversation[c].project \in Int /\ Conversation[c].count \in Int
  BY ConversationsAssumption
<1>2. CASE sortOption = "recent"
  <2>1. \A a, b : ConversationPrecedes(sortOption, a, b) <=> Conversation[a].at > Conversation[b].at
    BY <1>2 DEF ConversationPrecedes
  <2> QED BY <1>1, <2>1 DEF InList
<1>3. CASE sortOption = "project"
  <2>1. \A a, b : ConversationPrecedes(sortOption, a, b) <=> Conversation[a].project < Conversation[b].project
    BY <1>3 DEF ConversationPrecedes
  <2> QED BY <1>1, <2>1 DEF InList
<1>4. CASE sortOption # "recent" /\ sortOption # "project"
  <2>1. \A a, b : ConversationPrecedes(sortOption, a, b) <=> Conversation[a].count > Conversation[b].count
    BY <1>4 DEF ConversationPrecedes
  <2> QED BY <1>1, <2>1 DEF InList
<1> QED BY <1>2, <1>3, <1>4

LEMMA FilteredAreKnown ==
  ASSUME ConversationsTyped
  PROVE  filteredConversations \in Seq(Conv) /\ Len(filteredConversations) \in Nat
<1> DEFINE S == ConversationsListed
           R == {p \in S \X S : ListedBefore(p[1], p[2])}
<1>1. S \subseteq Conv
  BY DEF ConversationsListed, ConversationsTyped
<1>2. IsFiniteSet(S)
  BY <1>1, ConversationsAssumption, FS_Subset
<1>3. \A a, b \in S : <<a, b>> \in R <=> ListedBefore(a, b)
  OBVIOUS
<1>4. /\ \A a \in S : ~ListedBefore(a, a)
      /\ \A a, b \in S : a # b => ListedBefore(a, b) \/ ListedBefore(b, a)
      /\ \A a, b, c \in S : ListedBefore(a, b) /\ ListedBefore(b, c) => ListedBefore(a, c)
  <2>1. CASE pageQuery \in foundFor
    <3> DEFINE n(a) == FoundConversations[pageQuery][a]
    <3>1. \A a \in S : n(a) \in Int
      <4>1. pageQuery \in DOMAIN FoundConversations
        BY <2>1 DEF ConversationsTyped, ConversationsTypeOK
      <4>2. S = listKnown \cap DOMAIN FoundConversations[pageQuery]
        BY <2>1, <4>1, ConversationsAssumption DEF ConversationsListed
      <4> HIDE DEF S
      <4> QED BY <1>1, <4>1, <4>2, ConversationsAssumption
    <3>2. \A a, b : ListedBefore(a, b) <=> IF n(a) # n(b) THEN n(a) > n(b) ELSE InList(a, b)
      BY <2>1 DEF ListedBefore
    <3> HIDE DEF n, S
    <3> QED BY <1>1, <3>1, <3>2, InListIsTotal
  <2>2. CASE pageQuery \notin foundFor
    <3>1. \A a, b : ListedBefore(a, b) <=> InList(a, b)
      BY <2>2 DEF ListedBefore
    <3> HIDE DEF S
    <3> QED BY <1>1, <3>1, InListIsTotal
  <2> QED BY <2>1, <2>2
<1>5. filteredConversations = Ranked(S, R)
  BY DEF filteredConversations
<1> HIDE DEF S, R
<1>6. OrdersTotally(R, S)
  BY <1>3, <1>4 DEF OrdersTotally
<1>7. Ranked(S, R) \in Seq(S)
  BY <1>2, <1>6, RankedLists
<1> QED BY <1>1, <1>5, <1>7

LEMMA ClickIsTyped ==
  ASSUME ConversationsTyped, NEW i \in DOMAIN filteredConversations, ClickConversation(i)
  PROVE  ConversationsTyped'
<1>1. filteredConversations[i] \in Conv
  BY FilteredAreKnown
<1>2. {} \in PageQuery
  BY DEF PageQuery
<1> QED BY <1>1, <1>2 DEF ClickConversation, handleConversationSelect, ConversationsTyped, ConversationsTypeOK

LEMMA ConversationsTypeStep == ConversationsTyped /\ [ConversationsNext]_conversationVars => ConversationsTyped'
<1> SUFFICES ASSUME ConversationsTyped, [ConversationsNext]_conversationVars PROVE ConversationsTyped'
  OBVIOUS
<1> DEFINE rows == filteredConversations
<1>1. rows \in Seq(Conv) /\ Len(rows) \in Nat /\ (rows # <<>> => Len(rows) > 0)
  BY FilteredAreKnown
<1>2. \A id : IndexOf(id) \in Int
  <2> SUFFICES ASSUME NEW id PROVE IndexOf(id) \in Int
    OBVIOUS
  <2> DEFINE at == {i \in DOMAIN rows : rows[i] = id}
  <2>1. \A i \in at : i \in Int
    BY <1>1
  <2>2. IndexOf(id) = IF at = {} THEN 0 ELSE CHOOSE i \in at : TRUE
    BY DEF IndexOf
  <2> HIDE DEF at
  <2> QED BY <2>1, <2>2
<1>3. CASE ConversationDown
  <2> DEFINE next == IndexOf(selectedId) + 1
             i == IF next > Len(rows) THEN Len(rows) ELSE next
  <2>1. rows # <<>> /\ ClickConversation(i)
    BY <1>3 DEF ConversationDown
  <2>2. IndexOf(selectedId) >= 0
    <3> DEFINE at == {j \in DOMAIN rows : rows[j] = selectedId}
    <3>1. \A j \in at : j \in Int /\ j >= 0
      BY <1>1
    <3>2. IndexOf(selectedId) = IF at = {} THEN 0 ELSE CHOOSE j \in at : TRUE
      BY DEF IndexOf
    <3> HIDE DEF at
    <3> QED BY <3>1, <3>2
  <2>3. i \in DOMAIN rows
    BY <1>1, <1>2, <2>1, <2>2
  <2> QED BY <2>1, <2>3, ClickIsTyped
<1>4. CASE ConversationUp
  <2> DEFINE prev == IndexOf(selectedId) - 1
             i == IF prev < 1 THEN 1 ELSE prev
  <2>1. rows # <<>> /\ ClickConversation(i)
    BY <1>4 DEF ConversationUp
  <2>2. IndexOf(selectedId) <= Len(rows)
    <3> DEFINE at == {j \in DOMAIN rows : rows[j] = selectedId}
    <3>1. \A j \in at : j \in Int /\ j <= Len(rows)
      BY <1>1
    <3>2. IndexOf(selectedId) = IF at = {} THEN 0 ELSE CHOOSE j \in at : TRUE
      BY DEF IndexOf
    <3> HIDE DEF at
    <3> QED BY <1>1, <3>1, <3>2
  <2>3. i \in DOMAIN rows
    BY <1>1, <1>2, <2>1, <2>2
  <2> QED BY <2>1, <2>3, ClickIsTyped
<1>5. ASSUME cycleSortOption \/ Widen PROVE ConversationsTyped'
  BY <1>5 DEF cycleSortOption, Widen, ConversationsTyped, ConversationsTypeOK
<1>6. CASE LoadPage
  <2>1. {} \in PageQuery
    BY DEF PageQuery
  <2> QED BY <1>6, <2>1 DEF LoadPage, PageMounts, SelectedByUrl, ConversationsTyped, ConversationsTypeOK
<1>7. ASSUME NEW q \in PageQuery, SearchConversations(q) PROVE ConversationsTyped'
  BY <1>7 DEF SearchConversations, ConversationsTyped, ConversationsTypeOK
<1>8. ASSUME NEW id \in Conv, NEW q \in DOMAIN FoundConversations, FollowResult(id, q) PROVE ConversationsTyped'
  <2>1. q \in PageQuery
    BY DEF PageQuery
  <2> QED BY <1>8, <2>1 DEF FollowResult, ConversationsTyped, ConversationsTypeOK
<1>9. ASSUME ListArrives \/ SearchArrives \/ MarkText PROVE ConversationsTyped'
  <2>1. {} \in PageQuery
    BY DEF PageQuery
  <2> QED BY <1>9, <2>1 DEF ListArrives, SearchArrives, MarkText, ConversationsTyped, ConversationsTypeOK
<1>10. CASE DetailArrives
  <2>1. loadedIds' \subseteq Conv /\ marking' \in {pageQuery, marking}
    BY <1>10 DEF DetailArrives, ConversationsTyped, ConversationsTypeOK
  <2> QED BY <1>10, <2>1 DEF DetailArrives, ConversationsTyped, ConversationsTypeOK
<1>11. CASE UNCHANGED conversationVars
  BY <1>11 DEF conversationVars, ConversationsTyped, ConversationsTypeOK
<1> QED BY <1>3, <1>4, <1>5, <1>6, <1>7, <1>8, <1>9, <1>10, <1>11, ClickIsTyped DEF ConversationsNext

LEMMA ConversationsTypesInitially == ConversationsInit => ConversationsTyped
BY DEF ConversationsInit, SelectedByUrl, ConversationsTyped, ConversationsTypeOK, PageQuery

LEMMA ConversationsTypesAre == ConversationsTyped => ConversationsTypeOK
BY DEF ConversationsTyped

(* The types: what is selected is a conversation, by whatever key, click,   *)
(* sort and answer (Conversations.tsx 189-238).                             *)
THEOREM ConversationsTypesCorrect == ConversationsSpec => []ConversationsTypeOK
BY ConversationsTypesInitially, ConversationsTypesAre, ConversationsTypeStep, PTL DEF ConversationsSpec

-----------------------------------------------------------------------------
(* The types of the workshop.                                              *)
(* A source can be chosen while one of the list has it. *)
WorkshopTypes ==
  /\ OnePerId(ToSet(extensions))
  /\ typeFilter \in TypeTab /\ sourceFilter \in Sources \union {"all"}
  /\ reindex \in {"idle", "posting", "refetching", "joining"}

LEMMA CountsAreOfCards ==
  ASSUME WorkshopInv, WorkshopTypes, statusFilter = "all", sourceFilter = "all", \A e : Passes(e) <=> typeFilter \in {"all", e.type}
  PROVE  typeCounts[typeFilter] = Len(filteredExtensions)
<1> DEFINE n == Len(extensions)
           rows == {i \in DOMAIN extensions : Passes(extensions[i])}
<1>1. n \in Nat /\ DOMAIN extensions = 1 .. n /\ IsFiniteSet(1 .. n) /\ Cardinality(1 .. n) = n
  BY CountsAreFinite DEF WorkshopInv
<1>2. rows \subseteq 1 .. n
  BY <1>1
<1>3. rows \in SUBSET Int /\ IsFiniteSet(rows)
  BY <1>1, <1>2, FS_Subset
<1>4. filteredExtensions = Kept(extensions, rows) /\ Len(filteredExtensions) = Cardinality(rows)
  BY <1>3, KeptLists DEF filteredExtensions
<1>5. typeFilter \in TypeTab
  BY DEF WorkshopTypes
<1>6. CASE typeFilter = "all"
  <2>1. rows = 1 .. n
    BY <1>1, <1>6
  <2>2. typeCounts[typeFilter] = n
    BY <1>5, <1>6 DEF typeCounts
  <2> HIDE DEF rows, n
  <2> QED BY <1>1, <1>4, <2>1, <2>2
<1>7. CASE typeFilter # "all"
  <2>1. rows = {i \in DOMAIN extensions : extensions[i].type = typeFilter}
    BY <1>7
  <2>2. typeCounts[typeFilter] = Cardinality({i \in DOMAIN extensions : extensions[i].type = typeFilter})
    BY <1>5, <1>7 DEF typeCounts
  <2> QED BY <1>4, <2>1, <2>2
<1> QED BY <1>6, <1>7

LEMMA WorkshopTypesKept ==
  ASSUME WorkshopTypes, UNCHANGED <<extensions, typeFilter, sourceFilter>>, reindex' \in {"idle", "posting", "refetching", "joining"}
  PROVE  WorkshopTypes'
BY DEF WorkshopTypes, OnePerId

LEMMA WorkshopTypesStep == WorkshopInv /\ WorkshopTypes /\ [WorkshopNext]_workshopVars => WorkshopTypes'
<1> SUFFICES ASSUME WorkshopInv, WorkshopTypes, [WorkshopNext]_workshopVars PROVE WorkshopTypes'
  OBVIOUS
<1>1. typeFilter \in TypeTab /\ sourceFilter \in Sources \union {"all"} /\ reindex \in {"idle", "posting", "refetching", "joining"}
  BY DEF WorkshopTypes
<1>2. availableSources \subseteq Sources /\ "all" \in TypeTab
  BY DEF availableSources, Sources, WorkshopInv, TypeTab
<1> USE DEF workshopServer, workshopFetch
<1>3. ASSUME NEW p, Clears \/ Saves(p) \/ OtherEnds \/ ServerLists PROVE WorkshopTypes'
  BY <1>1, <1>3, WorkshopTypesKept DEF Clears, Saves, OtherEnds, ServerLists, filterVars
<1>4. ASSUME EditDisk \/ RemoveFromDisk PROVE WorkshopTypes'
  BY <1>1, <1>4, WorkshopTypesKept DEF EditDisk, RemoveFromDisk, filterVars
<1>5. CASE ExtensionsArrive
  <2>1. extensions' = reply.list /\ OnePerId(ToSet(reply.list)) /\ UNCHANGED <<typeFilter, sourceFilter>> /\ reindex' \in {"posting", "idle"}
    BY <1>5 DEF ExtensionsArrive, Resolved, filterVars, WorkshopInv
  <2> QED BY <1>1, <2>1 DEF WorkshopTypes, OnePerId
<1>6. ASSUME NEW q, TypeSearch(q) \/ SearchSettles PROVE WorkshopTypes'
  BY <1>1, <1>6, WorkshopTypesKept DEF TypeSearch, SearchSettles
<1>7. ASSUME NEW t \in TypeTab, NEW s, NEW f \in Sources \union {"all"}, SetFilters(t, s, f) PROVE WorkshopTypes'
  BY <1>7 DEF SetFilters, WorkshopTypes, OnePerId
<1>8. CASE handleClearFilters
  BY <1>1, <1>7, <1>8 DEF handleClearFilters
<1>9. ASSUME NEW mode, handleViewModeChange(mode) PROVE WorkshopTypes'
  BY <1>1, <1>9, WorkshopTypesKept DEF handleViewModeChange, filterVars
<1>10. ASSUME NEW e, ShowInDrawer(e) PROVE WorkshopTypes'
  BY <1>1, <1>10, WorkshopTypesKept DEF ShowInDrawer, filterVars
<1>11. ASSUME NEW e, FollowRelated \/ CloseDetail \/ SelectExtension(e) PROVE WorkshopTypes'
  BY <1>10, <1>11 DEF FollowRelated, CloseDetail, SelectExtension
<1>12. ASSUME handleReindex \/ ReindexAnswered \/ ReindexFails \/ ExtensionsFail PROVE WorkshopTypes'
  BY <1>1, <1>12, WorkshopTypesKept DEF handleReindex, ReindexAnswered, ReindexFails, ExtensionsFail, Resolved, filterVars
<1>13. CASE ServerGoesOn
  BY <1>3, <1>5, <1>12, <1>13 DEF ServerGoesOn
<1>14. CASE ReloadWorkshop
  <2>1. extensions' = <<>> /\ typeFilter' = "all" /\ sourceFilter' = "all" /\ reindex' = "idle"
    BY <1>14 DEF ReloadWorkshop, WorkshopMounts
  <2> QED BY <1>2, <2>1 DEF WorkshopTypes, OnePerId, ToSet
<1>15. CASE UNCHANGED workshopVars
  BY <1>1, <1>15, WorkshopTypesKept DEF workshopVars, filterVars
<1> QED BY <1>1, <1>2, <1>4, <1>6, <1>7, <1>8, <1>9, <1>11, <1>12, <1>13, <1>14, <1>15 DEF WorkshopNext

LEMMA WorkshopTypesInitially == WorkshopInit => WorkshopTypes
<1> SUFFICES ASSUME WorkshopInit PROVE WorkshopTypes
  OBVIOUS
<1>1. extensions = <<>> /\ typeFilter = "all" /\ sourceFilter = "all" /\ reindex = "idle"
  BY DEF WorkshopInit
<1> QED BY <1>1 DEF WorkshopTypes, OnePerId, ToSet, TypeTab

LEMMA WorkshopTypesAre == WorkshopInv /\ WorkshopTypes => WorkshopTypeOK
<1> SUFFICES ASSUME WorkshopInv, WorkshopTypes PROVE WorkshopTypeOK
  OBVIOUS
<1>1. ASSUME ~hasActiveFilters, workshopQuery = "" PROVE typeCounts[typeFilter] = Len(filteredExtensions)
  <2>1. statusFilter = "all" /\ sourceFilter = "all"
    BY <1>1 DEF hasActiveFilters
  <2>2. \A e : Passes(e) <=> typeFilter \in {"all", e.type}
    BY <1>1, <2>1, Zenon DEF Passes
  <2> QED BY <2>1, <2>2, CountsAreOfCards
<1>2. ToSet(extensions) \subseteq Extension
  BY DEF WorkshopInv, ToSet
<1>3. scan.at \in Stages /\ otherScan.at \in Stages /\ reply.at \in Replies
  BY DEF WorkshopInv, Run
<1> QED BY <1>1, <1>2, <1>3, RelatedAreOthers, Zenon DEF WorkshopTypeOK, WorkshopInv, WorkshopTypes

(* The types; an extension is indexed and listed once, and the number on a  *)
(* tab is that of its cards while no other filter hides some                *)
(* (ExtensionWorkshop.tsx 46-107).                                          *)
THEOREM WorkshopTypesCorrect == WorkshopSpec => []WorkshopTypeOK
<1>1. WorkshopSpec => []WorkshopTypes
  BY WorkshopTypesInitially, WorkshopInvariant, WorkshopTypesStep, PTL DEF WorkshopSpec
<1> QED BY WorkshopTypesAre, <1>1, WorkshopInvariant, PTL

-----------------------------------------------------------------------------
(* The types of mission control.                                           *)
(* The cards were worked out at a time that has been, and the index is that *)
(* of a row of the whole table.                                            *)
MissionTypes ==
  /\ Known
  /\ time \in 0 .. LastTime /\ statsAt \in 0 .. time
  /\ activityFilter \in {"", "conversation", "todo", "plan"}
  /\ sortColumn \in {"", "project", "lastActivity"} /\ sortDirection \in {"asc", "desc"}
  /\ tableIndex \in 0 .. TableRows
  /\ navigated \in {s.id : s \in World} \union {NoRow, Undefined}

(* The rows of the table, before and after the search.                     *)
LEMMA TableHolds ==
  ASSUME Known
  PROVE  /\ sessionsData \in Seq(World) /\ Len(sessionsData) \in Nat /\ Len(sessionsData) <= TableRows
         /\ filteredData \in Seq(World) /\ Len(filteredData) \in Nat /\ Len(filteredData) <= TableRows
<1>1. StatesInTime(conversations) /\ IsFiniteSet(conversations) /\ TableRows \in Nat
  BY WorldAssumption, TableAssumption, StatesOfPart DEF Known, StatesInTime
<1>2. NewestFirst(conversations) \in Seq(conversations)
  BY <1>1, LaterIsTotal, RankedLists DEF NewestFirst
<1>3. /\ FirstOf(NewestFirst(conversations), TableRows) \in Seq(conversations)
      /\ Len(FirstOf(NewestFirst(conversations), TableRows)) <= TableRows
  BY <1>1, <1>2, FirstAreOf
<1>4. sessionsData \in Seq(conversations) /\ Len(sessionsData) \in Nat /\ Len(sessionsData) <= TableRows
  BY <1>3 DEF sessionsData
<1>5. sessionsData \in Seq(World)
  BY <1>4 DEF Known
<1> DEFINE n == Len(sessionsData)
           rows == {i \in DOMAIN sessionsData : tableQuery \in {0, sessionsData[i].project}}
<1>6. n \in Nat /\ DOMAIN sessionsData = 1 .. n /\ IsFiniteSet(1 .. n) /\ Cardinality(1 .. n) = n
  BY <1>5, CountsAreFinite
<1>7. rows \subseteq 1 .. n
  BY <1>6
<1>8. rows \in SUBSET Int /\ IsFiniteSet(rows) /\ Cardinality(rows) <= n
  BY <1>6, <1>7, FS_Subset
<1>9. Cardinality(rows) \in Nat /\ Kept(sessionsData, rows) \in Seq({sessionsData[i] : i \in rows}) /\ Len(Kept(sessionsData, rows)) = Cardinality(rows)
  BY <1>8, KeptLists
<1>10. {sessionsData[i] : i \in rows} \subseteq World
  BY <1>5
<1>11. filteredData = Kept(sessionsData, rows)
  BY DEF filteredData
<1> HIDE DEF rows
<1>12. filteredData \in Seq(World) /\ Len(filteredData) = Cardinality(rows)
  BY <1>9, <1>10, <1>11
<1> QED BY <1>1, <1>4, <1>5, <1>8, <1>9, <1>12

(* A column and a direction make a total order of the rows.                *)
LEMMA RowsAreOrdered ==
  ASSUME Known, sortDirection \in {"asc", "desc"}
  PROVE  LET rows == DOMAIN filteredData IN OrdersTotally({p \in rows \X rows : RowBefore(p[1], p[2])}, rows)
<1> DEFINE rows == DOMAIN filteredData
           R == {p \in rows \X rows : RowBefore(p[1], p[2])}
           key(i) == IF sortColumn = "project" THEN filteredData[i].project ELSE LocaleRank[filteredData[i].last]
<1>1. \A i \in rows : i \in Int /\ key(i) \in Int
  BY TableHolds, TableAssumption
<1>2. \A i, j : RowPrecedes(filteredData[i], filteredData[j]) <=> key(i) < key(j)
  BY DEF RowPrecedes
<1>3. \A i, j : RowBefore(i, j) <=> \/ sortDirection = "asc" /\ key(i) < key(j)
                                    \/ sortDirection = "desc" /\ key(j) < key(i)
                                    \/ ~(key(i) < key(j)) /\ ~(key(j) < key(i)) /\ i < j
  BY <1>2 DEF RowBefore
<1>4. \A i, j \in rows : <<i, j>> \in R <=> RowBefore(i, j)
  OBVIOUS
<1> HIDE DEF rows, R, key
<1>5. /\ \A i \in rows : ~RowBefore(i, i)
      /\ \A i, j \in rows : i # j => RowBefore(i, j) \/ RowBefore(j, i)
      /\ \A i, j, k \in rows : RowBefore(i, j) /\ RowBefore(j, k) => RowBefore(i, k)
  <2>1. CASE sortDirection = "asc"
    BY <1>1, <1>3, <2>1
  <2>2. CASE sortDirection = "desc"
    BY <1>1, <1>3, <2>2
  <2> QED BY <2>1, <2>2
<1>6. OrdersTotally(R, rows)
  BY <1>4, <1>5 DEF OrdersTotally
<1> QED BY <1>6 DEF R, rows

LEMMA SortedHolds ==
  ASSUME Known, sortDirection \in {"asc", "desc"}
  PROVE  sortedData \in Seq(World) /\ Len(sortedData) \in Nat /\ Len(sortedData) <= TableRows
<1> DEFINE rows == DOMAIN filteredData
           R == {p \in rows \X rows : RowBefore(p[1], p[2])}
           order == Ranked(rows, R)
           n == Len(filteredData)
<1>1. n \in Nat /\ n <= TableRows /\ filteredData \in [1 .. n -> World] /\ filteredData \in Seq(World) /\ rows = 1 .. n
  BY TableHolds
<1>2. IsFiniteSet(rows) /\ Cardinality(rows) = n
  BY <1>1, CountsAreFinite
<1>3. OrdersTotally(R, rows)
  BY RowsAreOrdered
<1> HIDE DEF rows, R
<1>4. order \in [1 .. n -> rows]
  BY <1>2, <1>3, RankedLists
<1>5. sortedData = IF sortColumn = "" THEN filteredData ELSE [i \in DOMAIN order |-> filteredData[order[i]]]
  BY Zenon DEF sortedData, rows, R
<1> HIDE DEF order
<1>6. [i \in DOMAIN order |-> filteredData[order[i]]] \in [1 .. n -> World]
  BY <1>1, <1>4
<1> DEFINE other == [i \in DOMAIN order |-> filteredData[order[i]]]
<1>7. other \in Seq(World) /\ Len(other) = n
  <2> HIDE DEF other
  <2>1. other \in [1 .. n -> World]
    BY <1>6 DEF other
  <2> QED BY <1>1, <2>1
<1>8. sortedData = filteredData \/ sortedData = other
  BY <1>5, Zenon
<1> HIDE DEF other
<1> QED BY <1>1, <1>7, <1>8

(* A percentage is not below minus one hundred.                            *)
LEMMA TrendIsBounded ==
  ASSUME NEW a \in Nat, NEW p \in Nat, p > 0
  PROVE  ((a - p) * 100) \div p \in Int /\ ((a - p) * 100) \div p >= -100
<1> DEFINE x == (a - p) * 100
           q == x \div p
<1>1. x \in Int /\ x >= (-100) * p
  OBVIOUS
<1>2. q \in Int /\ x = p * q + (x % p) /\ x % p \in 0 .. p - 1
  OBVIOUS
<1> HIDE DEF q, x
<1>3. SUFFICES ASSUME q <= -101 PROVE FALSE
  BY <1>2 DEF q, x
<1>4. p * q <= p * (-101)
  BY <1>2, <1>3
<1>5. p * (-101) = (-100) * p - p
  OBVIOUS
<1> QED BY <1>1, <1>2, <1>4, <1>5

LEMMA CardsAgree == ASSUME MissionTypes PROVE conversationsTotal >= sessionsLast24h /\ sessionsTrend >= -100
<1> DEFINE day == {c \in conversations : c.last >= statsAt - Day /\ c.last <= statsAt}
           before == {c \in conversations : In(c, statsAt - 2 * Day, statsAt - Day)}
           week == {c \in conversations : c.last >= statsAt - 7 * Day}
<1>1. IsFiniteSet(conversations) /\ \A c \in conversations : c.last \in Nat
  BY WorldAssumption, StatesOfPart DEF MissionTypes, Known, StatesInTime
<1>2. day \subseteq week
  <2>1. time \in 0 .. LastTime /\ statsAt \in 0 .. time
    BY Zenon DEF MissionTypes
  <2>2. statsAt \in Nat /\ Day \in Nat
    BY <2>1, TableAssumption
  <2> QED BY <1>1, <2>2
<1>3. IsFiniteSet(day) /\ IsFiniteSet(before) /\ IsFiniteSet(week)
  BY <1>1, FS_Subset
<1>4. sessionsLast24h = Cardinality(day) /\ sessionsPrev24h = Cardinality(before) /\ conversationsTotal = Cardinality(week)
  BY DEF sessionsLast24h, sessionsPrev24h, conversationsTotal
<1> HIDE DEF day, before, week
<1>5. sessionsLast24h \in Nat /\ sessionsPrev24h \in Nat
  BY <1>3, <1>4, FS_CardinalityType
<1>6. conversationsTotal >= sessionsLast24h
  <2>1. Cardinality(day) <= Cardinality(week) /\ Cardinality(day) \in Nat /\ Cardinality(week) \in Nat
    BY <1>2, <1>3, FS_Subset, FS_CardinalityType
  <2> QED BY <1>4, <2>1
<1>7. sessionsTrend >= -100
  <2>1. CASE sessionsPrev24h > 0
    BY <1>5, <2>1, TrendIsBounded DEF sessionsTrend
  <2>2. CASE ~(sessionsPrev24h > 0)
    BY <2>2 DEF sessionsTrend
  <2> QED BY <2>1, <2>2
<1> QED BY <1>6, <1>7

LEMMA FeedIsFiltered == ASSUME Known PROVE Range(FeedShown) \subseteq Range(activityEvents)
<1> DEFINE rows == {i \in DOMAIN activityEvents : activityFilter \in {"", activityEvents[i].type}}
<1>1. PICK n \in Nat : DOMAIN activityEvents = 1 .. n
  BY KnownHoldsNewest
<1>2. IsFiniteSet(1 .. n) /\ rows \subseteq 1 .. n
  BY <1>1, CountsAreFinite, Zenon
<1>3. FeedShown = Kept(activityEvents, rows)
  BY Zenon DEF FeedShown
<1> HIDE DEF rows
<1>4. IsFiniteSet(rows) /\ rows \in SUBSET Int
  <2>1. IsFiniteSet(rows)
    BY <1>2, FS_Subset
  <2>2. 1 .. n \subseteq Int
    OBVIOUS
  <2> QED BY <1>2, <2>1, <2>2
<1>5. /\ DOMAIN FeedShown = 1 .. Cardinality(rows)
      /\ \A k \in 1 .. Cardinality(rows) : \E i \in rows : FeedShown[k] = activityEvents[i]
  BY <1>3, <1>4, KeptLists
<1> QED BY <1>1, <1>2, <1>5 DEF Range

LEMMA MissionTypesStep == MissionTypes /\ [MissionNext]_missionVars => MissionTypes'
<1> SUFFICES ASSUME MissionTypes, [MissionNext]_missionVars PROVE MissionTypes'
  OBVIOUS
<1> DEFINE filtered == activityFilter \in {"", "conversation", "todo", "plan"}
           sorted == sortColumn \in {"", "project", "lastActivity"}
<1>1. Known' /\ Known
  BY KnownStep DEF MissionTypes
<1>2. /\ time \in 0 .. LastTime /\ statsAt \in 0 .. time /\ filtered /\ sorted /\ sortDirection \in {"asc", "desc"}
      /\ tableIndex \in 0 .. TableRows /\ navigated \in {s.id : s \in World} \union {NoRow, Undefined}
  BY Zenon DEF MissionTypes
<1>3. LastTime \in Nat /\ TableRows \in Nat /\ time \in Nat /\ statsAt \in Nat
  <2>1. time \in 0 .. LastTime /\ statsAt \in 0 .. time
    BY Zenon DEF MissionTypes
  <2> QED BY <2>1, TableAssumption
<1>4. ASSUME filtered', sorted', sortDirection' \in {"asc", "desc"}, time' \in 0 .. LastTime, statsAt' \in 0 .. time',
             tableIndex' \in 0 .. TableRows, navigated' \in {s.id : s \in World} \union {NoRow, Undefined}
      PROVE  MissionTypes'
  BY <1>1, <1>4, Zenon DEF MissionTypes
<1> HIDE DEF filtered, sorted
<1>5. CASE TimeGoesBy
  <2>1. time' = time + 1 /\ time < LastTime /\ UNCHANGED <<statsAt, activityFilter, tableVars>>
    BY <1>5 DEF TimeGoesBy
  <2>2. time' \in 0 .. LastTime /\ statsAt' \in 0 .. time'
    BY <1>2, <1>3, <2>1
  <2> QED BY <1>2, <1>4, <2>1, <2>2 DEF tableVars, filtered, sorted
<1>6. CASE ConversationsAnswered
  <2>1. statsAt' \in {statsAt, time} /\ UNCHANGED <<time, activityFilter, tableVars>>
    BY <1>6 DEF ConversationsAnswered
  <2>2. statsAt' \in 0 .. time'
    BY <1>2, <1>3, <2>1
  <2> QED BY <1>2, <1>4, <2>1, <2>2 DEF tableVars, filtered, sorted
<1>7. ASSUME TodosAnswered \/ PlansAnswered PROVE MissionTypes'
  <2>1. UNCHANGED <<time, statsAt, activityFilter, tableVars>>
    BY <1>7 DEF TodosAnswered, PlansAnswered
  <2> QED BY <1>2, <1>4, <2>1 DEF tableVars, filtered, sorted
<1>8. ASSUME NEW kind \in {"", "conversation", "todo", "plan"}, setActivityFilter(kind) PROVE MissionTypes'
  <2>1. filtered' /\ UNCHANGED <<time, statsAt, tableVars>>
    BY <1>8, Zenon DEF setActivityFilter, filtered
  <2> QED BY <1>2, <1>4, <2>1 DEF tableVars, sorted
<1>9. ASSUME NEW project, setSearchQuery(project) PROVE MissionTypes'
  <2>1. UNCHANGED <<time, statsAt, activityFilter, sortColumn, sortDirection, tableIndex, navigated>>
    BY <1>9 DEF setSearchQuery
  <2> QED BY <1>2, <1>4, <2>1 DEF filtered, sorted
<1>10. ASSUME NEW column \in {"project", "lastActivity"}, handleSort(column) PROVE MissionTypes'
  <2>1. sortDirection' \in {"asc", "desc"} /\ sortColumn' = column /\ UNCHANGED <<time, statsAt, activityFilter, tableIndex, navigated>>
    BY <1>10 DEF handleSort
  <2>2. sorted'
    BY <2>1, Zenon DEF sorted
  <2> QED BY <1>2, <1>4, <2>1, <2>2 DEF filtered
<1>11. sortedData \in Seq(World) /\ Len(sortedData) \in Nat /\ Len(sortedData) <= TableRows /\ DOMAIN sortedData = 1 .. Len(sortedData)
  BY <1>1, <1>2, SortedHolds
<1>12. ASSUME NEW i \in DOMAIN sortedData, TableClick(i) PROVE MissionTypes'
  <2>1. i \in 0 .. TableRows /\ sortedData[i] \in World
    BY <1>3, <1>11
  <2>2. tableIndex' = i /\ navigated' = sortedData[i].id /\ UNCHANGED <<time, statsAt, activityFilter, sortColumn, sortDirection>>
    BY <1>12 DEF TableClick
  <2> QED BY <1>2, <1>4, <2>1, <2>2 DEF filtered, sorted
<1>13. ASSUME NEW step \in {1, -1}, TableArrow(step) PROVE MissionTypes'
  <2>1. sortedData # <<>> /\ UNCHANGED <<time, statsAt, activityFilter, sortColumn, sortDirection, navigated>>
    BY <1>13 DEF TableArrow, TableKeys
  <2>2. tableIndex' = IF step = 1
                        THEN IF tableIndex < Len(sortedData) THEN tableIndex + 1 ELSE Len(sortedData)
                        ELSE IF tableIndex > 1 THEN tableIndex - 1 ELSE 1
    BY <1>13 DEF TableArrow
  <2>3. Len(sortedData) > 0
    BY <1>11, <2>1
  <2>4. tableIndex' \in 0 .. TableRows
    BY <1>2, <1>3, <1>11, <2>2, <2>3
  <2> QED BY <1>2, <1>4, <2>1, <2>4 DEF filtered, sorted
<1>14. CASE TableEnter
  <2>1. navigated' \in {s.id : s \in World} \union {NoRow, Undefined}
    <3>1. \A i \in DOMAIN sortedData : sortedData[i] \in World
      BY <1>11
    <3> QED BY <1>14, <3>1 DEF TableEnter
  <2>2. UNCHANGED <<time, statsAt, activityFilter, sortColumn, sortDirection, tableIndex>>
    BY <1>14 DEF TableEnter
  <2> QED BY <1>2, <1>4, <2>1, <2>2 DEF filtered, sorted
<1>15. CASE UNCHANGED missionVars
  BY <1>2, <1>4, <1>15 DEF missionVars, filtered, sorted
<1> QED BY <1>5, <1>6, <1>7, <1>8, <1>9, <1>10, <1>12, <1>13, <1>14, <1>15 DEF MissionNext

LEMMA MissionTypesInitially == MissionInit => MissionTypes
<1> SUFFICES ASSUME MissionInit PROVE MissionTypes
  OBVIOUS
<1>0. time = 0 /\ statsAt = 0 /\ tableIndex = 0 /\ conversations = {} /\ todoFiles = {} /\ planFiles = {}
  BY Zenon DEF MissionInit
<1>1. Known /\ time \in 0 .. LastTime /\ statsAt \in 0 .. time /\ tableIndex \in 0 .. TableRows
  BY <1>0, TableAssumption DEF Known
<1>2. /\ activityFilter \in {"", "conversation", "todo", "plan"} /\ sortColumn \in {"", "project", "lastActivity"}
      /\ sortDirection \in {"asc", "desc"} /\ navigated \in {s.id : s \in World} \union {NoRow, Undefined}
  BY Zenon DEF MissionInit
<1> QED BY <1>1, <1>2, Zenon DEF MissionTypes

LEMMA MissionTypesAre == MissionTypes => MissionTypeOK
<1> SUFFICES ASSUME MissionTypes PROVE MissionTypeOK
  OBVIOUS
<1>1. conversations \subseteq World /\ todoFiles \subseteq TodoWorld /\ planFiles \subseteq PlanWorld /\ Known
  BY DEF MissionTypes, Known
<1> QED BY <1>1, CardsAgree, FeedIsFiltered, Zenon DEF MissionTypeOK, MissionTypes

(* The types; the cards agree with each other, the filter of the feed only  *)
(* leaves out, and the index is that of a row of the whole table            *)
(* (MissionControl.tsx 59-111, 303-325, DataList.tsx 154-188).              *)
THEOREM MissionTypesCorrect == MissionSpec => []MissionTypeOK
<1>1. MissionSpec => []MissionTypes
  BY MissionTypesInitially, MissionTypesStep, PTL DEF MissionSpec
<1> QED BY MissionTypesAre, <1>1, PTL

-----------------------------------------------------------------------------
(* The types of the token page.                                            *)
(* What a query of a range may be.                                          *)
AnswerKind == {"none", "pending", "data", "error"}

TokenTypes ==
  /\ tokenRange \in TokenRange
  /\ answers \in [TokenRange -> [Query -> AnswerKind]]
  /\ pageShown \in {"full", "alert", "none"}
  /\ pageFailed \in BOOLEAN /\ showAll \in BOOLEAN
  /\ timeView \in {"daily", "hourly"} /\ viewMode \in {"stacked", "total"}

LEMMA AskedAreAnswers ==
  ASSUME NEW of \in [Query -> AnswerKind], NEW qs
  PROVE  AskedOf(of, qs) \in [Query -> AnswerKind]
BY DEF AskedOf, AnswerKind

LEMMA RenderedIsPage ==
  ASSUME Render
  PROVE  pageShown' \in {"full", "alert", "none"} /\ pageFailed' \in BOOLEAN
BY DEF Render

LEMMA ChartsAreReset ==
  ASSUME TokenTypes, ResetCharts
  PROVE  timeView' \in {"daily", "hourly"} /\ viewMode' \in {"stacked", "total"}
BY DEF TokenTypes, ResetCharts

LEMMA TokenTypesStep == TokenTypes /\ [TokenNext]_tokenVars => TokenTypes'
<1> SUFFICES ASSUME TokenTypes, [TokenNext]_tokenVars PROVE TokenTypes'
  OBVIOUS
<1> USE DEF TokenTypes
<1>1. ASSUME NEW r \in TokenRange, NEW q \in Query, NEW value \in {"data", "error"}, QueryEnds(r, q, value) PROVE TokenTypes'
  <2>1. answers' \in [TokenRange -> [Query -> AnswerKind]]
    BY <1>1 DEF QueryEnds, WithConversations, AnswerKind
  <2>2. pageShown' \in {"full", "alert", "none"} /\ pageFailed' \in BOOLEAN
    BY <1>1, RenderedIsPage DEF QueryEnds
  <2>3. timeView' \in {"daily", "hourly"} /\ viewMode' \in {"stacked", "total"}
    BY <1>1, ChartsAreReset DEF QueryEnds
  <2> QED BY <1>1, <2>1, <2>2, <2>3 DEF QueryEnds
<1>2. ASSUME NEW r \in TokenRange, ChooseRange(r) PROVE TokenTypes'
  <2>1. answers' \in [TokenRange -> [Query -> AnswerKind]]
    BY <1>2, AskedAreAnswers DEF ChooseRange
  <2>2. pageShown' \in {"full", "alert", "none"} /\ pageFailed' \in BOOLEAN
    BY <1>2, RenderedIsPage DEF ChooseRange
  <2>3. timeView' \in {"daily", "hourly"} /\ viewMode' \in {"stacked", "total"}
    BY <1>2, ChartsAreReset DEF ChooseRange
  <2> QED BY <1>2, <2>1, <2>2, <2>3 DEF ChooseRange
<1>3. CASE RetryPage
  <2> DEFINE asked == AskedOf(answers[tokenRange], Query)
  <2>1. asked \in [Query -> AnswerKind]
    BY AskedAreAnswers
  <2>2. answers' = [WithConversations(answers, asked["conversations"]) EXCEPT ![tokenRange] = asked]
    BY <1>3 DEF RetryPage
  <2>3. WithConversations(answers, asked["conversations"]) \in [TokenRange -> [Query -> AnswerKind]]
    <3> HIDE DEF asked
    <3>1. asked["conversations"] \in AnswerKind
      BY <2>1 DEF Query
    <3> QED BY <3>1 DEF WithConversations
  <2>4. answers' \in [TokenRange -> [Query -> AnswerKind]]
    <3> HIDE DEF asked
    <3> QED BY <2>1, <2>2, <2>3
  <2> QED BY <1>3, <2>4 DEF RetryPage
<1>4. ASSUME NEW v \in {"daily", "hourly"}, SetTimeView(v) PROVE TokenTypes'
  BY <1>4 DEF SetTimeView
<1>5. ASSUME NEW v \in {"stacked", "total"}, SetViewMode(v) PROVE TokenTypes'
  BY <1>5 DEF SetViewMode
<1>6. CASE ToggleShowAll
  BY <1>6 DEF ToggleShowAll
<1>7. CASE UNCHANGED tokenVars
  BY <1>7 DEF tokenVars
<1> QED BY <1>1, <1>2, <1>3, <1>4, <1>5, <1>6, <1>7 DEF TokenNext

LEMMA TokenTypesAre == TokenTypes => TokenTypeOK
<1> SUFFICES ASSUME TokenTypes PROVE TokenTypeOK
  OBVIOUS
<1>1. showAll => visibleAnomalies(dailyStats) = anomalies(dailyStats)
  BY DEF visibleAnomalies
<1> QED BY <1>1, Zenon DEF TokenTypeOK, TokenTypes, AnswerKind

LEMMA TokenTypesInitially == TokenInit => TokenTypes
<1> SUFFICES ASSUME TokenInit PROVE TokenTypes
  OBVIOUS
<1>1. answers \in [TokenRange -> [Query -> AnswerKind]]
  <2>1. answers = [r \in TokenRange |-> [q \in Query |-> IF q = "conversations" \/ r = tokenRange THEN "pending" ELSE "none"]]
    BY DEF TokenInit
  <2> QED BY <2>1 DEF AnswerKind
<1> QED BY <1>1 DEF TokenInit, TokenTypes

(* The types; "Show more" shows every alert (AnomalyAlerts.tsx).            *)
THEOREM TokenTypesCorrect == TokenSpec => []TokenTypeOK
<1>1. TokenSpec => []TokenTypes
  BY TokenTypesInitially, TokenTypesStep, PTL DEF TokenSpec
<1> QED BY <1>1, TokenTypesAre, PTL
=============================================================================
