----------------------------- MODULE LegacyShell -----------------------------
(***************************************************************************)
(* The shell of the legacy pages: the layout with its sidebar              *)
(* (legacy-router.tsx), the search state (SearchContext.tsx), the search   *)
(* bar and the dropdown with the results of every kind                     *)
(* (EverythingDropdown.tsx).  A step is one event of the browser together  *)
(* with the renders and effects it causes: React flushes them before the   *)
(* next event.  What survives from one render to a later one is kept: the  *)
(* keydown listener of the dropdown holds the list, the index and the      *)
(* query of the render that registered it.                                 *)
(***************************************************************************)
EXTENDS Naturals, Integers, Sequences, SequencesExt, Arrays

CONSTANTS LongQuery,   \* queries of two characters or more
          ShellResults,     \* the server's answer: [LongQuery -> [Kind -> Seq(item)]]
          NoTarget

Kinds == <<"request", "conversation", "extension", "todo", "plan">>
Kind == ToSet(Kinds)
DropdownTab == Kind \union {"all"}
ShellQuery == LongQuery \union {"", "x"}     \* "x" stands for one character

Paths == {"home", "requests", "request", "conversations", "conversation", "extensions", "session-data"}
SidebarItem == {"home", "requests", "conversations", "extensions", "session-data"}

ASSUME QueriesAssumption == LongQuery # {} /\ {"", "x"} \cap LongQuery = {} /\ NoTarget # "everything"

ASSUME ResultsAssumption ==
  /\ \A q \in LongQuery, k \in Kind : ShellResults[q][k] \in Seq(ToSet(ShellResults[q][k]))
  /\ \A q \in LongQuery, k \in Kind : \A i \in DOMAIN ShellResults[q][k] :
       /\ ShellResults[q][k][i].kind = k
       /\ ShellResults[q][k][i].matches \in Nat /\ ShellResults[q][k][i].at \in Nat

VARIABLES path, activeItem,             \* the route, and the entry the sidebar highlights
          shellQuery, override, everythingOpen, focused,         \* SearchProvider
          showDropdown,                                     \* SearchBar
          dropdownTab, selected, listener,                          \* EverythingDropdown
          askedQuery, answered,                                  \* react-query: ['unified-search', q]
          openedPath                                            \* the last result opened

searchState == <<shellQuery, override, everythingOpen, focused>>
dropdown == <<showDropdown, dropdownTab, selected, listener>>
shellVars == <<path, activeItem, searchState, dropdown, askedQuery, answered, openedPath>>

(* deriveScopeFromRoute *)
AutoScope(p) ==
  CASE p = "conversations" -> "conversations"
    [] p = "conversation" -> "this-session"
    [] p \in {"requests", "request"} -> "requests"
    [] OTHER -> "everything"

Scope == IF override # NoTarget THEN override ELSE AutoScope(path)

(* The sidebar entry of a path: its first segment. *)
Segment(p) == CASE p = "request" -> "requests" [] p = "conversation" -> "conversations" [] OTHER -> p

(* allVisibleResults: the kinds of the tab one after the other, then a      *)
(* stable sort by number of matches and recency, both descending.           *)
KindAnswers(q, t, k) == IF t \in {"all", k} THEN ShellResults[q][k] ELSE <<>>

Collected(q, t) == KindAnswers(q, t, Kinds[1]) \o KindAnswers(q, t, Kinds[2]) \o KindAnswers(q, t, Kinds[3]) \o KindAnswers(q, t, Kinds[4]) \o KindAnswers(q, t, Kinds[5])

Ahead(s, i, j) ==
  \/ s[i].matches > s[j].matches
  \/ s[i].matches = s[j].matches /\ (s[i].at > s[j].at \/ (s[i].at = s[j].at /\ i < j))

BestFirst(s, rows) == {p \in rows \X rows : Ahead(s, p[1], p[2])}

Sorted(s) ==
  LET order == Ranked(DOMAIN s, BestFirst(s, DOMAIN s))
  IN  [i \in DOMAIN s |-> s[order[i]]]

Visible(q, t, done) == IF q \in done THEN Sorted(Collected(q, t)) ELSE <<>>

ShellShown == Visible(shellQuery, dropdownTab, answered)

(* getTabCount: a tab without results has no button. *)
TabCount(t) == IF shellQuery \in answered THEN Len(Collected(shellQuery, t)) ELSE 0

ResultUrlToPlugin(item, q) ==      \* faulty variant: a path the legacy router does not have
  CASE item.kind = "conversation" -> [path |-> "conversation", query |-> q]
    [] item.kind = "request" -> [path |-> "request", query |-> q]
    [] item.kind = "extension" -> [path |-> "plugin", query |-> ""]
    [] OTHER -> [path |-> "session-data", query |-> ""]

(* getResultUrl: only conversations and requests keep the query. *)
ResultUrl(item, q) ==
  CASE item.kind = "conversation" -> [path |-> "conversation", query |-> q]
    [] item.kind = "request" -> [path |-> "request", query |-> q]
    [] item.kind = "extension" -> [path |-> "extensions", query |-> ""]
    [] OTHER -> [path |-> "session-data", query |-> ""]

ShellInit ==
  /\ path \in Paths /\ activeItem = Segment(path)
  /\ shellQuery = "" /\ override = NoTarget /\ everythingOpen = FALSE /\ focused = FALSE
  /\ showDropdown = FALSE /\ dropdownTab = "all" /\ selected = 0 /\ listener = NoTarget
  /\ askedQuery = {} /\ answered = {} /\ openedPath = NoTarget

-----------------------------------------------------------------------------
(* What the registered listener closes over. *)
Listener(i, q, t, done) == [index |-> i, list |-> Visible(q, t, done), query |-> q]

DropdownKeepingIndex(shown, q, t, i, done) ==      \* faulty variant: no reset when the results change
  /\ showDropdown' = shown
  /\ askedQuery' = askedQuery \union (IF shown THEN {q} ELSE {})
  /\ dropdownTab' = IF shown /\ showDropdown THEN t ELSE "all"
  /\ selected' = IF shown /\ showDropdown THEN i ELSE 0
  /\ listener' = IF shown THEN Listener(selected', q, dropdownTab', done) ELSE NoTarget

(* The dropdown after a render with query q, tab t, index i and the answers *)
(* done: it mounts afresh, keeps its state, or unmounts.  The index returns *)
(* to 0 when the length changed, and the listener is registered again when  *)
(* the index or the length changed.                                         *)
Dropdown(shown, q, t, i, done) ==
  /\ showDropdown' = shown
  /\ askedQuery' = askedQuery \union (IF shown THEN {q} ELSE {})
  /\ \/ /\ ~shown
        /\ dropdownTab' = "all" /\ selected' = 0 /\ listener' = NoTarget
     \/ /\ shown /\ ~showDropdown
        /\ dropdownTab' = "all" /\ selected' = 0 /\ listener' = Listener(0, q, "all", done)
     \/ /\ shown /\ showDropdown
        /\ LET resized == Len(Visible(q, t, done)) # Len(ShellShown) IN
             /\ dropdownTab' = t
             /\ selected' = IF resized THEN 0 ELSE i
             /\ listener' = IF resized \/ i # selected
                              THEN Listener(selected', q, t, done)
                              ELSE listener

(* SearchBar's effect runs only when the query or isEverythingOpen changed. *)
ShowAfter(q, open) ==
  IF q = shellQuery /\ open = everythingOpen THEN showDropdown ELSE open /\ q \in LongQuery

(* Typing in the bar.  The provider closes everything when the query is empty. *)
TypeInBar(q) ==
  /\ q # shellQuery
  /\ shellQuery' = q /\ focused' = TRUE
  /\ everythingOpen' = (everythingOpen /\ q # "")
  /\ Dropdown(ShowAfter(q, everythingOpen'), q, dropdownTab, selected, answered)
  /\ UNCHANGED <<path, activeItem, override, answered, openedPath>>

(* clearSearch with resetScope; the button is there while there is a query. *)
ResetSearch ==
  /\ shellQuery' = "" /\ override' = NoTarget /\ everythingOpen' = FALSE
  /\ Dropdown(FALSE, "", dropdownTab, selected, answered)

ClearSearch ==
  /\ shellQuery # ""
  /\ ResetSearch
  /\ UNCHANGED <<path, activeItem, focused, answered, openedPath>>

(* The scope chip, or Cmd+Shift+K. *)
OpenEverything ==
  /\ override' = "everything" /\ everythingOpen' = TRUE /\ focused' = TRUE
  /\ Dropdown(ShowAfter(shellQuery, TRUE), shellQuery, dropdownTab, selected, answered)
  /\ UNCHANGED <<path, activeItem, shellQuery, answered, openedPath>>

(* The chip's x, there while the scope is overridden. *)
ResetScope ==
  /\ override # NoTarget
  /\ override' = NoTarget /\ everythingOpen' = FALSE
  /\ Dropdown(ShowAfter(shellQuery, FALSE), shellQuery, dropdownTab, selected, answered)
  /\ UNCHANGED <<path, activeItem, shellQuery, focused, answered, openedPath>>

(* Cmd+K and "/". *)
FocusBar ==
  /\ ~focused /\ focused' = TRUE
  /\ UNCHANGED <<path, activeItem, shellQuery, override, everythingOpen, dropdown, askedQuery, answered, openedPath>>

ClickOutside ==
  /\ showDropdown \/ focused
  /\ focused' = FALSE
  /\ Dropdown(FALSE, shellQuery, dropdownTab, selected, answered)
  /\ UNCHANGED <<path, activeItem, shellQuery, override, everythingOpen, answered, openedPath>>

(* Escape: the dropdown's listener on the document closes it, then the      *)
(* provider's listener on the window clears the search if the bar is focused. *)
Escape ==
  /\ showDropdown \/ focused
  /\ focused' = FALSE
  /\ IF focused
       THEN ResetSearch
       ELSE Dropdown(FALSE, shellQuery, dropdownTab, selected, answered) /\ UNCHANGED <<shellQuery, override, everythingOpen>>
  /\ UNCHANGED <<path, activeItem, answered, openedPath>>

Arrow(i) ==
  /\ showDropdown
  /\ Dropdown(TRUE, shellQuery, dropdownTab, i, answered)
  /\ UNCHANGED <<path, activeItem, searchState, answered, openedPath>>

Smaller(a, b) == IF a < b THEN a ELSE b

ArrowDown == showDropdown /\ Arrow(Smaller(selected + 1, Len(listener.list) - 1))
ArrowUp == Arrow(IF selected > 0 THEN selected - 1 ELSE 0)

ClickTab(t) ==
  /\ showDropdown /\ TabCount(t) > 0
  /\ Dropdown(TRUE, shellQuery, t, selected, answered)
  /\ UNCHANGED <<path, activeItem, searchState, answered, openedPath>>

(* handleSelectResult: navigate, resetScope, onClose. *)
Select(item, q, by) ==
  /\ openedPath' = [item |-> item, query |-> q, by |-> by]
  /\ path' = ResultUrl(item, q).path
  /\ shellQuery' = ResultUrl(item, q).query
  /\ override' = NoTarget /\ everythingOpen' = FALSE
  /\ Dropdown(FALSE, shellQuery, dropdownTab, selected, answered)
  /\ UNCHANGED <<activeItem, focused, answered>>

(* Enter runs the handler of the registered render. *)
Enter ==
  /\ showDropdown
  /\ listener.index + 1 \in DOMAIN listener.list
  /\ Select(listener.list[listener.index + 1], listener.query, "enter")

(* A click runs the handler of the current render. *)
ClickResult(i) ==
  /\ showDropdown /\ i \in DOMAIN ShellShown
  /\ Select(ShellShown[i], shellQuery, "click")

(* The answer to ['unified-search', q] arrives; it is cached for later. *)
Answer(q) ==
  /\ q \in askedQuery \ answered
  /\ answered' = answered \union {q}
  /\ IF showDropdown
       THEN Dropdown(TRUE, shellQuery, dropdownTab, selected, answered')
       ELSE UNCHANGED <<dropdown, askedQuery>>
  /\ UNCHANGED <<path, activeItem, searchState, openedPath>>

(* A navigation leaves the query behind.  The pathname effect drops an      *)
(* override of another kind than the new route's.                           *)
GotoPath(p) ==
  /\ path' = p /\ shellQuery' = "" /\ focused' = FALSE
  /\ LET dropped == path # p /\ override # NoTarget /\ override # AutoScope(p) IN
       /\ override' = IF dropped THEN NoTarget ELSE override
       /\ everythingOpen' = (everythingOpen /\ ~dropped /\ shellQuery = "")
  /\ Dropdown(FALSE, shellQuery, dropdownTab, selected, answered)
  /\ UNCHANGED <<answered, openedPath>>

(* handleItemSelect of the layout. *)
SelectItem(m) == GotoPath(m) /\ activeItem' = m

(* A link in a page, or back and forward. *)
FollowLink(p) == p # path /\ GotoPath(p) /\ UNCHANGED activeItem

(* The browser loads the URL again; q is part of it. *)
ReloadPath ==
  /\ activeItem' = Segment(path)
  /\ override' = NoTarget /\ everythingOpen' = FALSE /\ focused' = FALSE
  /\ showDropdown' = FALSE /\ dropdownTab' = "all" /\ selected' = 0 /\ listener' = NoTarget
  /\ askedQuery' = {} /\ answered' = {} /\ openedPath' = NoTarget
  /\ UNCHANGED <<path, shellQuery>>

ShellNext ==
  \/ \E q \in ShellQuery : TypeInBar(q)
  \/ ClearSearch \/ OpenEverything \/ ResetScope \/ FocusBar \/ ClickOutside \/ Escape
  \/ ArrowDown \/ ArrowUp \/ Enter
  \/ \E t \in DropdownTab : ClickTab(t)
  \/ \E i \in DOMAIN ShellShown : ClickResult(i)
  \/ \E q \in LongQuery : Answer(q)
  \/ \E m \in SidebarItem : SelectItem(m)
  \/ \E p \in Paths : FollowLink(p)
  \/ ReloadPath

ShellSpec == ShellInit /\ [][ShellNext]_shellVars

-----------------------------------------------------------------------------
Item == UNION {ToSet(ShellResults[q][k]) : q \in LongQuery, k \in Kind}

(* Types of the variables; the dropdown is up only for a query long enough  *)
(* to be searched, in the scope everything, which no close, navigation or   *)
(* reset leaves behind (SearchBar.tsx 60-63, SearchContext.tsx 74-84).      *)
ShellTypeOK ==
  /\ path \in Paths /\ activeItem \in SidebarItem
  /\ shellQuery \in ShellQuery /\ override \in {NoTarget, "everything"}
  /\ everythingOpen \in BOOLEAN /\ focused \in BOOLEAN /\ showDropdown \in BOOLEAN
  /\ dropdownTab \in DropdownTab /\ selected \in Int
  /\ listener # NoTarget => DOMAIN listener = {"index", "list", "query"}
  /\ answered \subseteq askedQuery /\ askedQuery \subseteq LongQuery
  /\ openedPath # NoTarget => openedPath.item \in Item
  /\ showDropdown => everythingOpen /\ shellQuery \in LongQuery
  /\ everythingOpen => Scope = "everything"

(* While results are listed the highlighted index is one of them, whatever  *)
(* mix of typing, tabs, arrows and late answers led here, and the listener  *)
(* of an earlier render has the same index and as many results              *)
(* (EverythingDropdown.tsx 166-194).                                        *)
SelectionInRange ==
  showDropdown /\ ShellShown # <<>> =>
    /\ selected + 1 \in DOMAIN ShellShown
    /\ listener.index = selected /\ Len(listener.list) = Len(ShellShown)

(* "Enter to select" (EverythingDropdown.tsx:359): Enter opens the result   *)
(* highlighted in the list shown.                                           *)
EnterOpensSelected ==
  [][openedPath' \notin {openedPath, NoTarget} /\ openedPath'.by = "enter" =>
       selected + 1 \in DOMAIN ShellShown /\ openedPath'.item = ShellShown[selected + 1]]_shellVars

=============================================================================
