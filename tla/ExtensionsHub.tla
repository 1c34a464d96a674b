---------------------------- MODULE ExtensionsHub ----------------------------
(***************************************************************************)
(* The extensions hub and the plugins of the legacy pages                  *)
(* (pages/ExtensionsHub.tsx, pages/PluginView.tsx) and the links between   *)
(* them.  The hub keeps two filters in the URL, which reload the page when *)
(* they change, and the search in a field; the server filters.  The plugin *)
(* view is a tree of marketplaces, plugins and counts of components.       *)
(***************************************************************************)
EXTENDS Naturals, FiniteSets

CONSTANTS Installed,        \* extensions of the server: [id, type, source, text], a set
          Market,           \* [plugin -> its marketplace]
          HubSearch,        \* texts that can be searched for, "" for none
          Nothing, MaxHubSteps

Plugin == DOMAIN Market
Marketplace == {Market[p] : p \in Plugin}
HubType == {"agent", "command", "skill", "hook", "mcp"}

(* A plugin is named after its marketplace, name@marketplace; an extension  *)
(* is the user's or comes with a plugin.                                    *)
ASSUME HubAssumption ==
  /\ "" \notin Plugin
  /\ \A e \in Installed : e.source \in Plugin \union {"user"}

VARIABLES hubPath,                          \* "extensions" or "plugins"
          urlType, urlSource, urlSearch,    \* parameters of the hub, "" when absent
          urlSelected,                      \* parameter of the plugin view
          searchInput, debouncedSearch,
          hubAnswered,                      \* useExtensions: the keys answered since the page was loaded
          selectedRow,
          expandedMarketplaces, expandedPlugins, treeKnown,
          hubSteps

hubVars == <<hubPath, urlType, urlSource, urlSearch, urlSelected, searchInput, debouncedSearch, hubAnswered,
             selectedRow, expandedMarketplaces, expandedPlugins, treeKnown, hubSteps>>

-----------------------------------------------------------------------------
searchFilter == IF urlSearch # "" THEN urlSearch ELSE debouncedSearch
HubKey == <<urlType, urlSource, searchFilter>>

HubMatches == {e \in Installed : /\ urlType \in {"", e.type}
                                 /\ urlSource \in {"", e.source}
                                 /\ searchFilter \in {"", e.text}}

(* The answer to a search holds "results", and the page reads "extensions". *)
HubExtensions == IF HubKey \in hubAnswered /\ searchFilter = "" THEN HubMatches ELSE {}

sourceOptions == {"", "user"} \union Plugin

ComponentCount(p, type) == Cardinality({e \in Installed : e.source = p /\ e.type = type})

(* A link for each type the plugin has any of. *)
ComponentLinks(p) == {type \in HubType : ComponentCount(p, type) > 0}

(* While the page renders, the marketplace of the plugin in the URL is      *)
(* expanded again.                                                          *)
ExpandedInRender(selected, known, expanded) ==
  IF known /\ selected \in Plugin THEN expanded \union {Market[selected]} ELSE expanded

-----------------------------------------------------------------------------
(* The page is loaded anew: links are plain anchors, and a filter assigns   *)
(* location.search.                                                         *)
LoadHub ==
  /\ searchInput' = "" /\ debouncedSearch' = "" /\ hubAnswered' = {} /\ selectedRow' = Nothing
  /\ expandedMarketplaces' = {} /\ treeKnown' = FALSE
  /\ expandedPlugins' = IF hubPath' = "plugins" /\ urlSelected' # "" THEN {urlSelected'} ELSE {}

HubInit ==
  /\ hubPath \in {"extensions", "plugins"}
  /\ urlType \in HubType \union {""} /\ urlSource = "" /\ urlSearch \in HubSearch /\ urlSelected = ""
  /\ searchInput = "" /\ debouncedSearch = "" /\ hubAnswered = {} /\ selectedRow = Nothing
  /\ expandedMarketplaces = {} /\ expandedPlugins = {} /\ treeKnown = FALSE /\ hubSteps = 0

OnHub == hubPath = "extensions"
OnPlugins == hubPath = "plugins"

updateFilterType(type) ==
  /\ OnHub /\ urlType' = type
  /\ UNCHANGED <<hubPath, urlSource, urlSearch, urlSelected>>
  /\ LoadHub

updateFilterSource(source) ==
  /\ OnHub /\ urlSource' = source
  /\ UNCHANGED <<hubPath, urlType, urlSearch, urlSelected>>
  /\ LoadHub

TypeHubSearch(text) ==
  /\ OnHub /\ searchInput' = text
  /\ UNCHANGED <<hubPath, urlType, urlSource, urlSearch, urlSelected, debouncedSearch, hubAnswered, selectedRow, expandedMarketplaces, expandedPlugins, treeKnown>>

HubSearchSettles ==
  /\ OnHub /\ debouncedSearch # searchInput /\ debouncedSearch' = searchInput
  /\ UNCHANGED <<hubPath, urlType, urlSource, urlSearch, urlSelected, searchInput, hubAnswered, selectedRow, expandedMarketplaces, expandedPlugins, treeKnown>>

HubAnswer ==
  /\ OnHub /\ HubKey \notin hubAnswered /\ hubAnswered' = hubAnswered \union {HubKey}
  /\ UNCHANGED <<hubPath, urlType, urlSource, urlSearch, urlSelected, searchInput, debouncedSearch, selectedRow, expandedMarketplaces, expandedPlugins, treeKnown>>

ClickRow(e) ==
  /\ OnHub /\ selectedRow' = e
  /\ UNCHANGED <<hubPath, urlType, urlSource, urlSearch, urlSelected, searchInput, debouncedSearch, hubAnswered, expandedMarketplaces, expandedPlugins, treeKnown>>

(* The source of a row, when it is not the user. *)
FollowSource(e) ==
  /\ OnHub /\ e.source # "user"
  /\ hubPath' = "plugins" /\ urlSelected' = e.source
  /\ urlType' = "" /\ urlSource' = "" /\ urlSearch' = "" /\ LoadHub

TreeArrives ==
  /\ OnPlugins /\ ~treeKnown /\ treeKnown' = TRUE
  /\ expandedMarketplaces' = ExpandedInRender(urlSelected, TRUE, expandedMarketplaces)
  /\ UNCHANGED <<hubPath, urlType, urlSource, urlSearch, urlSelected, searchInput, debouncedSearch, hubAnswered, selectedRow, expandedPlugins>>

toggleMarketplace(m) ==
  /\ OnPlugins /\ treeKnown
  /\ expandedMarketplaces' = ExpandedInRender(urlSelected, TRUE,
       IF m \in expandedMarketplaces THEN expandedMarketplaces \ {m} ELSE expandedMarketplaces \union {m})
  /\ UNCHANGED <<hubPath, urlType, urlSource, urlSearch, urlSelected, searchInput, debouncedSearch, hubAnswered, selectedRow, expandedPlugins, treeKnown>>

togglePlugin(p) ==
  /\ OnPlugins /\ treeKnown /\ Market[p] \in expandedMarketplaces
  /\ expandedPlugins' = IF p \in expandedPlugins THEN expandedPlugins \ {p} ELSE expandedPlugins \union {p}
  /\ UNCHANGED <<hubPath, urlType, urlSource, urlSearch, urlSelected, searchInput, debouncedSearch, hubAnswered, selectedRow, expandedMarketplaces, treeKnown>>

FollowComponents(p, type) ==
  /\ OnPlugins /\ treeKnown /\ Market[p] \in expandedMarketplaces /\ p \in expandedPlugins
  /\ type \in ComponentLinks(p)
  /\ hubPath' = "extensions" /\ urlType' = type /\ urlSource' = p /\ urlSearch' = "" /\ urlSelected' = ""
  /\ LoadHub

HubNext ==
  /\ hubSteps < MaxHubSteps /\ hubSteps' = hubSteps + 1
  /\ \/ \E t \in (HubType \union {""}) \ {urlType} : updateFilterType(t)
     \/ \E s \in sourceOptions \ {urlSource} : updateFilterSource(s)
     \/ \E t \in HubSearch \ {searchInput} : TypeHubSearch(t)
     \/ HubSearchSettles \/ HubAnswer
     \/ \E e \in HubExtensions : ClickRow(e) \/ FollowSource(e)
     \/ TreeArrives
     \/ \E m \in Marketplace : toggleMarketplace(m)
     \/ \E p \in Plugin : togglePlugin(p) \/ \E type \in HubType : FollowComponents(p, type)

HubSpec == HubInit /\ [][HubNext]_hubVars

-----------------------------------------------------------------------------
(* Types of the variables.                                                  *)
HubTypeOK ==
  /\ urlType \in HubType \union {""} /\ urlSource \in sourceOptions /\ urlSelected \in Plugin \union {""}
  /\ expandedMarketplaces \subseteq Marketplace /\ expandedPlugins \subseteq Plugin
  /\ selectedRow \in Installed \union {Nothing}

(* A search that finds extensions lists them ("Search extensions (FTS5)...",*)
(* ExtensionsHub.tsx 104).                                                  *)
SearchListsFound == OnHub /\ HubKey \in hubAnswered => HubExtensions = HubMatches
=============================================================================
