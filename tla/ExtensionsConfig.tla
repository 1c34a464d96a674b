--------------------------- MODULE ExtensionsConfig ---------------------------
(***************************************************************************)
(* Extensions and configuration of the v3 pages                            *)
(* (pages-v3/ExtensionsConfigPage.tsx): the server filters the list by the *)
(* controls, a row opens a drawer and navigates to its own route, links    *)
(* from elsewhere name a plugin or a tab of the configuration.  The two    *)
(* routes mount the page each for itself.                                  *)
(***************************************************************************)
EXTENDS Naturals, Sequences, FiniteSets

CONSTANTS Configured,       \* the server's extensions: [id, type, source, enabled, plugin]
          ConfigPlugin,     \* its plugins
          NoDrawer, MaxConfigSteps

ConfigTab == {"claude_md", "settings", "mcp", "plugins"}

VARIABLES configRoute,            \* the extension in the path, NoDrawer on /extensions-config
          pluginParam, tabParam,
          filterType, filterSource, filterEnabled, filterPlugin,
          drawer,           \* selected
          configTab,
          configAnswered,   \* keys of useV3ExtensionsConfig the cache holds
          detailKnown,      \* useV3ExtensionDetail
          history,          \* entries before this one
          configSteps

configFilters == <<filterType, filterSource, filterEnabled, filterPlugin>>
configVars == <<configRoute, pluginParam, tabParam, configFilters, drawer, configTab, configAnswered, detailKnown, history, configSteps>>

-----------------------------------------------------------------------------
ConfigMatches(f) ==
  {e \in Configured : f[1] \in {"", e.type} /\ f[2] \in {"", e.source}
                      /\ f[3] \in {"", e.enabled} /\ f[4] \in {"", e.plugin}}

(* Another key has no data of its own until its answer.                     *)
ConfigRows == IF configFilters \in configAnswered THEN ConfigMatches(configFilters) ELSE {}

(* Only the sources of the rows shown are offered.                          *)
ConfigSources == {e.source : e \in ConfigRows}
PluginOptions == IF configFilters \in configAnswered THEN ConfigPlugin ELSE {}

DetailShown == IF drawer \in detailKnown THEN drawer ELSE NoDrawer

-----------------------------------------------------------------------------
MountConfig(to, plugin, tab) ==
  /\ filterType' = "" /\ filterSource' = "" /\ filterEnabled' = "" /\ filterPlugin' = plugin
  /\ drawer' = to /\ configTab' = tab

DrawerAtMount(to) == UNCHANGED drawer       \* faulty variant: the path is read at mount only

(* useEffect on id and type. *)
DrawerAfter(to) == drawer' = IF to = NoDrawer THEN drawer ELSE to

(* The same component stays while the route stays; its effects follow the   *)
(* parameters that changed.                                                 *)
ArriveAtConfig(to, plugin, tab) ==
  /\ configRoute' = to /\ pluginParam' = plugin /\ tabParam' = tab
  /\ IF (to = NoDrawer) # (configRoute = NoDrawer) THEN MountConfig(to, plugin, tab)
     ELSE /\ filterPlugin' = (IF plugin # pluginParam THEN plugin ELSE filterPlugin)
          /\ configTab' = (IF tab # tabParam THEN tab ELSE configTab)
          /\ IF to # configRoute THEN DrawerAfter(to) ELSE UNCHANGED drawer
          /\ UNCHANGED <<filterType, filterSource, filterEnabled>>

ConfigInit ==
  /\ configRoute \in Configured \union {NoDrawer}
  /\ pluginParam = "" /\ tabParam = "claude_md"
  /\ filterType = "" /\ filterSource = "" /\ filterEnabled = "" /\ filterPlugin = ""
  /\ drawer = configRoute /\ configTab = "claude_md"
  /\ configAnswered = {} /\ detailKnown = {} /\ history = <<>> /\ configSteps = 0

(* setSelected and navigate; the search parameters are left behind.         *)
ClickExtension(e) ==
  /\ history' = Append(history, <<configRoute, pluginParam, tabParam>>)
  /\ configRoute' = e /\ pluginParam' = "" /\ tabParam' = "claude_md"
  /\ drawer' = e
  /\ IF configRoute = NoDrawer
     THEN filterType' = "" /\ filterSource' = "" /\ filterEnabled' = "" /\ filterPlugin' = "" /\ configTab' = "claude_md"
     ELSE /\ filterPlugin' = (IF pluginParam # "" THEN "" ELSE filterPlugin)
          /\ configTab' = (IF tabParam # "claude_md" THEN "claude_md" ELSE configTab)
          /\ UNCHANGED <<filterType, filterSource, filterEnabled>>
  /\ UNCHANGED <<configAnswered, detailKnown>>

(* The menu, or a search result: a plugin, a tab or an extension. *)
FollowConfigLink(to, plugin, tab) ==
  /\ history' = Append(history, <<configRoute, pluginParam, tabParam>>)
  /\ ArriveAtConfig(to, plugin, tab)
  /\ UNCHANGED <<configAnswered, detailKnown>>

ConfigBack ==
  /\ history # <<>>
  /\ LET h == history[Len(history)] IN ArriveAtConfig(h[1], h[2], h[3])
  /\ history' = SubSeq(history, 1, Len(history) - 1)
  /\ UNCHANGED <<configAnswered, detailKnown>>

(* The path keeps the extension. *)
CloseDrawer ==
  /\ drawer # NoDrawer /\ drawer' = NoDrawer
  /\ UNCHANGED <<configRoute, pluginParam, tabParam, configFilters, configTab, configAnswered, detailKnown, history>>

SetConfigFilters(type, source, enabled, plugin) ==
  /\ filterType' = type /\ filterSource' = source /\ filterEnabled' = enabled /\ filterPlugin' = plugin
  /\ UNCHANGED <<configRoute, pluginParam, tabParam, drawer, configTab, configAnswered, detailKnown, history>>

SetConfigTab(tab) ==
  /\ configTab' = tab
  /\ UNCHANGED <<configRoute, pluginParam, tabParam, configFilters, drawer, configAnswered, detailKnown, history>>

ConfigAnswer ==
  /\ configFilters \notin configAnswered /\ configAnswered' = configAnswered \union {configFilters}
  /\ UNCHANGED <<configRoute, pluginParam, tabParam, configFilters, drawer, configTab, detailKnown, history>>

DetailAnswer ==
  /\ drawer \notin detailKnown \union {NoDrawer} /\ detailKnown' = detailKnown \union {drawer}
  /\ UNCHANGED <<configRoute, pluginParam, tabParam, configFilters, drawer, configTab, configAnswered, history>>

ConfigNext ==
  /\ configSteps < MaxConfigSteps /\ configSteps' = configSteps + 1
  /\ \/ \E e \in ConfigRows : ClickExtension(e)
     \/ \E p \in ConfigPlugin : FollowConfigLink(NoDrawer, p, "claude_md")
     \/ \E tab \in ConfigTab : FollowConfigLink(NoDrawer, "", tab)
     \/ \E e \in Configured : FollowConfigLink(e, "", "claude_md")
     \/ ConfigBack \/ CloseDrawer \/ ConfigAnswer \/ DetailAnswer
     \/ \E t \in {e.type : e \in Configured} \union {""} : SetConfigFilters(t, filterSource, filterEnabled, filterPlugin)
     \/ \E s \in ConfigSources \union {""} : SetConfigFilters(filterType, s, filterEnabled, filterPlugin)
     \/ \E b \in {"", "true", "false"} : SetConfigFilters(filterType, filterSource, b, filterPlugin)
     \/ \E p \in PluginOptions \union {""} : SetConfigFilters(filterType, filterSource, filterEnabled, p)
     \/ \E tab \in ConfigTab : SetConfigTab(tab)

ConfigSpec == ConfigInit /\ [][ConfigNext]_configVars

-----------------------------------------------------------------------------
(* Types of the variables.                                                  *)
ConfigTypeOK ==
  /\ configRoute \in Configured \union {NoDrawer} /\ drawer \in Configured \union {NoDrawer}
  /\ configTab \in ConfigTab /\ filterPlugin \in ConfigPlugin \union {""}
  /\ detailKnown \subseteq Configured /\ DetailShown \in {drawer, NoDrawer}

(* An open drawer shows the extension of the path, after Back and Forward,  *)
(* too (ExtensionsConfigPage.tsx 55-59, 171-174).                           *)
DrawerIsOfPath == drawer # NoDrawer => drawer = configRoute
=============================================================================
