---------------------------------- MODULE MCPages ----------------------------------
(***************************************************************************)
(* The pages of the dashboard, each on a small instance.  One page is       *)
(* mounted: it takes its steps, and the others have none.                   *)
(***************************************************************************)
EXTENDS LegacyShell, RequestsPage, SettingsPage, DashboardDates, Cockpit, SessionTimeline, ConversationsPage, SessionsExplorer, ExtensionWorkshop, ExtensionsHub, ExtensionsConfig, SessionDataPages, TokenEconomics, MessageContent, ClaudeConfigPage, MissionControl, TLC

CONSTANTS r1, r2, s1, s2, todo1, message1, message2, ra, rb,
          Mountable            \* the pages a run is about

VARIABLE mounted       \* the page this instance shows

\* The dropdown of the legacy shell: two answers of as many results, of two kinds each.
Hit(k, i, n, a) == [kind |-> k, id |-> i, matches |-> n, at |-> a]
TwoAnswers ==
  [q \in {"q1", "q2"} |->
     [k \in Kind |->
        CASE q = "q1" /\ k = "request" -> <<Hit(k, 1, 1, 2)>>
          [] q = "q1" /\ k = "conversation" -> <<Hit(k, 2, 2, 1)>>
          [] q = "q2" /\ k = "extension" -> <<Hit(k, 3, 1, 1)>>
          [] q = "q2" /\ k = "todo" -> <<Hit(k, 4, 1, 4)>>
          [] OTHER -> <<>>]]

AllOpus == [r \in Id |-> "opus"]

OlderSettings == {[autoRefreshEnabled |-> TRUE, autoRefreshInterval |-> 60]}

\* One query finds one session, the other two.
CockpitOrder == <<"s1", "s2", "s3">>
TodosOfSession == [s \in Session |-> CASE s = "s1" -> <<"pending", "completed">>
                                     [] s = "s2" -> <<"in_progress">>
                                     [] OTHER -> <<>>]
CockpitMatches == [q \in {"one", "two"} |-> IF q = "one" THEN {"s1"} ELSE {"s1", "s3"}]

\* Two files of one session on different days, and a message without text.
TimelineRows == {[id |-> 1, session |-> "s1", day |-> 100, count |-> 2],
                 [id |-> 2, session |-> "s1", day |-> 98, count |-> 1],
                 [id |-> 3, session |-> "s2", day |-> 99, count |-> 5]}
Message(i, t, ws) == [id |-> i, at |-> t, words |-> ws]
TimelineMessages ==
  [s \in {"s1", "s2"} |->
     IF s = "s1" THEN <<Message("m1", 1, {"user", "fix"}), Message("m2", 1, {}), Message("m3", 2, {"assistant", "fix"})>>
                 ELSE <<Message("m4", 3, {"user", "fix"})>>]

\* "fix bash" finds only the conversation whose tool is bash; one thread for all.
ThreeConversations == [c \in 1 .. 3 |-> CASE c = 1 -> [at |-> 5, project |-> 1, count |-> 2]
                                        [] c = 2 -> [at |-> 7, project |-> 2, count |-> 9]
                                        [] OTHER -> [at |-> 9, project |-> 1, count |-> 4]]
FoundByText == [q \in {{"fix"}, {"fix", "bash"}, {"tool:bash"}} |->
                  IF q = {"fix"} THEN 1 :> 3 @@ 2 :> 1 ELSE 2 :> 1]
FoundByLetter == [q \in {{"x"}} |-> {2}]
ThreadBlock(t, ws) == [type |-> t, words |-> ws, label |-> {}]
Named(w, l) == [type |-> "tool_use", words |-> {w}, label |-> {l}]
OneThread ==
  [c \in 1 .. 3 |-> <<[type |-> "user", content |-> <<ThreadBlock("text", {"fix"})>>],
                      [type |-> "system", content |-> NoContent],
                      [type |-> "assistant", content |-> <<Named("bash", "tool:bash"), ThreadBlock("text", {"done"})>>],
                      [type |-> "user", content |-> <<ThreadBlock("tool_result", {"fix", "bash"})>>]>>]

\* A link to a message names no tab; a search has a result without a target.
TabOfRow == [r \in Row |-> IF r = todo1 THEN "todos" ELSE "messages"]
LinkTabOfRow == [r \in Row |-> IF r = message1 THEN "" ELSE TabOfRow[r]]
SessionOfRow == [r \in Row |-> IF r = message2 THEN s2 ELSE s1]
FirstFound == [f \in {"", "f"} |-> IF f = "" THEN s1 ELSE s2]
PaletteFinds == [q \in PaletteQuery |->
                   CASE q = "" -> {}
                     [] q = "qq" -> {NoPayload, At("sessions", s1, todo1), At("sessions", s1, message1)}
                     [] q = "zz" -> {At("sessions", s2, message2)}]

\* An extension that is enabled and disabled in turn, and one of a plugin.
WorkshopExtension(i, t, s, on) == [id |-> i, type |-> t, source |-> s, enabled |-> on]
WorkshopExtensions == {WorkshopExtension(1, "agent", "user", TRUE), WorkshopExtension(1, "agent", "user", FALSE),
                    WorkshopExtension(2, "mcp", "fmt@store", TRUE)}
TwoOnDisk == {WorkshopExtension(1, "agent", "user", TRUE), WorkshopExtension(2, "mcp", "fmt@store", TRUE)}
FmtSearch == [q \in {"fmt"} |-> {2}]

InstalledExtension(i, t, s, x) == [id |-> i, type |-> t, source |-> s, text |-> x]
FourInstalled == {InstalledExtension(1, "agent", "user", "fix"), InstalledExtension(2, "agent", "fmt@store", "fmt"),
                  InstalledExtension(3, "hook", "lint@store", "fmt"), InstalledExtension(4, "agent", "lint@store", "fix")}
TwoMarkets == [p \in {"fmt@store", "lint@store", "own@team"} |-> IF p = "own@team" THEN "team" ELSE "store"]

TwoConfigured == {[id |-> 1, type |-> "agent", source |-> "user", enabled |-> "true", plugin |-> "-"],
                  [id |-> 2, type |-> "hook", source |-> "fmt@store", enabled |-> "false", plugin |-> "fmt@store"]}

TodoContents == {<<"pending", "completed">>, <<"in_progress">>}
DataTerms == [t \in {"x"} |-> {"a1"}]
FixHits == [h \in {"fix"} \X Statuses |-> CASE h[2] = "" -> 5
                                          [] h[2] = "pending" -> 3
                                          [] h[2] = "completed" -> 2
                                          [] OTHER -> 0]

\* A spike, and two weeks with days above twice their mean that are no spikes.
TwoRanges == [r \in {ra, rb} |->
                IF r = ra THEN <<"haiku" :> 1, "opus" :> 2, "haiku" :> 1, "opus" :> 1, "haiku" :> 2, "opus" :> 60 @@ "haiku" :> 50>>
                          ELSE [i \in 1 .. 14 |-> "opus" :> IF i \in {4, 8, 11, 12, 14} THEN 5 ELSE 1]]
FourConversations == {[id |-> 1, project |-> 1, tokens |-> 7], [id |-> 2, project |-> 2, tokens |-> 90],
                      [id |-> 3, project |-> 1, tokens |-> 7], [id |-> 4, project |-> 3, tokens |-> 1]}
FiveProjects == [r \in {ra, rb} |-> IF r = ra THEN <<1, 80, 40, 3, 0>> ELSE <<>>]

\* Edits of up to three lines, texts of up to four words and tags, one of each other block.
TextBlock(t) == [type |-> "text", text |-> t]
EditBlock(o, n) == [type |-> "tool_use", name |-> "Edit", old |-> o, new |-> n]
TodoBlock(s) == [type |-> "tool_use", name |-> "TodoWrite", todos |-> s]
ToolBlock(k) == [type |-> "tool_use", name |-> "generic", params |-> k]
ImageBlock(d, b) == [type |-> "image", data |-> d, broken |-> b]
ResultBlock(e, ls) == [type |-> "tool_result", error |-> e, lines |-> ls]
Line(k, d) == [is |-> k, dir |-> d]
OfBlocks(bs) == [form |-> "array", blocks |-> bs]
UpTo(n, S) == UNION {[1 .. k -> S] : k \in 0 .. n}
EditThreads == {<<OfBlocks(<<EditBlock(o, n)>>), OfBlocks(<<TodoBlock(<<"completed", "pending">>)>>)>> : o \in UpTo(3, {"a", "b"}), n \in UpTo(3, {"a", "b"})}
TextThreads == {<<OfBlocks(<<TextBlock(t)>>), [form |-> "string", blocks |-> <<TextBlock(<<"w">>)>>]>> :
                  t \in UpTo(4, {"w", "<reminder>", "</reminder>"}) \union UpTo(3, {"w", " ", "<functions>", "</functions>"})
                       \union {<<"w", " ", "<reminder>", " ", "w", "</reminder>", " ", "<reminder>", "</reminder>", "w">>,
                               <<"w", "<functions>", "w", "</functions>", " ", "w">>}}
Results == {ResultBlock(FALSE, <<Line("path", "src"), Line("blank", ""), Line("path", "lib")>>),
            ResultBlock(FALSE, <<Line("row", ""), Line("row", "")>>), ResultBlock(TRUE, <<>>), ResultBlock(FALSE, <<>>),
            ResultBlock(FALSE, <<Line("json", "")>>), ResultBlock(FALSE, <<Line("numbered", ""), Line("word", "")>>)}
OtherBlocks == Results \union {ToolBlock(0), ToolBlock(4), [type |-> "other"]}
OtherThreads == {<<OfBlocks(<<b, ImageBlock(TRUE, TRUE)>>), OfBlocks(<<c, ImageBlock(d, FALSE)>>)>> :
                   b \in OtherBlocks, c \in OtherBlocks, d \in BOOLEAN}
AllThreads == EditThreads \union TextThreads \union OtherThreads
SomeThread == CHOOSE t \in EditThreads : TRUE

\* Each file in each of its states beside two that can be read, and none of them there.
ClaudeFile(i, h) == [is |-> i, has |-> h]
ClaudeDir(m, s, c) == [claude_md |-> m, settings |-> s, mcp |-> c]
Missing == ClaudeFile("missing", <<>>)
Broken == ClaudeFile("broken", <<>>)
TwoSections == ClaudeFile("read", <<"guidelines", "memory">>)
SettingsRead == ClaudeFile("read", <<>>)
OneServer == ClaudeFile("read", <<"server">>)
ClaudeDirs == {ClaudeDir(m, SettingsRead, OneServer) : m \in {Missing, ClaudeFile("read", <<"memory">>), TwoSections}}
       \union {ClaudeDir(TwoSections, s, OneServer) : s \in {Missing, Broken}}
       \union {ClaudeDir(TwoSections, SettingsRead, c) : c \in {Missing, Broken}}
       \union {ClaudeDir(Missing, Missing, Missing)}
SomeFiles == CHOOSE f \in ClaudeDirs : TRUE

\* Conversation 1 is active again after the others; local texts sort in another order.
ConversationWorld == {[id |-> 1, last |-> 0, project |-> 1], [id |-> 1, last |-> 3, project |-> 1],
                      [id |-> 2, last |-> 1, project |-> 2], [id |-> 3, last |-> 4, project |-> 1]}
TodosWorld == {[id |-> 1, last |-> 0, completed |-> 1], [id |-> 1, last |-> 2, completed |-> 2],
               [id |-> 2, last |-> 3, completed |-> 0]}
PlansWorld == {[id |-> 1, last |-> 1], [id |-> 2, last |-> 3]}
TextRank == [t \in 0 .. 4 |-> (t + 3) % 5]

MCInit ==
  /\ mounted \in Mountable
  /\ ShellInit
  /\ mounted = "shell" \/ (path = "home")
  /\ RequestsInit
  /\ storedRequests = {r1} /\ modelFilter = "all"
  /\ SettingsInit
  /\ mounted = "settings" \/ (storedSettings = <<>>)
  /\ DatesInit
  /\ CockpitInit
  /\ mounted = "cockpit" \/ (activity = CockpitOrder /\ session = NoSession /\ cockpitTab = "conversations")
  /\ TimelineInit
  /\ ConversationsInit
  /\ mounted = "conversations" \/ (urlId = NoConversation /\ pageQuery = {})
  /\ ExplorerInit
  /\ sessionRows \in IF mounted = "explorer" THEN {{}, Row} ELSE {{}}
  /\ WorkshopInit
  /\ storedView = "" /\ disk \in IF mounted = "workshop" THEN {{}, TwoOnDisk} ELSE {{}}
  /\ otherScan = NoScan
  /\ HubInit
  /\ mounted = "hub" \/ (hubPath = "extensions" /\ urlType = "" /\ urlSearch = "")
  /\ ConfigInit
  /\ mounted = "config" \/ (configRoute = NoDrawer)
  /\ DataInit
  /\ mounted \in {"data", "find"} \/ (files = [a \in TodoFile |-> NoData])
  /\ TokenInit
  /\ mounted = "token" \/ (tokenRange = ra)
  /\ MessageInit
  /\ mounted = "message" \/ (thread = SomeThread)
  /\ ClaudeInit
  /\ mounted = "claude" \/ (claudeFiles = SomeFiles)
  /\ MissionInit

\* The pages that are not mounted keep their state.
MCNext ==
  \/ mounted = "shell" /\ ShellNext /\ UNCHANGED <<mounted, requestVars, settingsVars, datesVars, cockpitVars, timelineVars, conversationVars, explorerVars, workshopVars, hubVars, configVars, dataVars, tokenVars, messageVars, claudeVars, missionVars>>
  \/ mounted = "requests" /\ RequestsNext /\ UNCHANGED <<mounted, shellVars, settingsVars, datesVars, cockpitVars, timelineVars, conversationVars, explorerVars, workshopVars, hubVars, configVars, dataVars, tokenVars, messageVars, claudeVars, missionVars>>
  \/ mounted = "settings" /\ SettingsNext /\ UNCHANGED <<mounted, shellVars, requestVars, datesVars, cockpitVars, timelineVars, conversationVars, explorerVars, workshopVars, hubVars, configVars, dataVars, tokenVars, messageVars, claudeVars, missionVars>>
  \/ mounted = "dates" /\ DatesNext /\ UNCHANGED <<mounted, shellVars, requestVars, settingsVars, cockpitVars, timelineVars, conversationVars, explorerVars, workshopVars, hubVars, configVars, dataVars, tokenVars, messageVars, claudeVars, missionVars>>
  \/ mounted = "cockpit" /\ CockpitNext /\ UNCHANGED <<mounted, shellVars, requestVars, settingsVars, datesVars, timelineVars, conversationVars, explorerVars, workshopVars, hubVars, configVars, dataVars, tokenVars, messageVars, claudeVars, missionVars>>
  \/ mounted = "timeline" /\ TimelineNext /\ UNCHANGED <<mounted, shellVars, requestVars, settingsVars, datesVars, cockpitVars, conversationVars, explorerVars, workshopVars, hubVars, configVars, dataVars, tokenVars, messageVars, claudeVars, missionVars>>
  \/ mounted = "conversations" /\ ConversationsNext /\ UNCHANGED <<mounted, shellVars, requestVars, settingsVars, datesVars, cockpitVars, timelineVars, explorerVars, workshopVars, hubVars, configVars, dataVars, tokenVars, messageVars, claudeVars, missionVars>>
  \/ mounted = "explorer" /\ ExplorerNext /\ UNCHANGED <<mounted, shellVars, requestVars, settingsVars, datesVars, cockpitVars, timelineVars, conversationVars, workshopVars, hubVars, configVars, dataVars, tokenVars, messageVars, claudeVars, missionVars>>
  \/ mounted = "workshop" /\ WorkshopNext /\ UNCHANGED <<mounted, shellVars, requestVars, settingsVars, datesVars, cockpitVars, timelineVars, conversationVars, explorerVars, hubVars, configVars, dataVars, tokenVars, messageVars, claudeVars, missionVars>>
  \/ mounted = "hub" /\ HubNext /\ UNCHANGED <<mounted, shellVars, requestVars, settingsVars, datesVars, cockpitVars, timelineVars, conversationVars, explorerVars, workshopVars, configVars, dataVars, tokenVars, messageVars, claudeVars, missionVars>>
  \/ mounted = "config" /\ ConfigNext /\ UNCHANGED <<mounted, shellVars, requestVars, settingsVars, datesVars, cockpitVars, timelineVars, conversationVars, explorerVars, workshopVars, hubVars, dataVars, tokenVars, messageVars, claudeVars, missionVars>>
  \/ mounted = "data" /\ DataNext /\ UNCHANGED <<mounted, shellVars, requestVars, settingsVars, datesVars, cockpitVars, timelineVars, conversationVars, explorerVars, workshopVars, hubVars, configVars, tokenVars, messageVars, claudeVars, missionVars>>
  \/ mounted = "find" /\ FindNext /\ UNCHANGED <<mounted, shellVars, requestVars, settingsVars, datesVars, cockpitVars, timelineVars, conversationVars, explorerVars, workshopVars, hubVars, configVars, tokenVars, messageVars, claudeVars, missionVars>>
  \/ mounted = "token" /\ TokenNext /\ UNCHANGED <<mounted, shellVars, requestVars, settingsVars, datesVars, cockpitVars, timelineVars, conversationVars, explorerVars, workshopVars, hubVars, configVars, dataVars, messageVars, claudeVars, missionVars>>
  \/ mounted = "message" /\ MessageNext /\ UNCHANGED <<mounted, shellVars, requestVars, settingsVars, datesVars, cockpitVars, timelineVars, conversationVars, explorerVars, workshopVars, hubVars, configVars, dataVars, tokenVars, claudeVars, missionVars>>
  \/ mounted = "claude" /\ ClaudeNext /\ UNCHANGED <<mounted, shellVars, requestVars, settingsVars, datesVars, cockpitVars, timelineVars, conversationVars, explorerVars, workshopVars, hubVars, configVars, dataVars, tokenVars, messageVars, missionVars>>
  \/ mounted = "mission" /\ MissionNext /\ UNCHANGED <<mounted, shellVars, requestVars, settingsVars, datesVars, cockpitVars, timelineVars, conversationVars, explorerVars, workshopVars, hubVars, configVars, dataVars, tokenVars, messageVars, claudeVars>>

MCVars == <<mounted, shellVars, requestVars, settingsVars, datesVars, cockpitVars, timelineVars, conversationVars, explorerVars, workshopVars, hubVars, configVars, dataVars, tokenVars, messageVars, claudeVars, missionVars>>
MCSpec == MCInit /\ [][MCNext]_MCVars

(* The type invariant of the page that is mounted.                            *)
PagesTypeOK ==
  /\ mounted = "shell" => ShellTypeOK
  /\ mounted = "requests" => RequestsTypeOK
  /\ mounted = "settings" => SettingsTypeOK
  /\ mounted = "dates" => DatesTypeOK
  /\ mounted = "cockpit" => CockpitTypeOK
  /\ mounted = "timeline" => TimelineTypeOK
  /\ mounted = "conversations" => ConversationsTypeOK
  /\ mounted = "explorer" => ExplorerTypeOK
  /\ mounted = "workshop" => WorkshopTypeOK
  /\ mounted = "hub" => HubTypeOK
  /\ mounted = "config" => ConfigTypeOK
  /\ mounted \in {"data", "find"} => DataTypeOK
  /\ mounted = "token" => TokenTypeOK
  /\ mounted = "message" => MessageTypeOK
  /\ mounted = "claude" => ClaudeTypeOK
  /\ mounted = "mission" => MissionTypeOK
==============================================================================
