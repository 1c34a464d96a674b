-------------------------- MODULE ClaudeConfigPage --------------------------
(***************************************************************************)
(* The page of Claude Code's configuration (pages/ClaudeConfig.tsx): three *)
(* tabs of collapsible sections over one answer of GetClaudeConfigV2.      *)
(* A file is [is, has]: "missing", "broken" (no JSON) or "read", and a     *)
(* sequence of the tags in CLAUDE.md, of the servers in .mcp.json, and     *)
(* nothing told apart in settings.json.                                    *)
(***************************************************************************)
EXTENDS Naturals, Sequences

CONSTANTS ClaudeFiles,      \* what may be in ~/.claude: [claude_md, settings, mcp]
          NoAnswerYet, MaxClaudeSteps

ClaudeTab == {"claude_md", "settings", "mcp"}

VARIABLES claudeFiles,
          claudeConfig,     \* the query's data
          claudeFetch,      \* "fetching", "fetched", "failed"
          claudeTab,
          toggled,          \* sections of the tab that are not as they were mounted
          claudeCrashed,    \* a section could not be rendered: the page is gone
          claudeSteps

claudeVars == <<claudeFiles, claudeConfig, claudeFetch, claudeTab, toggled, claudeCrashed, claudeSteps>>

-----------------------------------------------------------------------------
(* What the server answers: a missing file comes with an error, a broken    *)
(* one with nothing.  The sections of CLAUDE.md are an array of [name,      *)
(* position], and the servers an array under "servers".                     *)
ClaudeAnswer(f) ==
  [claude_md |-> [is |-> f.claude_md.is, sections |-> f.claude_md.has],
   settings |-> [is |-> f.settings.is],
   mcp |-> [is |-> f.mcp.is, servers |-> f.mcp.has]]

ASSUME ClaudeAssumption == \A f \in ClaudeFiles : ClaudeAnswer(f) # NoAnswerYet

Section(t, i) == [title |-> t, at |-> i]
Keyless(ts) == {Section(t, 0) : t \in ts}

(* Object.keys of the array of sections: its indices.                       *)
MdSections(d) ==
  IF d.claude_md.is # "read" THEN {}
  ELSE Keyless({"Full Content"}) \union {Section("index", i) : i \in DOMAIN d.claude_md.sections}

SettingsSections(d) == IF d.settings.is # "read" THEN {} ELSE Keyless({"Permissions", "Plugins", "Raw JSON"})

(* The page reads the servers under "mcpServers", which the answer has not: *)
(* "No MCP servers configured", whatever is in the file.                    *)
McpSections(d) ==
  IF d.mcp.is # "read" \/ "mcpServers" \notin DOMAIN d.mcp THEN {}
  ELSE {Section("server", i) : i \in DOMAIN d.mcp.mcpServers}

Sections(d, tab) ==
  CASE d = NoAnswerYet -> {}
    [] d # NoAnswerYet /\ tab = "claude_md" -> MdSections(d)
    [] d # NoAnswerYet /\ tab = "settings" -> SettingsSections(d)
    [] d # NoAnswerYet /\ tab = "mcp" -> McpSections(d)

OpenAtMount == {"Full Content", "Permissions", "Plugins", "server"}

IsOpen(s) == (s.title \in OpenAtMount) # (s \in toggled)

-----------------------------------------------------------------------------
ClaudeInit ==
  /\ claudeFiles \in ClaudeFiles /\ claudeConfig = NoAnswerYet /\ claudeFetch = "fetching"
  /\ claudeTab = "claude_md" /\ toggled = {} /\ claudeCrashed = FALSE /\ claudeSteps = 0

EditClaudeFiles ==
  /\ claudeFiles' \in ClaudeFiles \ {claudeFiles}
  /\ UNCHANGED <<claudeConfig, claudeFetch, claudeTab, toggled, claudeCrashed>>

(* Sections that are still there keep their marks: those of CLAUDE.md by    *)
(* their place.                                                             *)
ClaudeConfigArrives ==
  /\ claudeFetch = "fetching" /\ claudeFetch' = "fetched"
  /\ claudeConfig' = ClaudeAnswer(claudeFiles)
  /\ toggled' = toggled \intersect Sections(claudeConfig', claudeTab)
  /\ UNCHANGED <<claudeFiles, claudeTab, claudeCrashed>>

(* An answer that is there stays.                                           *)
ClaudeConfigFails ==
  /\ claudeFetch = "fetching" /\ claudeFetch' = "failed"
  /\ UNCHANGED <<claudeFiles, claudeConfig, claudeTab, toggled, claudeCrashed>>

(* The button is disabled while the data is fetched again.                  *)
RefreshClaudeConfig ==
  /\ ~claudeCrashed /\ claudeFetch # "fetching" /\ claudeFetch' = "fetching"
  /\ UNCHANGED <<claudeFiles, claudeConfig, claudeTab, toggled, claudeCrashed>>

(* The sections of the other tab are mounted anew.                          *)
setClaudeTab(tab) ==
  /\ ~claudeCrashed /\ claudeTab' = tab /\ toggled' = {}
  /\ UNCHANGED <<claudeFiles, claudeConfig, claudeFetch, claudeCrashed>>

(* The content of a section of CLAUDE.md is an object where React takes     *)
(* text: opening it throws.                                                 *)
ToggleSection(s) ==
  /\ ~claudeCrashed
  /\ toggled' = IF s \in toggled THEN toggled \ {s} ELSE toggled \union {s}
  /\ claudeCrashed' = (s.title = "index" /\ ~IsOpen(s))
  /\ UNCHANGED <<claudeFiles, claudeConfig, claudeFetch, claudeTab>>

ReloadClaudeConfig ==
  /\ claudeConfig' = NoAnswerYet /\ claudeFetch' = "fetching"
  /\ claudeTab' = "claude_md" /\ toggled' = {} /\ claudeCrashed' = FALSE
  /\ UNCHANGED claudeFiles

ClaudeNext ==
  /\ claudeSteps < MaxClaudeSteps /\ claudeSteps' = claudeSteps + 1
  /\ \/ EditClaudeFiles \/ ClaudeConfigArrives \/ ClaudeConfigFails \/ RefreshClaudeConfig \/ ReloadClaudeConfig
     \/ \E tab \in ClaudeTab \ {claudeTab} : setClaudeTab(tab)
     \/ \E s \in Sections(claudeConfig, claudeTab) : ToggleSection(s)

ClaudeSpec == ClaudeInit /\ [][ClaudeNext]_claudeVars

-----------------------------------------------------------------------------
(* Types of the variables; the marks are those of sections that are shown,  *)
(* and a page that stands shows no section of CLAUDE.md open                *)
(* (ClaudeConfig.tsx 43-68, 110-124).                                       *)
ClaudeTypeOK ==
  /\ claudeTab \in ClaudeTab /\ claudeFetch \in {"fetching", "fetched", "failed"}
  /\ toggled \subseteq Sections(claudeConfig, claudeTab)
  /\ claudeFetch = "fetched" => claudeConfig # NoAnswerYet
  /\ ~claudeCrashed => \A s \in Sections(claudeConfig, claudeTab) : s.title = "index" => ~IsOpen(s)
=============================================================================
