-------------------------- MODULE ConversationsPage --------------------------
(***************************************************************************)
(* The conversations of the legacy pages (pages/Conversations.tsx): a list *)
(* (ConversationList.tsx) that the search bar filters, through the server  *)
(* when the query is long enough, and the thread of the selected one       *)
(* (ConversationThread.tsx, search.ts), whose messages the same query      *)
(* filters and marks.  A query is the set of its words.  The router keeps  *)
(* the component between the two routes that use it.                       *)
(***************************************************************************)
EXTENDS Naturals, Integers, Sequences, SequencesExt, Arrays

CONSTANTS Conversation,     \* [id -> [at, project, count]]
          FoundConversations,            \* the server's search: [long query -> [id found -> matches]]
          ShortQuery,       \* queries of one character: [query -> the projects that contain it]
          Thread,           \* [id -> Seq([type, content])], content a Seq([type, words, label]) or NoContent
          NoConversation, NoContent, MaxConversationSteps

Conv == DOMAIN Conversation
PageQuery == DOMAIN FoundConversations \union DOMAIN ShortQuery \union {{}}

ASSUME ConversationsAssumption ==
  /\ DOMAIN FoundConversations \cap DOMAIN ShortQuery = {}
  /\ IsFiniteSet(Conv) /\ Conv \subseteq Int /\ NoConversation \notin Conv
  /\ \A c \in Conv : Conversation[c].at \in Int /\ Conversation[c].project \in Int /\ Conversation[c].count \in Int
  /\ \A q \in DOMAIN FoundConversations, c \in Conv : c \in DOMAIN FoundConversations[q] => FoundConversations[q][c] \in Nat

VARIABLES urlId, urlHighlight,    \* the id in the path; highlight=true
          pageQuery,              \* q in the URL
          everywhere,             \* the search bar's scope was overridden
          sortOption, selectedId, listKnown, foundFor, loadedIds,
          hasHighlighted, marking, marked,      \* useSearchHighlight; the text it wrapped last
          conversationSteps

conversationVars == <<urlId, urlHighlight, pageQuery, everywhere, sortOption, selectedId, listKnown, foundFor, loadedIds,
                      hasHighlighted, marking, marked, conversationSteps>>

-----------------------------------------------------------------------------
ConversationPrecedes(option, a, b) ==
  CASE option = "recent" -> Conversation[a].at > Conversation[b].at
    [] option = "project" -> Conversation[a].project < Conversation[b].project
    [] OTHER -> Conversation[a].count > Conversation[b].count

(* sortedConversations: the sort keeps those that are equal as they came.   *)
InList(a, b) ==
  \/ ConversationPrecedes(sortOption, a, b)
  \/ ~ConversationPrecedes(sortOption, b, a) /\ a < b

(* While the server's answer is out, everything is listed. *)
ConversationsListed ==
  CASE pageQuery \in foundFor -> listKnown \cap DOMAIN FoundConversations[pageQuery]
    [] pageQuery \in DOMAIN ShortQuery -> {c \in listKnown : Conversation[c].project \in ShortQuery[pageQuery]}
    [] OTHER -> listKnown

(* What the server found is sorted again, by the number of matches. *)
ListedBefore(a, b) ==
  IF pageQuery \in foundFor /\ FoundConversations[pageQuery][a] # FoundConversations[pageQuery][b]
    THEN FoundConversations[pageQuery][a] > FoundConversations[pageQuery][b]
    ELSE InList(a, b)

filteredConversations ==
  Ranked(ConversationsListed, {p \in ConversationsListed \X ConversationsListed : ListedBefore(p[1], p[2])})

-----------------------------------------------------------------------------
(* The words of a block of type tool_use are those found in the name of the *)
(* tool.  A search sees the name as [tool:name], the reader as the title     *)
(* "Tool: name": block.label has the words found in the first alone, such as *)
(* "tool:bash".                                                             *)
Searched(block) ==
  CASE block.type = "text" -> block.words
    [] block.type = "tool_use" -> block.words \union {"tool"} \union block.label
    [] OTHER -> {}

Displayed(block) ==
  CASE block.type = "text" -> block.words
    [] block.type = "tool_use" -> block.words \union {"tool"}
    [] OTHER -> {}

ExtractedWithResults(content) ==      \* faulty variant: results of tools are searched, too
  UNION {Searched(content[i]) \union content[i].words : i \in DOMAIN content}

(* extractTextFromContent: of a tool its name, of its result nothing. *)
ExtractedText(content) == UNION {Searched(content[i]) : i \in DOMAIN content}

(* matchesSearchQuery: all words in the text, or all in the name of a tool. *)
Matching(m, q) ==
  \/ q \subseteq ExtractedText(m.content)
  \/ \E i \in DOMAIN m.content : m.content[i].type = "tool_use" /\ q \subseteq m.content[i].words

(* The scope is this session when the path names one. *)
shouldFilter == urlId # NoConversation /\ ~everywhere

(* The places in the thread of the messages that are shown.                 *)
chatMessages ==
  IF selectedId \notin loadedIds THEN {}
  ELSE {i \in DOMAIN Thread[selectedId] :
          LET m == Thread[selectedId][i] IN
          /\ m.type \in {"user", "assistant"} /\ m.content # NoContent
          /\ shouldFilter /\ pageQuery # {} => Matching(m, pageQuery)}

(* highlightMatches marks any of the words, in texts and titles of tools;   *)
(* results are never marked.                                                *)
MarkedBlocks(m, q) == {i \in DOMAIN m.content : Displayed(m.content[i]) \cap q # {}}

-----------------------------------------------------------------------------
(* The path is matched against /conversations/..., but the legacy pages     *)
(* live under /legacy: nothing is ever selected by it.                      *)
SelectedByUrl(id) == NoConversation

PageMounts ==
  /\ sortOption' = "recent" /\ selectedId' = SelectedByUrl(urlId')
  /\ hasHighlighted' = FALSE /\ marking' = {} /\ marked' = NoConversation

ConversationsInit ==
  /\ urlId \in Conv \union {NoConversation}
  /\ pageQuery \in PageQuery /\ urlHighlight \in {FALSE, urlId # NoConversation /\ pageQuery # {}}
  /\ everywhere = FALSE /\ sortOption = "recent" /\ selectedId = SelectedByUrl(urlId)
  /\ listKnown = {} /\ foundFor = {} /\ loadedIds = {}
  /\ hasHighlighted = FALSE /\ marking = {} /\ marked = NoConversation /\ conversationSteps = 0

(* navigate: the id only, the query is left behind. *)
handleConversationSelect(id) ==
  /\ selectedId' = id /\ urlId' = id
  /\ pageQuery' = {} /\ urlHighlight' = FALSE
  /\ UNCHANGED <<everywhere, sortOption, listKnown, foundFor, loadedIds, hasHighlighted, marking, marked>>

ClickConversation(i) == handleConversationSelect(filteredConversations[i])

(* findIndex: 0 for none. *)
IndexOf(id) ==
  LET at == {i \in DOMAIN filteredConversations : filteredConversations[i] = id}
  IN  IF at = {} THEN 0 ELSE CHOOSE i \in at : TRUE

(* The list's keys, anywhere in the window. *)
ConversationDown ==
  /\ filteredConversations # <<>>
  /\ LET next == IndexOf(selectedId) + 1 IN
       ClickConversation(IF next > Len(filteredConversations) THEN Len(filteredConversations) ELSE next)

ConversationUp ==
  /\ filteredConversations # <<>>
  /\ LET prev == IndexOf(selectedId) - 1 IN ClickConversation(IF prev < 1 THEN 1 ELSE prev)

cycleSortOption ==
  /\ sortOption' = CASE sortOption = "recent" -> "project" [] sortOption = "project" -> "messages" [] OTHER -> "recent"
  /\ UNCHANGED <<urlId, urlHighlight, pageQuery, everywhere, selectedId, listKnown, foundFor, loadedIds, hasHighlighted, marking, marked>>

SearchConversations(q) ==
  /\ pageQuery' = q
  /\ UNCHANGED <<urlId, urlHighlight, everywhere, sortOption, selectedId, listKnown, foundFor, loadedIds, hasHighlighted, marking, marked>>

Widen ==
  /\ everywhere' = ~everywhere
  /\ UNCHANGED <<urlId, urlHighlight, pageQuery, sortOption, selectedId, listKnown, foundFor, loadedIds, hasHighlighted, marking, marked>>

(* A result of the dropdown, or a link: the component stays. *)
FollowResult(id, q) ==
  /\ urlId' = id /\ pageQuery' = q /\ urlHighlight' = TRUE /\ everywhere' = FALSE
  /\ UNCHANGED <<sortOption, selectedId, listKnown, foundFor, loadedIds, hasHighlighted, marking, marked>>

LoadPage ==
  /\ PageMounts
  /\ everywhere' = FALSE /\ listKnown' = {} /\ foundFor' = {} /\ loadedIds' = {}
  /\ UNCHANGED <<urlId, urlHighlight, pageQuery>>

ListArrives ==
  /\ listKnown = {} /\ listKnown' = Conv
  /\ UNCHANGED <<urlId, urlHighlight, pageQuery, everywhere, sortOption, selectedId, foundFor, loadedIds, hasHighlighted, marking, marked>>

SearchArrives ==
  /\ pageQuery \in DOMAIN FoundConversations \ foundFor /\ foundFor' = foundFor \union {pageQuery}
  /\ UNCHANGED <<urlId, urlHighlight, pageQuery, everywhere, sortOption, selectedId, listKnown, loadedIds, hasHighlighted, marking, marked>>

(* The effect runs when the content is there, once per mount; the text is   *)
(* wrapped a moment later.                                                  *)
DetailArrives ==
  /\ selectedId # NoConversation /\ selectedId \notin loadedIds
  /\ loadedIds' = loadedIds \union {selectedId}
  /\ LET mark == urlHighlight /\ pageQuery # {} /\ ~hasHighlighted IN
       /\ hasHighlighted' = (hasHighlighted \/ mark)
       /\ marking' = IF mark THEN pageQuery ELSE marking
  /\ UNCHANGED <<urlId, urlHighlight, pageQuery, everywhere, sortOption, selectedId, listKnown, foundFor, marked>>

MarkText ==
  /\ marking # {} /\ marking' = {}
  /\ marked' = IF selectedId \in loadedIds THEN selectedId ELSE marked
  /\ UNCHANGED <<urlId, urlHighlight, pageQuery, everywhere, sortOption, selectedId, listKnown, foundFor, loadedIds, hasHighlighted>>

ConversationsNext ==
  /\ conversationSteps < MaxConversationSteps /\ conversationSteps' = conversationSteps + 1
  /\ \/ \E i \in DOMAIN filteredConversations : ClickConversation(i)
     \/ ConversationDown \/ ConversationUp \/ cycleSortOption \/ Widen \/ LoadPage
     \/ \E q \in PageQuery \ {pageQuery} : SearchConversations(q)
     \/ \E id \in Conv, q \in DOMAIN FoundConversations : FollowResult(id, q)
     \/ ListArrives \/ SearchArrives \/ DetailArrives \/ MarkText

ConversationsSpec == ConversationsInit /\ [][ConversationsNext]_conversationVars

-----------------------------------------------------------------------------
(* Types of the variables. *)
ConversationsTypeOK ==
  /\ urlId \in Conv \union {NoConversation} /\ selectedId \in Conv \union {NoConversation}
  /\ pageQuery \in PageQuery /\ foundFor \subseteq DOMAIN FoundConversations /\ loadedIds \subseteq Conv
  /\ marking \in PageQuery

(* A message that a search leaves in the thread shows why: something in it  *)
(* is marked, unless all the words searched for stand only where the name   *)
(* of a tool is written with brackets for the search (search.ts 24,         *)
(* 134-148, ConversationThread.tsx 179-274).                                *)
FilteredIsMarked ==
  shouldFilter /\ pageQuery # {} =>
    \A i \in chatMessages :
      LET m == Thread[selectedId][i] IN
      \/ MarkedBlocks(m, pageQuery) # {}
      \/ pageQuery \subseteq UNION {m.content[j].label : j \in {k \in DOMAIN m.content : m.content[k].type = "tool_use"}}

=============================================================================
