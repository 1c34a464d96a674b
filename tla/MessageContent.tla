---------------------------- MODULE MessageContent ----------------------------
(***************************************************************************)
(* The detail of a request (Requests.tsx, RequestDetail): how the blocks    *)
(* of its messages are taken apart and shown (components/ui/MessageContent  *)
(* and components/ui/tools), and what of them the reader has opened.  The   *)
(* blocks are children keyed by their index: React keeps what was opened    *)
(* at an index when another request puts the same component there.  Blocks  *)
(* nested in the result of a tool are left out.                             *)
(***************************************************************************)
EXTENDS Naturals, Integers, Sequences, SequencesExt, FiniteSetsExt, Arrays

CONSTANTS Threads,            \* pairs of requests, each a content
          SimpleFiles,        \* how many files are listed without directories
          NoContentYet,       \* the detail is being loaded
          MaxReads            \* bound on the reader's steps

(* A content: text for itself, an array of blocks, or neither. *)
Forms == {"string", "array", "none"}

IsList(s) == s \in Seq(Range(s))
IsBlock(b) ==
  /\ b.type = "text" => IsList(b.text)
  /\ b.type = "tool_use" /\ b.name = "Edit" => IsList(b.old) /\ IsList(b.new)
  /\ b.type = "tool_use" /\ b.name = "TodoWrite" => b.todos \in Seq({"in_progress", "pending", "completed"})

ASSUME MessageAssumption ==
  /\ \A t \in Threads : Len(t) = 2 /\ \A i \in 1 .. 2 : t[i].form \in Forms /\ \A b \in Range(t[i].blocks) : IsBlock(b)
  /\ SimpleFiles \in Nat /\ MaxReads \in Nat

VARIABLES thread,             \* the two requests
          shownRequest,       \* the one selected
          fetched,            \* those whose detail is in the query cache
          content,            \* what is on the page
          opened,             \* for each index what is open in the component there
          reads               \* the reader's steps

messageVars == <<thread, shownRequest, fetched, content, opened, reads>>

-----------------------------------------------------------------------------
(* Texts are sequences of words, spaces and tags, and a part of a text is   *)
(* the stretch of it that is shown.                                         *)
FirstAt(text, word, from) ==
  LET P == {i \in from .. Len(text) : text[i] = word} IN IF P = {} THEN 0 ELSE Min(P)

Part(kind, from, to) == [kind |-> kind, from |-> from, to |-> to]

(* Without the spaces at both ends (trim): nothing is left of spaces.       *)
Filling(text, from, to) == {i \in from .. to : text[i] # " "}
Trimmed(kind, text, from, to) ==
  LET P == Filling(text, from, to) IN IF P = {} THEN Part(kind, from, from - 1) ELSE Part(kind, Min(P), Max(P))
TextPart(text, from, to) == IF Filling(text, from, to) = {} THEN <<>> ELSE <<Trimmed("text", text, from, to)>>

PartsWithoutRest(text) ==      \* faulty variant: what follows the last reminder is left out
  LET parts[i \in 1 .. Len(text) + 1] ==
        LET a == FirstAt(text, "<reminder>", i)
            b == IF a = 0 THEN 0 ELSE FirstAt(text, "</reminder>", a + 1)
        IN IF b = 0 THEN <<>>
           ELSE TextPart(text, i, a - 1) \o <<Trimmed("reminder", text, a + 1, b - 1)>> \o parts[b + 1]
  IN parts[1]

(* The loop over the matches of the reminders, and the texts between them. *)
Parts(text) ==
  LET parts[i \in 1 .. Len(text) + 1] ==
        LET a == FirstAt(text, "<reminder>", i)
            b == IF a = 0 THEN 0 ELSE FirstAt(text, "</reminder>", a + 1)
        IN IF b = 0 THEN TextPart(text, i, Len(text))
           ELSE TextPart(text, i, a - 1) \o <<Trimmed("reminder", text, a + 1, b - 1)>> \o parts[b + 1]
  IN parts[1]

OfKind(parts, kind) == Kept(parts, {i \in DOMAIN parts : parts[i].kind = kind})

(* The texts come first, and then all the reminders. *)
ReminderView(text) == OfKind(Parts(text), "text") \o OfKind(Parts(text), "reminder")

(* The definitions of tools between the first pair of tags, or no pair. *)
ToolsView(text) ==
  LET a == FirstAt(text, "<functions>", 1)
      b == FirstAt(text, "</functions>", a + 1)
  IN IF b = 0 THEN <<>>
     ELSE <<Part("text", 1, a - 1), Part("tools", a + 1, b - 1), Part("text", b + 1, Len(text))>>

TextKind(text) ==
  IF Contains(text, "<reminder>") THEN "reminders" ELSE IF Contains(text, "<functions>") THEN "tools" ELSE "plain"

(* TextContent and ToolDefinitionsContent render each other for ever when   *)
(* the definitions have no end.                                             *)
NeverRendered(block) == block.type = "text" /\ TextKind(block.text) = "tools" /\ ToolsView(block.text) = <<>>

TextView(text) ==
  CASE TextKind(text) = "reminders" -> ReminderView(text)
    [] TextKind(text) = "tools" -> ToolsView(text)
    [] OTHER -> <<Part("text", 1, Len(text))>>

-----------------------------------------------------------------------------
(* EditTool: the lines between the common beginning and the common end. *)
CommonPrefix(old, new) ==
  Max({k \in 0 .. Min({Len(old), Len(new)}) : \A i \in 1 .. k : old[i] = new[i]})

CommonSuffix(old, new) ==
  LET p == CommonPrefix(old, new) IN
  Max({k \in 0 .. Min({Len(old) - p, Len(new) - p}) : \A i \in 0 .. k - 1 : old[Len(old) - i] = new[Len(new) - i]})

computeDiff(old, new) ==
  LET p == CommonPrefix(old, new) s == CommonSuffix(old, new) IN
  [removed |-> p + 1 .. Len(old) - s, added |-> p + 1 .. Len(new) - s]

(* The two columns of the view. *)
CodeDiff(old, new) ==
  LET d == computeDiff(old, new) IN
  [old |-> [i \in DOMAIN old |-> [line |-> old[i], marked |-> i \in d.removed]],
   new |-> [i \in DOMAIN new |-> [line |-> new[i], marked |-> i \in d.added]]]

(* TodoWriteTool: the groups in the order they are shown. *)
WithStatus(todos, s) == {i \in DOMAIN todos : todos[i] = s}
TodosListed(todos) ==
  Kept(todos, WithStatus(todos, "in_progress")) \o Kept(todos, WithStatus(todos, "pending"))
    \o Kept(todos, WithStatus(todos, "completed"))

-----------------------------------------------------------------------------
(* The result of a tool: lines, each [is, dir] with what it looks like.     *)
Filled(lines) == SelectSeq(lines, LAMBDA l : l.is # "blank")
Looks(lines, kind) == Cardinality({i \in DOMAIN lines : lines[i].is = kind})
Columns(line) == IF line.is = "row" THEN 4 ELSE 1

isFileList(lines) == Len(lines) >= 2 /\ 10 * Looks(lines, "path") >= 7 * Len(lines)

isTableFormat(lines) ==
  LET n == Len(lines) sum == FoldSeq(LAMBDA l, s : s + Columns(l), 0, lines) IN
  /\ n >= 2 /\ sum >= 3 * n
  /\ \A i \in 1 .. n : n * Columns(lines[i]) <= sum + 2 * n /\ sum <= n * Columns(lines[i]) + 2 * n

analyzeContent(lines) ==
  CASE (Len(lines) > 0 /\ lines[1].is = "Error:") \/ Looks(lines, "denied") > 0 -> "error"
    [] Len(lines) = 1 /\ lines[1].is = "json" -> "json"
    [] isFileList(lines) -> "file_list"
    [] (Len(lines) > 0 /\ lines[1].is = "numbered") \/ Looks(lines, "code") > 0 -> "code"
    [] isTableFormat(lines) -> "table"
    [] OTHER -> "text"

(* The component that shows it; two kinds of content share the code viewer. *)
ResultView(block) ==
  LET lines == Filled(block.lines) IN
  CASE block.error \/ analyzeContent(lines) = "error" -> "error"
    [] lines = <<>> -> "success"
    [] analyzeContent(lines) \in {"json", "code"} -> "viewer"
    [] analyzeContent(lines) = "file_list" -> IF Len(lines) <= SimpleFiles THEN "files" ELSE "directories"
    [] OTHER -> analyzeContent(lines)

groupByDirectory(lines) ==
  [d \in {Filled(lines)[i].dir : i \in DOMAIN Filled(lines)} |-> SelectSeq(Filled(lines), LAMBDA l : l.dir = d)]

-----------------------------------------------------------------------------
(* The component of a block, and the one inside it that keeps state.        *)
Outer(block) == IF block.type = "image" /\ ~block.data THEN "missing" ELSE block.type

Inner(block) ==
  CASE block.type = "text" -> TextKind(block.text)
    [] block.type = "tool_use" -> IF block.name = "generic" /\ block.params = 0 THEN "no parameters" ELSE block.name
    [] block.type = "tool_result" -> ResultView(block)
    [] OTHER -> block.type

(* ToolInputGeneric shows three parameters and a button for the others.     *)
HiddenParams(block) == IF block.params > 3 THEN {"all"} ELSE {}

(* What the reader can open in the inner component. *)
Openable(block) ==
  CASE Inner(block) = "reminders" -> IF OfKind(Parts(block.text), "reminder") # <<>> THEN {"details"} ELSE {}
    [] Inner(block) \in {"tools", "other"} -> {"details"}
    [] Inner(block) = "viewer" -> {"fullscreen"}
    [] Inner(block) = "directories" -> DOMAIN groupByDirectory(block.lines)
    [] Inner(block) = "generic" -> HiddenParams(block)
    [] OTHER -> {}

InView(block, o) == block.type = "tool_use" => "expanded" \in o.outer

Closed == [outer |-> {}, inner |-> {}]
AllClosed == [p \in 1 .. 2 |-> Closed]

(* React's reconciliation of an index: the same component keeps its state.  *)
Reconciled(old, new, o) ==
  IF Outer(old) # Outer(new) THEN Closed
  ELSE [o EXCEPT !.inner = IF Inner(old) = Inner(new) THEN @ ELSE {}]

Mounted(c) ==
  [p \in 1 .. 2 |->
     IF content # NoContentYet /\ content.form = c.form /\ p <= Len(content.blocks) /\ p <= Len(c.blocks)
       THEN Reconciled(content.blocks[p], c.blocks[p], opened[p])
       ELSE Closed]

Hangs == content # NoContentYet /\ \E i \in DOMAIN content.blocks : NeverRendered(content.blocks[i])
Block(p) == content.blocks[p]
Shown == IF content = NoContentYet \/ Hangs THEN {} ELSE DOMAIN content.blocks

-----------------------------------------------------------------------------
MessageInit ==
  /\ thread \in Threads /\ shownRequest = 1 /\ fetched = {}
  /\ content = NoContentYet /\ opened = AllClosed /\ reads = 0

(* useRequestDetail answers. *)
ShowDetail ==
  /\ content = NoContentYet
  /\ content' = thread[shownRequest] /\ fetched' = fetched \union {shownRequest}
  /\ UNCHANGED <<thread, shownRequest, opened, reads>>

Reading == ~Hangs /\ reads < MaxReads /\ reads' = reads + 1

(* Another request is selected: from the cache at once, or it is loaded and *)
(* the page says so, without the blocks.  An entry of the cache may have    *)
(* been dropped.                                                            *)
ShowRequest(r) ==
  /\ Reading /\ r # shownRequest /\ shownRequest' = r
  /\ \/ r \in fetched /\ content' = thread[r] /\ opened' = Mounted(thread[r]) /\ UNCHANGED fetched
     \/ content' = NoContentYet /\ opened' = AllClosed /\ fetched' = fetched \ {r}
  /\ UNCHANGED thread

OpenOuter(p, mark) == opened' = [opened EXCEPT ![p].outer = SymDiff(@, {mark}), ![p].inner = {}]

(* The header of a tool; what it hides is unmounted. *)
ToggleTool(p) ==
  /\ Reading /\ p \in Shown /\ Block(p).type = "tool_use" /\ OpenOuter(p, "expanded")
  /\ UNCHANGED <<thread, shownRequest, fetched, content>>

(* An image is enlarged, or the lightbox closed by Escape or a click. *)
ToggleLightbox(p) ==
  /\ Reading /\ p \in Shown /\ Outer(Block(p)) = "image" /\ "failed" \notin opened[p].outer
  /\ OpenOuter(p, "lightbox")
  /\ UNCHANGED <<thread, shownRequest, fetched, content>>

(* The browser cannot decode an image: the component shows an error, and    *)
(* goes on doing so for the next image at its index.                        *)
ImageFails(p) ==
  /\ p \in Shown /\ Outer(Block(p)) = "image" /\ Block(p).broken /\ "failed" \notin opened[p].outer
  /\ OpenOuter(p, "failed")
  /\ UNCHANGED <<thread, shownRequest, fetched, content, reads>>

(* Details, a directory, the rest of the parameters, the full screen. *)
ToggleInner(p, mark) ==
  /\ Reading /\ p \in Shown /\ InView(Block(p), opened[p]) /\ mark \in Openable(Block(p))
  /\ opened' = [opened EXCEPT ![p].inner = SymDiff(@, {mark})]
  /\ UNCHANGED <<thread, shownRequest, fetched, content>>

MessageNext ==
  \/ ShowDetail
  \/ \E r \in 1 .. 2 : ShowRequest(r)
  \/ \E p \in 1 .. 2 : ToggleTool(p) \/ ToggleLightbox(p) \/ ImageFails(p)
  \/ \E p \in Shown : \E mark \in Openable(Block(p)) : ToggleInner(p, mark)

MessageSpec == MessageInit /\ [][MessageNext]_messageVars

-----------------------------------------------------------------------------
(* Types of the variables; what is open belongs to a component that can be  *)
(* opened.                                                                  *)
MessageTypeOK ==
  /\ shownRequest \in 1 .. 2 /\ fetched \subseteq 1 .. 2
  /\ content \in {NoContentYet, thread[shownRequest]}
  /\ \A p \in 1 .. 2 : opened[p].outer \subseteq {"expanded", "lightbox", "failed"}
  /\ reads \in 0 .. MaxReads

IsWord(w) == w \notin {" ", "<reminder>", "</reminder>", "<functions>", "</functions>"}
IsIn(part, i) == i \in part.from .. part.to
Unmarked(column) == Kept(column, {i \in DOMAIN column : ~column[i].marked})

(* Where the rendering of a content ends (see DefinitionsAreCollapsed),      *)
(* nothing of it is lost or shown twice: each word of a text is in one of    *)
(* its parts, wherever the tags stand (MessageContent.tsx 227-253); the      *)
(* lines of an edit that are not marked are the same on both sides, and no   *)
(* line is marked when nothing was changed, also when lines repeat           *)
(* (EditTool.tsx 102-142); every todo is in one group (TodoWriteTool.tsx).   *)
ShownInFull ==
  content # NoContentYet /\ ~Hangs =>
    \A p \in DOMAIN content.blocks :
      LET b == Block(p) IN
      /\ b.type = "text"
           => LET view == TextView(b.text) IN
              \A i \in DOMAIN b.text :
                IsWord(b.text[i]) => \E k \in DOMAIN view : \A m \in DOMAIN view : IsIn(view[m], i) <=> m = k
      /\ b.type = "tool_use" /\ b.name = "Edit"
           => LET d == CodeDiff(b.old, b.new) IN
              /\ Unmarked(d.old) = Unmarked(d.new)
              /\ b.old = b.new => Unmarked(d.old) = d.old
      /\ b.type = "tool_use" /\ b.name = "TodoWrite" => Len(TodosListed(b.todos)) = Len(b.todos)

(* "Tool definitions content - collapsed by default" (MessageContent.tsx     *)
(* 293): a text in which TextContent finds tool definitions has them in a    *)
(* part of its own, so that its rendering ends.                              *)
DefinitionsAreCollapsed ==
  content # NoContentYet =>
    \A p \in DOMAIN content.blocks :
      Block(p).type = "text" /\ TextKind(Block(p).text) = "tools"
        => \E part \in Range(ToolsView(Block(p).text)) : part.kind = "tools"
=============================================================================
