# A verification development for cc-viz

cc-viz indexes the conversations that Claude Code writes as `.jsonl` files under
`~/.claude/projects` into a SQLite database, and shows them in a browser. This
directory holds TLA+ models of its concurrent core (the conversation indexer and the live
channel) and of the pages of its dashboard, TLC configurations that check
them on small instances, and proofs that TLAPS checks. `PROJECT.json` lists the
runs, the mutants, the findings, the hazards and, definition by definition, the
source lines each definition stands for.

## 1. The system

| Component | State it keeps | Operations | Interacts with |
|---|---|---|---|
| Conversation indexer, watching side (`internal/service/indexer.go`) | fsnotify watcher and its watch list, `debounceTimers`, `indexQueue` (100) , `done` | `watchFiles`, `debounceIndexing`, the `time.AfterFunc` callbacks, `processIndexQueue`, `Stop` | the kernel's event queue, main's shutdown, the indexing side |
| Conversation indexer, indexing side (`indexer.go`, `UpsertSessionsForConversation`, `ReindexConversations`) | tables `conversations`, `conversation_messages`, `conversations_fts`, `sessions`, `session_conversation_map` | `initialIndex`, `needsIndexing`, `indexFile`, `removeConversation`, reindex endpoint | SQLite (one writer at a time, a pool of connections), the file system |
| Subagent indexer (`subagent_indexer.go`) | its own watcher, timers and queue, table `subagent_graph` | `initialIndex`, `indexFile`, `findParentAgentID`, `scheduleIndex` | the same files, the session aggregates |
| Session data indexer (`session_data_indexer.go`) | tables of todos, todo sessions and plans | `IndexTodos`, `IndexPlans`, the upserts | boot pipeline, `POST /api/v2/claude/todos/reindex` |
| Relationship linker (`relationship_linker.go`) | `session_file_changes`, `plan_session_map` | `ExtractAndSaveFileChanges`, `LinkPlansToSessions` | plans, conversations; runs after the session data indexer |
| Extension indexer and toggle (`extension_indexer.go`, `storage_fts5.go`, `data_handler.go`) | extensions, their full-text rows, `settings.json` | delete-and-insert re-index, save, delete, toggle | boot pipeline, HTTP |
| Live channel, server (`data_handler_v3.go` 1123-1337) | per connection: topics, `seqByTopic`, `hashByTopic` | a reader goroutine and a ticker loop, both streaming snapshots | every table, the browser |
| Live channel, client (`frontend/src/lib/live/LiveProvider.tsx`, hooks of `api-v3.ts`) | socket, `seqRef`, `topicsRef`, reconnect timer, the query cache of the viewer | connect, message, close, subscribe, unsubscribe, fetch, navigate | the server's connection, the viewer's pages |
| Viewer (`router.tsx`, `pages-v3`, `mantine/layout/AppShellRoot.tsx`) | route, selected session, tab, row, drawer, filters, palette | clicks, links, Back, deep links, searches, answers | the live client's cache, the API |
| Legacy dashboard (`legacy-router.tsx`, `pages`, `components`) | URL, local storage, React state and effects of each page, query cache | typing, clicks, keys, links, page loads, answers, timers | the API, the other windows through local storage |
| Startup and shutdown (`cmd/viz-server/main.go`) | lifetime of everything above | start of the indexers, background artifact processing, signal, deferred Stops | all |
| Storage bootstrap (`storagehybrid`, the migrations) | schema, pragmas | create, migrate | runs before the indexers |
| Search, statistics, handlers | none of their own | read-only queries | the tables |

What is hard to test in it is listed under `hazards` in `PROJECT.json`, each at its
line. In short: five kinds of goroutines hand file paths to one another through
a kernel buffer, a timer map and a bounded channel; two goroutines index the
same conversation at once, each from its own read of a file that other processes
change; a third removes conversations meanwhile; the work of one file is a
transaction followed by three statements on their own; the process may stop
between any two of them. In the browser one thread runs everything, but handlers
await answers, effects run after renders, timers debounce what is typed, listeners
keep what an earlier render gave them, and answers arrive in any order; a page must
show, open and delete what the user chose, not what was true some renders ago.

What makes each component correct:

- watching: no change that was seen is lost on its way to the worker, whatever is
  cancelled, blocked or reordered; what was seen is eventually read; the timer map
  neither grows nor holds dead entries; stopping disturbs nobody.
- indexing: a conversation never shows parts of two contents; messages and
  full-text entries agree; a stale conversation is noticed; sessions and
  conversations are mapped to each other completely, and only to what exists.
- subagents: every agent file is eventually indexed; the hierarchy is a forest of
  the agents, each counted once.
- session data, relationships: re-indexing is idempotent and concurrent
  re-indexing harmless; links point to rows that exist.
- extensions: a re-index is a refinement of "the table equals the directory"; a
  toggle is never lost.
- live channel: a topic subscribed to and data at rest imply that the page shows
  that data.
- pages: a list, a highlight, a page number and a drawer agree with each other and
  with the URL; what is compared is loaded; what is deleted was confirmed; a search
  that hides shows why it kept the rest; figures shown twice agree; nothing of a message is lost.
- lifecycle: nothing uses the storage after it was closed.

## 2. Modules

`DirtyFiles` (abstract). What a watching side promises an indexing side: a set of
dirty files. `Notice` marks a file dirty, `Process` reads at least the content noticed
last and may then clear it. Nothing is said of timers, queues or delays.

`ConversationWatch` (watching side). The kernel buffer is a sequence of events,
`Raise` loses one when its directory is not watched or the buffer is full.
`StartWatching`, `AddDir`, `EnterLoop`, `HandleWrite`, `HandleOther`, `WatchReturn`
are `watchFiles`; `Debounce` is `debounceIndexing`; each timer is an identity with a
state (`armed`, `sending` after it fired, `deleting` after the send), so that an old and a new
timer of a path coexist as they do in Go; `Take`, `IndexTaken`, `LeaveLoop` are
`processIndexQueue`; `CloseDone`, `CloseWatcher`, `CloseQueue`, `ExitProcess` are `Stop` and
the end of main. The content of a file is the number of writes it had. The mutex
`ci.mu` is never held across a blocking operation, so a critical section is one step.

`ConversationStore` (indexing side). Files have versions; `Content` gives the messages
of a version. The walker (`initialIndex`) and the worker (`processIndexQueue`) are two
threads with a program counter: chosen, parsed, then the transaction (`Commit`) and the three
statements of `UpsertSessionsForConversation`. A statement on its own and a transaction
are one step each, because SQLite has one writer at a time; between them everything
interleaves, and `Crash` may come. Its input from the watching side is a set of
dirty files, that is, `DirtyFiles`: a file may stay dirty after it was
taken, and a change may go unnoticed. Whether foreign keys are enforced is drawn
for each statement (`fk`), because the pragma is run once on one connection of a pool. `newer`
abstracts the comparison of `indexed_at` (whole seconds) with mtime: after a commit it is
either value, after a later write it is TRUE. `Textual` are the messages with a text or the name of
a tool, the only ones `indexFile` gives a full-text entry; inside its loop an insertion that fails, of a message
or of its entry, is logged and the loop goes on, so `Commit` leaves out any of them, as many as `MaxFailures` allows.
Ghost variables: `behind` (the file had already changed when its row was committed), `interrupted` (an upsert
was cut short) and `unfound` (the insertion of an entry failed); none is read by an action. Each names a
case in which the code breaks the promise and that the property therefore excludes: the code has no remedy for it.

`LiveServer` (one connection of the live channel). `Subscribe`, `Unsubscribe`, `ReaderReturn`
are the reader goroutine, `Tick` and `TickerReturn` the handler's select loop. Both run
`streamTopicSnapshot`: `Build` reads a payload, `Mark` or `Unchanged` is `markSnapshot` (under
`stateMu`), `Send` or `SendFails` writes the event (under `writeMu`), `EndOfList` ends the loop over
topics. Between two of these the other goroutine, the data (`Change`), the client
(`Ask`, `Disconnect`) and other writes (`OtherWriteFails`) interleave. A payload is a version,
read at one instant, and its hash is the version; a version may come back. The order of a list of
topics is left open. `stray` is a ghost: events of a topic sent since it was unsubscribed.

`LiveChannel` (abstract). What a connection promises about one topic, without goroutines: a listed topic is
read (`Take`), a version read that differs from the last one numbered gets the next number (`Number`),
another is skipped, a numbered event is delivered or lost with the connection. Events may overtake each
other, one may come after the topic was left, and a version may be out of date when it is numbered.
`LiveServer` implements it for each topic (`Channel(t)`): a version is taken while a goroutine holds it
in `build`, an event is in flight while one holds it in `send`, and a topic is listed `"once"` when it was left
but still stands on the ticker's list.

`LiveClient` (the live channel in the browser). The socket is connecting, open or closed,
with the messages under way in both directions; `Open`, `Close`, `Reconnect`, `Receive` are the
handlers of `LiveProvider.tsx`, `Retopic` the effect of `useLiveTopic` (leave the old topic, join the
new one; `send` drops a message while the socket is not open). A query key holds the version its
answer was made from; `ReadAnswer` and `Arrive` are the two ends of a fetch, `Refetch` the
cancel-and-restart of an invalidation, `Mount` what happens when a page observes a key. The
selected session may come from the list, so an answer that arrives can change the topics.
`due` is a ghost: the newest version an event has announced for a key. An event does not count while the key has an answer on its
way that was made before it and that the event does not cancel (the first answer of a key, or one a page asked for that was
left): that answer may be stale, and the page shows it until the next event or fetch.
The server is reduced to what a connection promises (`LiveChannel`), of which it takes the behaviours in
order: a topic subscribed to is streamed once per version, numbered from 1 on every connection. That an event is
overtaken by at most one other (`OneBehind`, proved of `LiveServer`) is left out: the client treats every event alike.

The pages, one module each. A step is one event (of the user, a timer, an answer) with the
renders and effects it causes before the next event; whatever survives from an earlier
render (a listener, a debounced value, a copied prop) is a variable.

| Module | Code | State that is hard to keep together |
|---|---|---|
| `LegacyShell` | `legacy-router.tsx`, `SearchContext.tsx`, `SearchBar.tsx`, `EverythingDropdown.tsx`, `Sidebar.tsx` | the dropdown's index, tab, answer and the listener that closes over an earlier render |
| `RequestsPage` | `Requests.tsx`, `DataManagementBar.tsx`, `RequestCompareModal.tsx` | handlers between two awaits, over the query cache |
| `MessageContent` | `ui/MessageContent.tsx`, `ui/tools/*`, `ui/ImageContent.tsx` | what is shown of the blocks of a message, and what was opened at an index; whether its rendering ends |
| `ConversationsPage` | `Conversations.tsx`, `ConversationList.tsx`, `ConversationThread.tsx`, `search.ts` | the query filters a list and a thread and marks words, over texts that differ: `[tool:name]` is searched, `Tool: name` is marked |
| `Cockpit` | `CockpitView.tsx`, `SessionListPanel.tsx`, `SessionDetailPanel.tsx` | selection in the URL, index in the list, copied todos |
| `SessionTimeline` | `SessionTimeline.tsx`, its two panels, `SearchInput.tsx`, `useDebouncedValue.ts` | debounced searches, with their timers, of components that come and go |
| `SessionDataPages` | `SessionData.tsx`, `TodosSearch.tsx`, `PlansSearch.tsx` | re-indexing under an open detail; filters and pages |
| `ExtensionWorkshop` | `ExtensionWorkshop.tsx` and its cards, filters and drawer | two runs of the server's indexer that empty and fill the table while the page lists it; a refetch that fails, or joins the first fetch |
| `ExtensionsHub` | `ExtensionsHub.tsx`, `PluginView.tsx` | filters in the URL that reload the page; counts and the links they carry |
| `TokenEconomics` | `TokenEconomics.tsx`, its charts, `AnomalyAlerts.tsx`, `ErrorBoundary.tsx` | figures worked out in several places; failed queries |
| `MissionControl` | `MissionControl.tsx`, `ui/DataList.tsx` | a feed merged of three answers; a table with sort, pages and selection |
| `DashboardDates` | `DateRangeContext.tsx`, `utils.ts`, `GlobalDatePicker.tsx`, `v3-date-range.tsx` | dates of the user and of UTC, the clock going on |
| `SettingsPage` | `Settings.tsx`, `useSettings.ts`, `storage.ts`, `ConfirmDeleteModal.tsx` | windows over one storage; the typed confirmation |
| `ClaudeConfigPage` | `ClaudeConfig.tsx`, `GetClaudeConfigV2` | sections that open and stay open by their keys |
| `SessionsExplorer` | `SessionsExplorerPage.tsx`, `SearchPage.tsx`, `AppShellRoot.tsx`, `deep-links.ts` | a deep link's focus against clicks and late answers |
| `ExtensionsConfig` | `ExtensionsConfigPage.tsx` | the drawer, the path and the history |

Data are abstracted to what these tell apart: a search is the set of what it finds, a query
the set of its words, a day or a time a number, a text a sequence of words and tags, an
extension or a request a record of the fields that filters look at. The trend of the token page is left out: the server
collects the days from a Go map (`storage_sqlite.go:1512-1514`), so that which weeks it compares is random. Sorting, paging, counting
and the statistics of the alerts are done as the code does them.

`Arrays` is what those pages do to a list: `Ranked` sorts a set by a total order (`Array.sort`; a stable
sort of rows that may tie is the order of what is compared, then of the place), `Kept` filters (`Array.filter`),
`FirstOf` cuts (`Array.slice`), `SumOf` adds up (`Array.reduce`). An element's place is the number of elements
ahead of it, so that theorems can speak of a sorted list without recursion; a sum is a recursive function of
the set of places still to be added. The parts of a message are stretches of its text, from one
place to another, so that a word can be said to lie in one part and in no other.

`MCPages` puts the pages side by side. They share no state but the API and the URL they were
opened with, so one of them is mounted (variable `mounted`, drawn from the run's `Mountable`), takes its steps, and the
others have none; their product would say nothing more. `MC...` modules give the constants small values. `...Proofs` modules hold the theorems.

The faulty variants of actions in the modules (`SendOrDrop`, `EntriesKept`, ...)
are used by no specification: each is a plausible bug that the mutant entries of
`PROJECT.json` put in the place of the real definition, and the property named there then fails.

## 3. Runs

| Run | Question | Bounds |
|---|---|---|
| `watch` | is a debounced event ever lost, does the map hold dead timers; is what was seen eventually read, are entries eventually deleted; do the goroutines implement `DirtyFiles` | 2 files, one written twice, 2 timers, queue 1, kernel buffer 1 |
| `store_shared` | do messages, full-text entries and the session map agree when two conversations share a message | 2 files, 2 conversations, 1 message, 1 crash or failing statement |
| `store_one_name` | does a conversation ever hold or find a mixture; is a stale one noticed | 2 paths of one base name, 3 writes, 2 messages without a session (one without text), one path removable, 1 crash or failing statement |
| `live_server` | is a number ever lost, how many events outlive an unsubscription, are events changes, are numbers unique, does the newest event become the data, do the goroutines implement `LiveChannel` | 1 topic, 2 payloads, 2 changes, 3 client messages |
| `live_client` | does the server stream what is shown, is what was announced shown in the end | 2 sessions, 3 keys, 1 change, 1 lost connection or navigation |
| `pages` | do the pages show, select, compare, clear and delete what was found, chosen and confirmed | one of 17 instances, each 2-4 items and 3-8 user events (below) |

A queue of one is the smallest that can be full while one path waits and another blocks;
two timers allow one blocked or deleting and one armed for the same path, the case
in which the deletion by path goes wrong, and a path may get both when it is written twice. Two writes of one path and one of the
other are what two indexing goroutines need to commit in the wrong order, and one crash or failure is enough
to hit every gap between two statements, since recovery has no state of its own. No file is removable in `store_shared`:
`MessagesAreSearchable` does not speak of files that may be; the entries a removal leaves behind are looked at in `store_one_name`.
`CHECK_DEADLOCK FALSE` in the store's configurations: writes are finitely many and an idle indexer
with nothing dirty really does rest. `watch` checks deadlock, with a stuttering
step for a process that has ended.

Two payloads and two changes let a payload come back while an event of the other one is
still held; three messages allow subscribing, unsubscribing and subscribing again. Topics
do not interact but in the lists of `Tick` and `Subscribe`; the theorems take any number of them.

`pages`, per instance: the shell has two queries, each finding two results of two kinds, so that an answer can replace one
of equal length; requests
2 requests and 5 gestures or failing fetches; settings 2 windows, 3 words and 2 changes; dates 4 thirds of a day, 3 clicks
and 1 page load (the viewer in UTC; the proofs take any zone); cockpit 3 sessions and 5 steps; timeline 3 files
of 2 sessions and 8 steps; conversations 3 and 6 steps; explorer 2 sessions, 3 rows (none of them or all of them
at the start), 4 gestures and 1 change; workshop 3 versions of 2 extensions (none of them or both on the disk at
the start, whose own indexing is over: another run of the indexer arises when the page gives up on a re-indexing or reloads; the
theorem takes both) and 3 gestures, the server's steps and answers not counted; Claude configuration each file in each of its states beside two readable ones, and no
file at all; hub 4 extensions of 3 plugins and 6 steps;
config 2 extensions and 4 steps; data 2 todo files, a plan and 6 steps, the searches 2 rows per page;
tokens two ranges of 6 and 14 days, 4 conversations and 8 steps; messages: every Edit of up to three lines of two words, every
text of up to four words and reminder tags or three words and definition tags, and every pair of the other blocks; mission control 3 conversations, 2
todo files, 2 plans and 6 steps. The bound on steps is in each case longer than the shortest way to the
states its hazards name: open, type, await, navigate away and back, answer. Every
property has a mutant of the code that breaks it within these bounds. Pages rest when
their bound is reached, hence `CHECK_DEADLOCK FALSE`.

Two sessions and one change are what a page needs to leave a topic, join another and be
announced a version; a connection that is lost once starts its numbers anew, the only
state a second loss could meet again.

Fairness. `LiveClient`: weak fairness of the event loop's tasks, the reconnect timer, the
server's reads, ticks and answers. Lost connections and navigations are not fair: they may stop.
`ConversationWatch`: weak fairness of the watcher, the worker and each timer's
callback: Go runs every runnable goroutine, timers fire, and a channel serves blocked
senders in order. Nothing obliges files to be written or main to stop. `ConversationStore`
(for the leads-to of `store_delete`): weak fairness of each goroutine's steps and of a restart. `LiveServer`: weak
fairness of both goroutines, since the ticker never stops, and strong fairness of reading
a topic's payload, since a snapshot may fail (busy database) but not every time.

Runs that show a disagreement (each is a finding, with the line it contradicts):

| Run | What TLC finds |
|---|---|
| `watch_stop` | Stop closes the queue under a callback that then panics |
| `store_delete` | parse, remove, commit: the removed conversation is back for good |
| `extension_search` | the answer to a search has `results`, the hub reads `extensions`: a search lists nothing |
| `palette_enter` | after an answer of as many results as the one before, Enter opens a result of that one: the effect that registers the listener (`EverythingDropdown.tsx:194`) depends on the number of results, not on the results, where line 359 says "Enter to select" |
| `unclosed_tools` | definitions of tools without a closing tag are handed whole to the component that hands them back (`MessageContent.tsx:300`): the rendering does not end, where line 293 has them "collapsed by default" |
| `token_error` | a failure of the token page skips hooks: React throws, the error boundary replaces the alert |

Read from the code while modelling, and part of the models, but without a run of
their own. Indexer: directories made after the watcher listed them raise no event
(`indexer.go:342`); a callback that was blocked in its send deletes the map entry by path, which by then
may be a newer timer's, so that a second timer can run for the path (`indexer.go:400`); a file changed between
its read and its commit is stale and looks fresh (`indexer.go:198`, the exception in `StaleIsNoticed`); the full-text
entries of a removed conversation stay until it is indexed again, because its row is deleted before it is asked for the id
(`indexer.go:407-415`); what a crash after the commit keeps from `session_conversation_map` no later start adds
(`indexer.go:326`, the exception in `SessionMapComplete`); the map rows of a removed conversation stay on connections
without foreign keys (`storage_sqlite.go:30`); `sessions.message_count` is the count of one of the
session's conversations (`storage_sqlite.go:3381`); the reindex endpoint clears
`indexed_at`, which only the next start reads (`storage_sqlite.go:2578`).
Pages: `refetch()` resolves when the fetch fails, so a clearing or a re-indexing then ends with the old list and no word of
it (`Requests.tsx:405`, `ExtensionWorkshop.tsx:131`, the exceptions in `ClearedListIsNew` and `ReindexShowsDisk`); a re-indexing pressed before the
first list has arrived takes that one for the new (`joining`); the search for "tool:name" keeps messages in which nothing is
marked (`search.ts:24`, the exception in `FilteredIsMarked`); `clearAllRequests` does not look at the status of the answer, so a refusal looks like a
success (`api.ts`, `DeleteAnswered`), and the Go server of this repository has no route of the requests at
all; the extensions hub forgets its search when a filter reloads the page (`ExtensionsHub.tsx:38-48`);
`AnomalyAlerts.tsx` marks days above mean plus two deviations where its comment speaks of
twice the mean; the answer of `GetClaudeConfigV2` has no `mcpServers`, and its sections are no
texts to render (`ClaudeConfig.tsx:119`).

## 4. Proofs

`ConversationWatchProofs`, for any files, directories, timers, queue capacity and kernel buffer:
`TypeCorrect`, `EntriesCorrect`, `Refinement` (the specification implements `DirtyFiles`) and
`NoEventIsLost`. The inductive invariant is `TypeOK /\ EntriesAreLive /\ ObservedIsPresent`.
The entries must be live for the refinement: cancelling the timer found in the map is
harmless only because that timer is one of the same path. `ObservedIsPresent` (what was
seen of a file that is gone is forgotten) is what makes reading a missing file a legal
`Process`. The refinement proof follows a path from one waiting place to the next
(event, timer, queue, worker): each lemma `...Pending` says that one step moves it
and drops nothing. `NoEventIsLost` then follows from the same lemmas.

`ConversationStoreProofs`, for any files, conversations, messages, sessions, contents
and numbers of writes and crashes: `TypeCorrect`, `SnapshotCorrect`, `SearchCorrect`, `StaleCorrect`,
`SessionMapCorrect`. The inductive invariant is `TypeOK /\ VersionsExist`: a version that a
goroutine parsed or a row stands for is one the file has had, without which the content of a
commit is undefined. Each property is inductive relative to it (`SearchCorrect` also needs
that only removable files reach the remover), one step per action.

`LiveServerProofs`, for any topics, payloads, numbers of changes and messages: `TypeCorrect`,
`NumbersCorrect`, `UniqueCorrect`, `ChangesCorrect`, `StraysCorrect`. Lemmas about `Events` (written or
held) say once what each step does to them; the inductive invariant adds to the types that an
event carries a number that was given (`Numbered`). `StraysCorrect` needs `StrayBounded`: the
reader, being sequential, streams subscribed topics only, so a stray event is the ticker's, which is
past the topic after it.

`ChannelCorrect`: the specification implements `LiveChannel` for every topic, and with it `EachChannelCorrect`, the same
as `Channel(t)!Spec`. One lemma per kind of step says which step of the channel it is: `LoopsRefine` (a goroutine goes on to the next
topic of its list), `ListRefines` (subscribing, a tick), `MarkRefines` (a version held is numbered or skipped),
`SendRefines` (an event is written or lost). `Taken` and `InFlight` are images of the two goroutines, so that the version or the event of one
leaves them when it is not the other's too (`ImageWithout`): versions may coincide, events
may not, which is where `SeqsAreUnique` is needed; that a topic which is not subscribed is the ticker's alone is `StrayBounded`. The
inductive invariant is these two with `TypeOK`. `OneBehindCorrect`: until a write fails, of the numbers below one that arrived at most
one has not arrived. It needs `GapBounded`: the missing numbers are those of events in flight, and an event is numbered while at most one
other is in flight, because there are two goroutines and the numbering one holds none. `OneBehind` stands in no run
of its own; the refinement that a run checks is what carries it.

`LiveClientProofs`, for any topics, routes, sessions, list contents and numbers of changes and lost
connections: `TypeCorrect` and `StreamsCorrect`. The inductive invariant says what the queue of
messages to the server means (`Streamed`: the last message that names a topic decides, and without one the
subscriptions do) and that this meaning is `topicsRef` while the socket is open;
`StreamedAfterAppend` and `StreamedAfterHead` say what sending and reading do to it. A closed
socket has neither messages nor subscriptions, so that `Open` restores the whole of `topicsRef`.

`ArrayProofs`, for any finite set and total order: `RankingCorrect` (a ranked list has every element once, the
earlier before the later), and lemmas on what `Kept` and `FirstOf` keep. The number of elements ahead of an
element is below that of any later element, so no place is taken twice; a one-to-one function into
`0 .. Cardinality(S) - 1` takes every place, so none is empty. For any finitely many numbers: `SumsArePairs`
(what `SumOf` computes is the number of pairs of a place and one of as many things as the number there says) and
from it, by bijections between such pairs, that a sum may be renamed, split, grouped (`SumByGroups`) and,
in a table with gaps, made by rows or by columns (`RowsAndColumnsAgree`).

About a recursive function two things have to be shown, that its equation has a solution and what every solution
is. Both are shown by a counterexample of least size (a smallest set of places for a sum, the last place of a
text for `Parts`): the induction theorems of the library would need an operator as a parameter.

`ListPagesProofs`, for any search results, sessions, extensions, conversations, todos and plans:

- `SelectionCorrect` (shell). The keyboard listener is the one an earlier render registered; the effect registers a new
  one only when the index, the number of results or the handlers change. `ListenerOK` therefore says no more of it than that it has
  as many results as are shown and the same index, and that what it lists was found by the query it closes over: that Enter opens
  the result highlighted does not hold (`palette_enter`).
- `CopyCorrect` (cockpit): the copied todos are those of the selected session (`CopyOK`); a tick
  keeps their number, without which the effect's comparison with the answer would fail.
- `FilteredCorrect` (conversations): a message is kept by a query only for a kind of block that is marked, or because every
  word stands in the bracketed name of a tool, a fact of every state.
- `RelatedCorrect`, `ReindexCorrect` (workshop): `WorkshopInv` adds that one row per id is in the index, and that once
  the table was emptied what was on the disk when the re-indexing was asked for is in it or yet to be saved by one of the two runs
  (`OnItsWay`), until the server reads the list of the answer, which holds it.
- `FeedCorrect` (mission control): the answers are states of the world (`Known`). An event among the latest
  `n` of its list has fewer than `n` ahead of it; the events ahead of it in the merged feed are those of three
  cut lists, and the feed is at least as long as the three together.
- `FiguresCorrect` (token page): the sums over models and over days are those over the columns and the rows of one
  table; sorting the projects is a bijection and cutting them in two splits the sum; the fallback groups the tokens of the
  conversations by project. No invariant is needed but that the range is one of those offered.

`FormPagesProofs`: `ClearedCorrect`, from the invariant that after a DELETE the fetch the handler waits for is asked
again or was answered after it (`ClearInv`), which leaves the fetch that fails; `ComparisonCorrect`, from the invariant that of
the two requests asked for each is loaded or still to be fetched (`JobInv`); both for any requests, models and gestures;
`DeletionCorrect`, from the invariant that a closed modal has no text and the text of an open one is what was
typed since it opened (`ModalInv`); `NoDayToComeCorrect` and `WeekCorrect`, for any first instant, any of the three
zones and any number of clicks, from `DatesInv`: the last render is not in the future, although
the selected date may be an instant of today that is.

`ViewerPagesProofs`: `DrawerCorrect`; `FocusCorrect`, from the invariant itself, because the effects look at
the view the next step starts from (`EffectsSelect`); `FilterCorrect`, from the invariant that a field which is not mounted has no text
left (`FieldInv`); `PageCorrect`, from `FindInv`: an offset is that of a
row of the query and the status in use, as every change of either resets it or keeps both. `ShownCorrect`, for any
two requests: `PartsHoldEachWord` says that one step of the loop over the reminders, in front of parts that hold
each word from a later place on once, holds each word from its own place on once (`StepCovers`), whatever tags are missing,
empty or adjacent; taking texts and reminders apart is a bijection between the places (`TextShown`). The unmarked
lines of an edit are its common beginning and end, `p + s` of them on either side, and the `k`-th is the same
(`EditShown`); the three groups of todos are disjoint and all there is (`TodosShown`). It speaks of messages whose rendering
ends; that of definitions without a closing tag does not (`unclosed_tools`).

`PagesTypesCorrect`, at the end of `FormPagesProofs` because it composes the three modules: `MCSpec => []PagesTypeOK`, for
any instance of the pages. Each page has a theorem of its own (`ShellTypesCorrect`, ..., `MessageTypesCorrect`) from an invariant
of its own (`ShellTypes`, ..., `MessageTypes`), and `StepOfMounted` says that a step of the dashboard is one of the page that is mounted.
The types of a page are more than the ranges of its variables, and that is where the proofs have their length:

- `CockpitTypesCorrect`: sorting keeps every session, so that the index, which no search moves, is a row of the whole list
  (`WorkedListsEach`).
- `ConversationsTypesCorrect`: each sort makes a total order, ties as they came (`InListIsTotal`), so what the arrow keys
  reach is a conversation of the list.
- `WorkshopTypesCorrect`: the count of a tab and the cards are the same set of rows (`CountsAreOfCards`).
- `MissionTypesCorrect`: the total counts no fewer conversations than the last day, and the trend of the sessions is at
  least -100 (`TrendIsBounded`); `TokenTypesCorrect`: the range is one of those offered, and once all alerts are asked for all are shown.
- `DataTypesCorrect`: the counts by status add up to the number of todos, by rows and columns (`StatusesAddUp`,
  `BreakdownIsWhole`), a full count by status is a green dot (`GreenIsDone`), and `offset` is a multiple of `Limit`.
- `ExplorerTypesCorrect`, `ConfigTypesCorrect`, `HubTypesCorrect`: what a route, a link, Back or a filter names exists; the
  history holds only such entries.
- `MessageTypesCorrect`: what is remembered of an index in the detail fits whatever component is reconciled there.
- `DatesTypesCorrect`: no range ends before it begins; the viewer's ends where it was made, not later than now.

Assumptions: those named in the modules (`FilesAssumption`, ..., `MaxAssumption`): the
functions have their types, the sets of messages and conversations are finite, markers are
not members of the sets they mark, capacities are numbers. Those of the pages say what the API answers: rows of a
kind are of that kind (`ResultsAssumption`), todos are a list (`TodosAssumption`), ids of extensions are numbers
(`WorkshopAssumption`), those of conversations and the counts found are numbers (`ConversationsAssumption`), no plugin is
named by the empty text that means "all" and an installed extension is the user's or a plugin's (`HubAssumption`), the stored
settings of an older version are values it offered (`SettingsAssumption`), messages are lists (`TimelineAssumption`), a todo file
is a list of todos in one of three states (`ContentsAssumption`), rows have ranks (`TableAssumption`), no answer
is the mark of a missing one (`ClaudeAssumption`, `QueriesAssumption`), a count is a number (`FindAssumption`), numbers of tokens are counts, of finitely many days, projects and conversations
(`TokenAssumption`), texts and the sides of an edit are lists and a todo has one of three states
(`MessageAssumption`), a thing has one state at a time (`WorldAssumption`), and the feed's length
is at least the sum of its parts (`FeedAssumption`; 10, 5 and 5 of 20 in the code). TLC evaluates them on every run.

Only model-checked:

- liveness (`ObservedIsRead`, `EntriesAreDeleted`, `NewestBecomesData`, `AnnouncedIsShown`): out of the prover's reach. Every
  safety property of a passing run is stated by a theorem.

## 5. Not modelled, and plan

Abstracted in what is modelled: the text of messages (a version is a set of message
identities), timestamps other than the comparison above, a conversation that
became empty, messages without uuid, `agent_count` and `todo_count`.
A file that vanished may be written again; a file with an older mtime put in its place is left out.

In the pages: formatting, colours, layout, lengths of texts, focus outlines, and the errors of
queries where the page only prints them. Blocks nested in a tool's result, the second mount of
development builds, and garbage collection of the query cache (ten minutes) are left out.
The pages `Dashboard`, `Usage`, `Performance`, `Routing`, `Projects`, `Configuration` and `ToolsDemo` are reached by no
route; `Home`, `V2Home`, `OverviewPage`, the viewer's `MissionControlPage` and `TokenEconomicsPage`,
`ConversationDetailPage` and `PlanDetailPage` show one answer and keep no state.

Not modelled yet, in the order in which they would be worth it; recursive operators only in
modules nothing is proved about:

1. `LiveClient` over every behaviour of `LiveChannel` instead of those in order (too many states for TLC with
   the browser's queues). Events do reach the wire out of order (`data_handler_v3.go:1255`), by at most one
   (`OneBehindCorrect`), which `LiveClient` tolerates because it treats every event alike; data that
   changes and changes back between two ticks raises no event although a page may have
   fetched it in between.
2. `SubagentWatch`: the queue that drops (`subagent_indexer.go:407`), against `DirtyFiles`, which it should fail to
   implement, and whose Stop has the hazard of `watch_stop` again (line 83). `SubagentGraph`: the parent
   search by substring (line 274) and the hierarchy as functions.
3. `SessionData` and `RelationshipLinker`, composed with the boot pipeline: todos of a session replaced by
   two re-indexings at once (`session_data_indexer.go:152`), a REPLACE that gives a plan a new id (line 241), file
   changes saved up to an error and never completed (`relationship_linker.go:60`).
4. `ExtensionIndex`: the toggle of `settings.json` (`data_handler.go:1779`), single saves and the full-text rows beside the runs of the
   indexer that `ExtensionWorkshop` has; abstract specification "table = directory".
5. `Lifecycle`: composition of startup, background processing and the deferred Stops (`main.go:46`).
6. `Queries`: FTS query, data types, snippet, percentile, hierarchy depth, against reference
   definitions on bounded inputs.

Theorems to add: those of the components above.
Read-only handlers, statistics, configuration, logging, rendering and the schema migrations
are not planned: they keep no state that another actor changes under them.
