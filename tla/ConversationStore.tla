-------------------------- MODULE ConversationStore --------------------------
(***************************************************************************)
(* The indexing side of the conversation indexer: the two goroutines that  *)
(* call indexFile (the walker of initialIndex and the worker of            *)
(* processIndexQueue), removeConversation, the reindex endpoint, and the   *)
(* SQLite tables they share, across crashes and restarts.                  *)
(*                                                                         *)
(* The content of a file is a version number; Content gives the messages   *)
(* of a version, and SessionOf the session each message names.  The        *)
(* watching side is the set of dirty files that module DirtyFiles promises *)
(* and ConversationWatch implements.  A SQL transaction, or a statement on *)
(* its own, is one step: SQLite runs one writer at a time.  The pool has   *)
(* connections on which foreign keys are enforced and others on which they *)
(* are not (PRAGMA foreign_keys is run once, on whichever connection the   *)
(* pool hands out), so each step that could cascade draws one.             *)
(***************************************************************************)
EXTENDS Naturals, FiniteSets

CONSTANTS
  File,         \* paths of .jsonl files
  Removable,    \* those that may be removed or moved away
  Conv,         \* conversation ids
  ConvOf,       \* id of a path: its base name without the extension
  Uuid,         \* messages
  Textual,      \* those with a text or a tool's name
  Content,      \* Content[f][v]: messages of f once written v times
  Session,
  SessionOf,    \* the sessionId a message carries, or NoSession
  NoSession,
  None,         \* no row, no thread's file
  MaxWrites,    \* bound: MaxWrites[f] writes of f
  MaxFailures   \* bound: crashes, and statements that fail on their own

ASSUME FileAssumption == /\ ConvOf \in [File -> Conv]
                         /\ \A f \in File : Content[f] \in [1..MaxWrites[f] -> SUBSET Uuid]
                         /\ None \notin File /\ Removable \subseteq File
ASSUME UuidAssumption == /\ SessionOf \in [Uuid -> Session \cup {NoSession}]
                         /\ None \notin Conv /\ NoSession \notin Session
                         /\ IsFiniteSet(Uuid) /\ IsFiniteSet(Conv)
                         /\ Textual \subseteq Uuid
ASSUME MaxAssumption == MaxWrites \in [File -> Nat] /\ MaxFailures \in Nat

VARIABLES
  present,      \* files that exist
  version,      \* version[f]: writes f has had
  newer,        \* newer[f]: f's mtime is after the indexed_at of its row
  dirty,        \* files whose change event is on its way to the worker
  removals,     \* files whose remove event the watcher has not received
  row,          \* table conversations
  msgs,         \* table conversation_messages: the conversation a uuid is in
  fts,          \* table conversations_fts: pairs of conversation and uuid
  unfound,      \* ghost: pairs whose insertion into it failed and was logged
  sessions,     \* table sessions
  smap,         \* table session_conversation_map: message_count of a pair
  thread,       \* what each indexing goroutine is doing
  walk,         \* files initialIndex still has to visit
  remover,      \* file of a removeConversation between its two halves
  up,           \* the process runs
  failures,     \* how many of those there were
  interrupted   \* ghost: conversations whose session upsert was cut short

disk  == <<present, version>>
tables == <<row, msgs, fts, unfound, sessions, smap>>
vars  == <<disk, newer, dirty, removals, tables, thread, walk, remover, up,
           failures, interrupted>>

Thread == {"walker", "worker"}

(* cleared: indexed_at is NULL.  behind is a ghost: the file had already
   changed again when the row was committed. *)
Row == [file : File, ver : Nat, cleared : BOOLEAN, behind : BOOLEAN]
SessionRow == [messages : Nat, conversations : Nat]
Upserting == {"upsertSession", "upsertMap", "upsertCounts"}
Busy == [pc : {"chosen", "parsed"} \cup Upserting, file : File, ver : Nat]
IdleThread == [pc |-> "idle", file |-> None, ver |-> 0]

Idle(th) == thread[th].pc = "idle"
At(th, pc) == up /\ thread[th].pc = pc
Goto(th, pc) == thread' = [thread EXCEPT ![th].pc = pc]
Rest(th) == thread' = [thread EXCEPT ![th] = IdleThread]
ConvAt(th) == ConvOf[thread[th].file]

HasRow(f) == row[ConvOf[f]] # None /\ row[ConvOf[f]].file = f
MessagesOf(c) == {u \in Uuid : msgs[u] = c}
SessionsOf(c) == {SessionOf[u] : u \in MessagesOf(c)} \ {NoSession}
CountOf(c, s) == Cardinality({u \in MessagesOf(c) : SessionOf[u] = s})

Init ==
  /\ present = {}
  /\ version = [f \in File |-> 0]
  /\ newer = [f \in File |-> FALSE]
  /\ dirty = {} /\ removals = {}
  /\ row = [c \in Conv |-> None]
  /\ msgs = [u \in Uuid |-> None]
  /\ fts = {} /\ unfound = {}
  /\ sessions = [s \in Session |-> None]
  /\ smap = [p \in Session \X Conv |-> 0]
  /\ thread = [th \in Thread |-> IdleThread]
  /\ walk = {}
  /\ remover = None
  /\ up = FALSE
  /\ failures = 0
  /\ interrupted = {}

-----------------------------------------------------------------------------
(* Claude Code writes, removes and moves files.  The watcher may not see it:
   the process is down, the directory is not watched or the event is one the
   watcher ignores. *)
Write(f) ==
  /\ version[f] < MaxWrites[f]
  /\ version' = [version EXCEPT ![f] = @ + 1]
  /\ present' = present \cup {f}
  /\ newer' = [newer EXCEPT ![f] = TRUE]
  /\ dirty' \in {dirty, IF up THEN dirty \cup {f} ELSE dirty}
  /\ UNCHANGED <<removals, tables, thread, walk, remover, up, failures, interrupted>>

Vanish(f) ==
  /\ f \in present \cap Removable
  /\ present' = present \ {f}
  /\ removals' \in {removals, IF up THEN removals \cup {f} ELSE removals}
  /\ UNCHANGED <<version, newer, dirty, tables, thread, walk, remover, up,
                 failures, interrupted>>

-----------------------------------------------------------------------------
(* Process start, and a crash, which loses everything but the tables. *)
Boot ==
  /\ ~up /\ up' = TRUE
  /\ walk' = File
  /\ UNCHANGED <<disk, newer, dirty, removals, tables, thread, remover, failures,
                 interrupted>>

Crash ==
  /\ up /\ failures < MaxFailures
  /\ failures' = failures + 1
  /\ up' = FALSE
  /\ dirty' = {} /\ removals' = {} /\ walk' = {} /\ remover' = None
  /\ interrupted' = interrupted \cup
       {ConvAt(th) : th \in {t \in Thread : thread[t].pc \in Upserting}}
  /\ thread' = [th \in Thread |-> IdleThread]
  /\ UNCHANGED <<disk, newer, tables>>

-----------------------------------------------------------------------------
(* initialIndex: filepath.Walk visits the paths that exist when it gets to
   their directory. *)

(* Faulty variant: a file is indexed once. *)
NeedsIndexingOnce(f) == ~HasRow(f) \/ row[ConvOf[f]].cleared

NeedsIndexing(f) == ~HasRow(f) \/ row[ConvOf[f]].cleared \/ newer[f]

Visit(f) ==
  /\ up /\ f \in walk /\ Idle("walker")
  /\ walk' = walk \ {f}
  /\ IF f \in present /\ NeedsIndexing(f)
     THEN thread' = [thread EXCEPT !["walker"] = [pc |-> "chosen", file |-> f, ver |-> 0]]
     ELSE UNCHANGED thread
  /\ UNCHANGED <<disk, newer, dirty, removals, tables, remover, up, failures, interrupted>>

(* parseConversationFile of the file the walker chose. *)
WalkerParse ==
  /\ At("walker", "chosen")
  /\ LET f == thread["walker"].file IN
       IF f \in present
       THEN thread' = [thread EXCEPT !["walker"] = [pc |-> "parsed", file |-> f, ver |-> version[f]]]
       ELSE Rest("walker")
  /\ UNCHANGED <<disk, newer, dirty, removals, tables, walk, remover, up, failures,
                 interrupted>>

(* processIndexQueue takes a dirty file and parses it.  An event queued behind
   a remove event keeps the file dirty. *)
WorkerParse(f) ==
  /\ up /\ Idle("worker") /\ f \in dirty
  /\ dirty' \in {dirty} \cup (IF f \in removals THEN {} ELSE {dirty \ {f}})
  /\ IF f \in present
     THEN thread' = [thread EXCEPT !["worker"] = [pc |-> "parsed", file |-> f, ver |-> version[f]]]
     ELSE UNCHANGED thread
  /\ UNCHANGED <<disk, newer, removals, tables, walk, remover, up, failures, interrupted>>

-----------------------------------------------------------------------------
(* The rest of indexFile. *)

(* The file is gone when it is statted, or the transaction fails and is
   rolled back; the error is logged and the file not tried again. *)
Abort(th) ==
  /\ At(th, "parsed")
  /\ Rest(th)
  /\ UNCHANGED <<disk, newer, dirty, removals, tables, walk, remover, up, failures,
                 interrupted>>

(* Faulty variant: the count is lowered instead of the row deleted. *)
CascadeDecrement(c, fk) ==
  smap' = [p \in Session \X Conv |-> IF fk /\ p[2] = c THEN smap[p] - 1 ELSE smap[p]]

(* REPLACE deletes the rows it conflicts with, and with foreign keys enforced
   that deletes what references them. *)
CascadeMap(c, fk) ==
  smap' = [p \in Session \X Conv |-> IF fk /\ p[2] = c THEN 0 ELSE smap[p]]

(* Faulty variant: the old full-text entries are not deleted. *)
EntriesKept(c, us) == fts \cup ({c} \X us)

(* Faulty variant: a message stored elsewhere gets no entry here. *)
EntriesOfNew(c, us) ==
  {p \in fts : p[1] # c} \cup ({c} \X {u \in us : msgs[u] \in {None, c}})

(* The full-text entries of a conversation are replaced. *)
Entries(c, us) == {p \in fts : p[1] # c} \cup ({c} \X us)

(* The transaction: the conversation's row is replaced, its full-text entries
   and messages are deleted, and those of the parsed content inserted; a
   message that was in another conversation moves here.  Only a message with a
   text or a tool's name has an entry; an insertion that fails, of the entry or
   of the message, is logged and the loop goes on.  indexed_at has whole
   seconds, so a file modified within the second of the commit looks newer. *)
Commit(th) ==
  LET f == thread[th].file
      c == ConvAt(th)
      v == thread[th].ver
      us == Content[f][v]
  IN
  /\ At(th, "parsed")
  /\ row' = [row EXCEPT ![c] = [file |-> f, ver |-> v, cleared |-> FALSE,
                                behind |-> v < version[f]]]
  /\ newer' \in {[newer EXCEPT ![f] = b] : b \in BOOLEAN}
  /\ \E stored \in SUBSET us, found \in SUBSET (us \cap Textual) :
       LET failing == (us \cap Textual) \ found IN
       /\ msgs' = [u \in Uuid |-> IF u \in stored THEN c ELSE IF msgs[u] = c THEN None ELSE msgs[u]]
       /\ fts' = Entries(c, found)
       /\ unfound' = {p \in unfound : p[1] # c} \cup ({c} \X failing)
       /\ failures' = failures + Cardinality(us \ stored) + Cardinality(failing)
       /\ failures' <= MaxFailures
  /\ \E fk \in BOOLEAN : CascadeMap(c, fk /\ row[c] # None)
  /\ Goto(th, "upsertSession")
  /\ UNCHANGED <<disk, dirty, removals, sessions, walk, remover, up, interrupted>>

(* UpsertSessionsForConversation, three statements on their own. *)
UpsertSession(th) ==
  LET c == ConvAt(th) IN
  /\ At(th, "upsertSession")
  /\ sessions' = [s \in Session |->
       IF row[c] # None /\ s \in SessionsOf(c)
       THEN [messages |-> CountOf(c, s),
             conversations |-> IF sessions[s] = None THEN 0 ELSE sessions[s].conversations]
       ELSE sessions[s]]
  /\ Goto(th, "upsertMap")
  /\ UNCHANGED <<disk, newer, dirty, removals, row, msgs, fts, unfound, smap, walk, remover,
                 up, failures, interrupted>>

(* Faulty variant: UPDATE, which adds no row. *)
UpdateMap(th) ==
  LET c == ConvAt(th) IN
  /\ At(th, "upsertMap")
  /\ smap' = [p \in Session \X Conv |->
       IF p[2] = c /\ p[1] \in SessionsOf(c) /\ smap[p] > 0 THEN CountOf(c, p[1]) ELSE smap[p]]
  /\ interrupted' = interrupted \ {c}
  /\ Goto(th, "upsertCounts")
  /\ UNCHANGED <<disk, newer, dirty, removals, row, msgs, fts, unfound, sessions, walk,
                 remover, up, failures>>

(* Its rows reference the session and the conversation: without either, and
   with foreign keys enforced, it fails (UpsertFails). *)
UpsertMap(th) ==
  LET c == ConvAt(th) IN
  /\ At(th, "upsertMap")
  /\ smap' = [p \in Session \X Conv |->
       IF p[2] = c /\ p[1] \in SessionsOf(c) THEN CountOf(c, p[1]) ELSE smap[p]]
  /\ interrupted' = interrupted \ {c}
  /\ Goto(th, "upsertCounts")
  /\ UNCHANGED <<disk, newer, dirty, removals, row, msgs, fts, unfound, sessions, walk,
                 remover, up, failures>>

UpsertCounts(th) ==
  LET c == ConvAt(th) IN
  /\ At(th, "upsertCounts")
  /\ sessions' = [s \in Session |->
       IF s \in SessionsOf(c) /\ sessions[s] # None
       THEN [sessions[s] EXCEPT !.conversations =
               Cardinality({d \in Conv : smap[<<s, d>>] > 0})]
       ELSE sessions[s]]
  /\ Rest(th)
  /\ UNCHANGED <<disk, newer, dirty, removals, row, msgs, fts, unfound, smap, walk, remover,
                 up, failures, interrupted>>

(* A statement fails; the error is logged and the rest skipped. *)
UpsertFails(th) ==
  /\ up /\ thread[th].pc \in Upserting /\ failures < MaxFailures
  /\ failures' = failures + 1
  /\ interrupted' = interrupted \cup {ConvAt(th)}
  /\ Rest(th)
  /\ UNCHANGED <<disk, newer, dirty, removals, tables, walk, remover, up>>

-----------------------------------------------------------------------------
(* removeConversation: the row is deleted by path, which with foreign keys
   enforced deletes its messages and map rows; then the id of the path is
   looked up, in the table the row was deleted from, to delete its full-text
   entries. *)
RemoveRow(f) ==
  LET c == ConvOf[f] IN
  /\ up /\ remover = None /\ f \in removals
  /\ removals' = removals \ {f}
  /\ remover' = f
  /\ IF HasRow(f)
     THEN /\ row' = [row EXCEPT ![c] = None]
          /\ \E fk \in BOOLEAN :
               /\ msgs' = [u \in Uuid |-> IF fk /\ msgs[u] = c THEN None ELSE msgs[u]]
               /\ CascadeMap(c, fk)
     ELSE UNCHANGED <<row, msgs, smap>>
  /\ UNCHANGED <<disk, newer, dirty, fts, unfound, sessions, thread, walk, up, failures,
                 interrupted>>

RemoveFts ==
  /\ up /\ remover # None
  /\ fts' = IF HasRow(remover) THEN {p \in fts : p[1] # ConvOf[remover]} ELSE fts
  /\ remover' = None
  /\ UNCHANGED <<disk, newer, dirty, removals, row, msgs, unfound, sessions, smap, thread, walk,
                 up, failures, interrupted>>

-----------------------------------------------------------------------------
(* POST /api/v2/conversations/reindex *)
ReindexConversations ==
  /\ up /\ \E c \in Conv : row[c] # None /\ ~row[c].cleared
  /\ row' = [c \in Conv |-> IF row[c] = None THEN None ELSE [row[c] EXCEPT !.cleared = TRUE]]
  /\ UNCHANGED <<disk, newer, dirty, removals, msgs, fts, unfound, sessions, smap, thread, walk,
                 remover, up, failures, interrupted>>

-----------------------------------------------------------------------------
IndexStep(th) ==
  Commit(th) \/ UpsertSession(th) \/ UpsertMap(th) \/ UpsertCounts(th)

Next ==
  \/ \E f \in File : Write(f) \/ Vanish(f)
  \/ Boot \/ Crash
  \/ \E f \in File : Visit(f) \/ WorkerParse(f)
  \/ WalkerParse
  \/ \E th \in Thread : IndexStep(th) \/ Abort(th) \/ UpsertFails(th)
  \/ \E f \in File : RemoveRow(f)
  \/ RemoveFts
  \/ ReindexConversations

Spec == Init /\ [][Next]_vars

(* The goroutines run as long as the process is up, and it is started again
   after a crash. *)
Fairness ==
  /\ WF_vars(Boot)
  /\ \A f \in File : WF_vars(Visit(f)) /\ WF_vars(WorkerParse(f)) /\ WF_vars(RemoveRow(f))
  /\ WF_vars(WalkerParse) /\ WF_vars(RemoveFts)
  /\ \A th \in Thread : WF_vars(IndexStep(th) \/ Abort(th) \/ UpsertFails(th))

FairSpec == Spec /\ Fairness
-----------------------------------------------------------------------------
(* Properties *)

TypeOK ==
  /\ present \in SUBSET File /\ version \in [File -> Nat]
  /\ newer \in [File -> BOOLEAN]
  /\ dirty \in SUBSET File /\ removals \in SUBSET File
  /\ row \in [Conv -> Row \cup {None}]
  /\ msgs \in [Uuid -> Conv \cup {None}]
  /\ fts \in SUBSET (Conv \X Uuid) /\ unfound \in SUBSET (Conv \X Uuid)
  /\ sessions \in [Session -> SessionRow \cup {None}]
  /\ smap \in [Session \X Conv -> Nat]
  /\ thread \in [Thread -> Busy \cup {IdleThread}]
  /\ walk \in SUBSET File
  /\ remover \in File \cup {None}
  /\ up \in BOOLEAN /\ failures \in 0..MaxFailures
  /\ interrupted \in SUBSET Conv

Indexed(c) == Content[row[c].file][row[c].ver]

(* A reader never sees parts of two versions of a file, or of two files with
   the same base name: the messages and the full-text entries of an indexed
   conversation all belong to the one version its row stands for, however the
   two indexing goroutines, removals and crashes interleave.  The entries that
   a removal leaves behind are those of a conversation without a row, which
   no search joins, and are gone when the id has a row again. *)
SnapshotConsistent ==
  \A c \in Conv : row[c] # None =>
    /\ MessagesOf(c) \subseteq Indexed(c)
    /\ {u \in Uuid : <<c, u>> \in fts} \subseteq Indexed(c)

(* The index and the messages agree: a stored message with something to search
   is found under the conversation it is stored in, also after another file
   with a copy of it was indexed or removed, unless the insertion of its entry
   failed and was logged.  Files that may be removed are left out: the second
   half of a removal deletes the entries of a conversation indexed again since
   the first. *)
MessagesAreSearchable ==
  \A u \in Textual : LET c == msgs[u] IN
    c # None /\ <<c, u>> \notin unfound /\ (\A f \in Removable : ConvOf[f] # c)
      => <<c, u>> \in fts

(* The next start repairs a stale conversation: initialIndex would index the
   file, unless the file changed between the read and the commit of its last
   indexing. *)
StaleIsNoticed ==
  \A f \in present : HasRow(f) /\ row[ConvOf[f]].ver < version[f] =>
    NeedsIndexing(f) \/ row[ConvOf[f]].behind

(* Every session with messages in an indexed conversation is mapped to it,
   but for an upsert still under way or cut short. *)
SessionMapComplete ==
  \A u \in Uuid : LET c == msgs[u] IN
    c # None /\ SessionOf[u] # NoSession =>
      \/ row[c] = None
      \/ smap[<<SessionOf[u], c>>] > 0
      \/ c \in interrupted
      \/ \E th \in Thread : thread[th].pc \in {"upsertSession", "upsertMap"} /\ ConvAt(th) = c

(* "removes a conversation from the index when the file is deleted": once the
   remove event of a file is received, the file leaves the index for good,
   unless it is created again. *)
DeletedIsRemoved ==
  \A f \in File : f \in removals ~>
    \/ f \in present \/ ~up
    \/ f \notin removals /\ ~HasRow(f) /\ \A th \in Thread : thread[th].file # f
=============================================================================
