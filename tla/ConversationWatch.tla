-------------------------- MODULE ConversationWatch --------------------------
(***************************************************************************)
(* The goroutines of the conversation indexer that turn file-system events *)
(* into indexing work (internal/service/indexer.go): watchFiles receives   *)
(* fsnotify events and debounces them, the callbacks of time.AfterFunc     *)
(* send the path on the bounded channel indexQueue, processIndexQueue      *)
(* takes paths off it and reads the files, and Stop, called by main,       *)
(* closes everything.                                                      *)
(*                                                                         *)
(* The content of a file is the number of writes it has had.  What the     *)
(* database does with a file that was read is module ConversationStore;    *)
(* here a worker that reads a file records the content it saw in parsed.   *)
(* The mutex ci.mu is never held across a blocking operation, so each of   *)
(* its critical sections is one step.                                      *)
(***************************************************************************)
EXTENDS Naturals, Sequences, SequencesExt

CONSTANTS
  File,       \* the .jsonl paths under ~/.claude/projects
  Dir,        \* the project directories
  DirOf,      \* the directory each file is in
  Timer,      \* identities of *time.Timer values; a dead one is reused
  NoTimer,    \* "no entry" in the debounceTimers map
  NoFile,     \* the path of a timer that is not in use
  Idle,       \* processIndexQueue is blocked in its receive
  Exited,     \* processIndexQueue has left its range loop
  QueueCap,   \* capacity of indexQueue (100 in NewConversationIndexer)
  KernelCap,  \* events the kernel keeps for the watcher before it drops some
  MaxWrites   \* bound: MaxWrites[f] writes of f, the one that creates it included

ASSUME FilesAssumption == DirOf \in [File -> Dir]
ASSUME TimersAssumption == NoTimer \notin Timer
ASSUME WorkerAssumption == /\ Idle \notin File /\ Exited \notin File
                           /\ NoFile \notin File /\ Idle # Exited
ASSUME BoundsAssumption == QueueCap \in Nat \ {0} /\ KernelCap \in Nat
ASSUME WritesAssumption == MaxWrites \in [File -> Nat]

VARIABLES
  dirs,            \* directories that exist
  present,         \* files that exist
  version,         \* version[f]: writes f has had
  observed,        \* ghost: version of f at its last write that raised an event,
                   \*   0 once f is gone
  kernel,          \* events raised and not yet received from watcher.Events
  watcher,         \* watchFiles: "init", "adding", "loop", "returned"
  watched,         \* directories added to the fsnotify watcher
  toWatch,         \* directories filepath.Walk has listed and not visited
  debounceTimers,  \* the map, [File -> Timer or NoTimer]
  timerState,      \* "free", "armed", "sending" or "deleting"
  timerFile,       \* the path the callback of each timer closes over
  indexQueue,      \* the channel's buffer
  queueOpen,       \* indexQueue has not been closed
  worker,          \* processIndexQueue: Idle, Exited, or the file it indexes
  parsed,          \* parsed[f]: newest content of f the worker has read
  main,            \* main: "running" until the signal, then Stop's statements
  panicked         \* a goroutine panicked: the process is dead

env   == <<dirs, present, version, observed>>
watch == <<kernel, watcher, watched, toWatch>>
timer == <<debounceTimers, timerState, timerFile>>
queue == <<indexQueue, queueOpen>>
work  == <<worker, parsed>>
vars  == <<env, watch, timer, queue, work, main, panicked>>

Op == {"write", "remove", "ignored"}
Event == [file : File, op : Op]
TimerState == {"free", "armed", "sending", "deleting"}
WatcherState == {"init", "adding", "loop", "returned"}
MainState == {"running", "doneClosed", "watcherClosed", "queueClosed", "exited"}


Alive == main # "exited" /\ ~panicked
DoneClosed == main # "running"
WatcherClosed == main \in {"watcherClosed", "queueClosed", "exited"}

Init ==
  /\ dirs \in SUBSET Dir
  /\ present \in SUBSET {f \in File : DirOf[f] \in dirs}
  /\ version = [f \in File |-> 0]
  /\ observed = [f \in File |-> 0]
  /\ kernel = <<>>
  /\ watcher = "init"
  /\ watched = {}
  /\ toWatch = {}
  /\ debounceTimers = [f \in File |-> NoTimer]
  /\ timerState = [t \in Timer |-> "free"]
  /\ timerFile = [t \in Timer |-> NoFile]
  /\ indexQueue = <<>>
  /\ queueOpen = TRUE
  /\ worker = Idle
  /\ parsed = [f \in File |-> 0]
  /\ main = "running"
  /\ panicked = FALSE

-----------------------------------------------------------------------------
(* The file system and the kernel's side of fsnotify. *)

(* An event reaches the watcher when its directory was added to it, the
   watcher is open and the kernel's buffer has room; otherwise it is lost. *)
Raised(f) == DirOf[f] \in watched /\ ~WatcherClosed /\ Len(kernel) < KernelCap

Raise(f, op) ==
  kernel' = IF Raised(f) THEN Append(kernel, [file |-> f, op |-> op]) ELSE kernel

MakeDir(d) ==
  /\ Alive /\ d \notin dirs
  /\ dirs' = dirs \cup {d}
  /\ UNCHANGED <<present, version, observed, watch, timer, queue, work, main, panicked>>

Write(f) ==
  /\ Alive /\ DirOf[f] \in dirs /\ version[f] < MaxWrites[f]
  /\ present' = present \cup {f}
  /\ version' = [version EXCEPT ![f] = @ + 1]
  /\ observed' = [observed EXCEPT ![f] = IF Raised(f) THEN version[f] + 1 ELSE @]
  /\ Raise(f, "write")
  /\ UNCHANGED <<dirs, watcher, watched, toWatch, timer, queue, work, main, panicked>>

Unlink(f) ==
  /\ Alive /\ f \in present
  /\ present' = present \ {f}
  /\ observed' = [observed EXCEPT ![f] = 0]
  /\ Raise(f, "remove")
  /\ UNCHANGED <<dirs, version, watcher, watched, toWatch,
                 timer, queue, work, main, panicked>>

(* Moved away, or its attributes changed: an Op no case of the switch has. *)
RenameOrChmod(f) ==
  /\ Alive /\ f \in present
  /\ \/ UNCHANGED <<present, observed>>
     \/ present' = present \ {f} /\ observed' = [observed EXCEPT ![f] = 0]
  /\ Raise(f, "ignored")
  /\ UNCHANGED <<dirs, version, watcher, watched, toWatch,
                 timer, queue, work, main, panicked>>

-----------------------------------------------------------------------------
(* watchFiles *)

(* watcher.Add of the projects directory, which fails if there is none, and
   the listing filepath.Walk starts from. *)
StartWatching ==
  /\ Alive /\ watcher = "init"
  /\ \/ watcher' = "adding" /\ toWatch' = dirs
     \/ dirs = {} /\ watcher' = "returned" /\ toWatch' = {}
  /\ UNCHANGED <<env, kernel, watched, timer, queue, work, main, panicked>>

AddDir(d) ==
  /\ Alive /\ watcher = "adding" /\ d \in toWatch
  /\ toWatch' = toWatch \ {d}
  /\ watched' = IF WatcherClosed THEN watched ELSE watched \cup {d}
  /\ UNCHANGED <<env, kernel, watcher, timer, queue, work, main, panicked>>

EnterLoop ==
  /\ Alive /\ watcher = "adding" /\ toWatch = {}
  /\ watcher' = "loop"
  /\ UNCHANGED <<env, kernel, watched, toWatch, timer, queue, work, main, panicked>>

Receive(op) ==
  /\ Alive /\ watcher = "loop" /\ kernel # <<>> /\ Head(kernel).op = op
  /\ kernel' = Tail(kernel)
  /\ UNCHANGED <<env, watcher, watched, toWatch, queue, work, main, panicked>>

(* timer.Stop succeeds only on a timer that has not fired. *)
Stoppable(f) == {u \in Timer : u = debounceTimers[f] /\ timerState[u] = "armed"}

(* Faulty variant, for a mutant: an entry in the map is taken to mean that
   the path will still be sent. *)
DebounceOnce(f, t) ==
  IF debounceTimers[f] # NoTimer THEN UNCHANGED timer
  ELSE /\ timerState[t] = "free"
       /\ timerState' = [timerState EXCEPT ![t] = "armed"]
       /\ timerFile' = [timerFile EXCEPT ![t] = f]
       /\ debounceTimers' = [debounceTimers EXCEPT ![f] = t]

(* debounceIndexing: stop the timer the map holds, arm a new one. *)
Debounce(f, t) ==
  /\ timerState[t] = "free"
  /\ timerState' = [u \in Timer |-> IF u = t THEN "armed"
                                   ELSE IF u \in Stoppable(f) THEN "free"
                                   ELSE timerState[u]]
  /\ timerFile' = [u \in Timer |-> IF u = t THEN f
                                  ELSE IF u \in Stoppable(f) THEN NoFile
                                  ELSE timerFile[u]]
  /\ debounceTimers' = [debounceTimers EXCEPT ![f] = t]

HandleWrite(t) == Receive("write") /\ Debounce(Head(kernel).file, t)

(* removeConversation changes the database only: see ConversationStore. *)
HandleOther ==
  /\ \E op \in {"remove", "ignored"} : Receive(op)
  /\ UNCHANGED timer

WatchReturn ==
  /\ Alive /\ watcher = "loop" /\ DoneClosed
  /\ watcher' = "returned"
  /\ UNCHANGED <<env, kernel, watched, toWatch, timer, queue, work, main, panicked>>

-----------------------------------------------------------------------------
(* The callback of time.AfterFunc, each run in a goroutine of its own. *)

SetTimer(t, s) == timerState' = [timerState EXCEPT ![t] = s]

Fire(t) ==
  /\ Alive /\ timerState[t] = "armed"
  /\ SetTimer(t, "sending")
  /\ UNCHANGED <<env, watch, debounceTimers, timerFile, queue, work, main, panicked>>

(* Faulty variant: a send that does not wait for room. *)
SendUnchecked(t) ==
  /\ Alive /\ timerState[t] = "sending" /\ queueOpen
  /\ indexQueue' = Append(indexQueue, timerFile[t])
  /\ SetTimer(t, "deleting")
  /\ UNCHANGED <<env, watch, debounceTimers, timerFile, queueOpen, work, main, panicked>>

(* Faulty variant: a send that gives up when the channel is full. *)
SendOrDrop(t) ==
  /\ Alive /\ timerState[t] = "sending" /\ queueOpen
  /\ indexQueue' = IF Len(indexQueue) < QueueCap
                   THEN Append(indexQueue, timerFile[t]) ELSE indexQueue
  /\ SetTimer(t, "deleting")
  /\ UNCHANGED <<env, watch, debounceTimers, timerFile, queueOpen, work, main, panicked>>

Send(t) ==
  /\ Alive /\ timerState[t] = "sending"
  /\ queueOpen /\ Len(indexQueue) < QueueCap
  /\ indexQueue' = Append(indexQueue, timerFile[t])
  /\ SetTimer(t, "deleting")
  /\ UNCHANGED <<env, watch, debounceTimers, timerFile, queueOpen, work, main, panicked>>

SendOnClosed(t) ==
  /\ Alive /\ timerState[t] = "sending" /\ ~queueOpen
  /\ panicked' = TRUE
  /\ UNCHANGED <<env, watch, timer, queue, work, main>>

(* Faulty variant: the callback forgets to delete its entry. *)
KeepEntry(t) ==
  /\ Alive /\ timerState[t] = "deleting"
  /\ SetTimer(t, "free")
  /\ timerFile' = [timerFile EXCEPT ![t] = NoFile]
  /\ UNCHANGED <<env, watch, debounceTimers, queue, work, main, panicked>>

(* The entry is deleted by path: it may by now hold a newer timer. *)
DeleteEntry(t) ==
  /\ Alive /\ timerState[t] = "deleting"
  /\ debounceTimers' = [debounceTimers EXCEPT ![timerFile[t]] = NoTimer]
  /\ SetTimer(t, "free")
  /\ timerFile' = [timerFile EXCEPT ![t] = NoFile]
  /\ UNCHANGED <<env, watch, queue, work, main, panicked>>

-----------------------------------------------------------------------------
(* processIndexQueue *)

Take ==
  /\ Alive /\ worker = Idle /\ indexQueue # <<>>
  /\ worker' = Head(indexQueue)
  /\ indexQueue' = Tail(indexQueue)
  /\ UNCHANGED <<env, watch, timer, queueOpen, parsed, main, panicked>>

(* indexFile reads the file, or fails because there is none any more. *)
IndexTaken ==
  /\ Alive /\ worker \in File
  /\ worker' = Idle
  /\ parsed' = IF worker \in present
               THEN [parsed EXCEPT ![worker] = version[worker]] ELSE parsed
  /\ UNCHANGED <<env, watch, timer, queue, main, panicked>>

LeaveLoop ==
  /\ Alive /\ worker = Idle /\ indexQueue = <<>> /\ ~queueOpen
  /\ worker' = Exited
  /\ UNCHANGED <<env, watch, timer, queue, parsed, main, panicked>>

-----------------------------------------------------------------------------
(* Stop, deferred by main and run after the signal, then the process exits. *)

Advance(from, to) == Alive /\ main = from /\ main' = to

CloseDone ==
  /\ Advance("running", "doneClosed")
  /\ UNCHANGED <<env, watch, timer, queue, work, panicked>>

CloseWatcher ==
  /\ Advance("doneClosed", "watcherClosed")
  /\ UNCHANGED <<env, watch, timer, queue, work, panicked>>

CloseQueue ==
  /\ Advance("watcherClosed", "queueClosed")
  /\ queueOpen' = FALSE
  /\ UNCHANGED <<env, watch, timer, indexQueue, work, panicked>>

ExitProcess ==
  /\ Advance("queueClosed", "exited")
  /\ UNCHANGED <<env, watch, timer, queue, work, panicked>>

(* Nothing is left to run; a stuttering step, so that TLC's deadlock check
   reports any other stop. *)
Terminated == ~Alive /\ UNCHANGED vars

-----------------------------------------------------------------------------
Environment ==
  \/ \E d \in Dir : MakeDir(d)
  \/ \E f \in File : Write(f) \/ Unlink(f) \/ RenameOrChmod(f)

WatchFiles ==
  \/ StartWatching \/ EnterLoop \/ HandleOther \/ WatchReturn
  \/ \E d \in Dir : AddDir(d)
  \/ \E t \in Timer : HandleWrite(t)

Callback(t) == Fire(t) \/ Send(t) \/ SendOnClosed(t) \/ DeleteEntry(t)

ProcessIndexQueue == Take \/ IndexTaken \/ LeaveLoop

Stop == CloseDone \/ CloseWatcher \/ CloseQueue \/ ExitProcess

Next ==
  \/ Environment \/ WatchFiles \/ ProcessIndexQueue \/ Stop \/ Terminated
  \/ \E t \in Timer : Callback(t)

Spec == Init /\ [][Next]_vars

(* The Go scheduler runs every goroutine that can run and every armed timer
   fires; nothing forces a file to be written or the process to be stopped.
   Blocked senders are served first come first served, and a file has
   finitely many of them, so weak fairness of each callback is enough. *)
Fairness ==
  /\ WF_vars(WatchFiles)
  /\ WF_vars(ProcessIndexQueue)
  /\ \A t \in Timer : WF_vars(Callback(t))

FairSpec == Spec /\ Fairness

-----------------------------------------------------------------------------
(* Properties *)

TypeOK ==
  /\ dirs \in SUBSET Dir
  /\ present \in SUBSET File
  /\ version \in [File -> Nat]
  /\ observed \in [File -> Nat]
  /\ kernel \in Seq(Event) /\ Len(kernel) <= KernelCap
  /\ watcher \in WatcherState
  /\ watched \in SUBSET Dir
  /\ toWatch \in SUBSET Dir
  /\ debounceTimers \in [File -> Timer \cup {NoTimer}]
  /\ timerState \in [Timer -> TimerState]
  /\ timerFile \in [Timer -> File \cup {NoFile}]
  /\ \A t \in Timer : timerState[t] # "free" => timerFile[t] \in File
  /\ indexQueue \in Seq(File) /\ Len(indexQueue) <= QueueCap
  /\ queueOpen \in BOOLEAN
  /\ worker \in File \cup {Idle, Exited}
  /\ parsed \in [File -> Nat]
  /\ main \in MainState
  /\ panicked \in BOOLEAN

Live(t) == timerState[t] # "free"

(* The entry of a path in debounceTimers, when it has one, is a timer of that
   path that has not finished: a callback that deletes a newer timer's entry
   by path never leaves a dead timer, or another path's, behind. *)
EntriesAreLive ==
  \A f \in File : debounceTimers[f] # NoTimer =>
    /\ Live(debounceTimers[f])
    /\ timerFile[debounceTimers[f]] = f

(* The places work for a path can wait in, from the event to the worker. *)
EventQueued(f) == Contains(kernel, [file |-> f, op |-> "write"])
TimerPending(f) == \E t \in Timer : timerState[t] \in {"armed", "sending"} /\ timerFile[t] = f
PathQueued(f) == Contains(indexQueue, f)
Pending(f) == EventQueued(f) \/ TimerPending(f) \/ PathQueued(f) \/ worker = f

(* No debounced event is lost: as long as a file has content whose event was
   raised and which the worker has not read, an event, an armed or blocked
   timer, a queue entry or the worker itself still stands for it, through
   every cancellation, full queue and out-of-order deletion. *)
NoLostEvent ==
  \A f \in File : parsed[f] < observed[f] => Pending(f)

(* Debouncing delays work, it never starves it: content whose event was
   raised is eventually read, unless the file goes away or main stops the
   indexer.  (Writes are finitely many in the model; a file written more
   often than every five seconds for ever would be postponed for ever.) *)
ObservedIsRead ==
  \A f \in File : \A v \in 1..MaxWrites[f] :
    observed[f] = v ~> (parsed[f] >= v \/ f \notin present \/ main # "running")

(* The map does not grow without bound: an entry is eventually deleted. *)
EntriesAreDeleted ==
  \A f \in File : debounceTimers[f] # NoTimer ~>
    (debounceTimers[f] = NoTimer \/ main # "running")

(* The promise kept: the goroutines implement a set of dirty files. *)
Dirty == INSTANCE DirtyFiles
           WITH noticed <- observed, read <- parsed,
                dirty <- {f \in File : Pending(f)}

ImplementsDirtyFiles == Dirty!Spec

(* "Stop cleanly shuts down the indexer": no goroutine panics. *)
StopIsClean == ~panicked
=============================================================================
