----------------------- MODULE ConversationWatchProofs -----------------------
(***************************************************************************)
(* Proofs about ConversationWatch, for every set of files, directories and *)
(* timers and every capacity of the queue and of the kernel's buffer.      *)
(***************************************************************************)
EXTENDS ConversationWatch, SequenceTheorems, TLAPS

USE FilesAssumption, TimersAssumption, WorkerAssumption, BoundsAssumption

(* Every step keeps every variable in its type, the kernel's buffer within
   KernelCap and the channel within its capacity: no event is queued and no
   path is sent without room (watcher.Events, ci.indexQueue). *)
LEMMA TypeInit == Init => TypeOK
<1> SUFFICES ASSUME Init PROVE TypeOK
  OBVIOUS
<1>1. kernel = <<>> /\ indexQueue = <<>>
  BY DEF Init
<1>2. kernel \in Seq(Event) /\ indexQueue \in Seq(File)
  BY <1>1, EmptySeq
<1>3. Len(kernel) = 0 /\ Len(indexQueue) = 0
  BY <1>1, EmptySeq
<1>4. /\ debounceTimers \in [File -> Timer \cup {NoTimer}]
      /\ timerState \in [Timer -> TimerState]
      /\ timerFile \in [Timer -> File \cup {NoFile}]
      /\ \A t \in Timer : timerState[t] = "free"
  BY DEF Init, TimerState
<1>5. /\ version \in [File -> Nat] /\ observed \in [File -> Nat]
      /\ parsed \in [File -> Nat]
  BY DEF Init
<1>6. QueueCap \in Nat /\ KernelCap \in Nat
  OBVIOUS
<1>7. dirs \in SUBSET Dir /\ present \in SUBSET File /\ watched \in SUBSET Dir /\ toWatch \in SUBSET Dir
  BY DEF Init
<1>8. watcher \in WatcherState /\ queueOpen \in BOOLEAN /\ main \in MainState /\ panicked \in BOOLEAN
      /\ worker \in File \cup {Idle, Exited}
  BY DEF Init, WatcherState, MainState
<1> QED
  BY <1>2, <1>3, <1>4, <1>5, <1>6, <1>7, <1>8 DEF TypeOK

(* Raising an event keeps the type and the bound of the kernel's buffer. *)
LEMMA RaiseType ==
  ASSUME TypeOK, NEW f \in File, NEW op \in Op, Raise(f, op)
  PROVE  kernel' \in Seq(Event) /\ Len(kernel') <= KernelCap
<1> DEFINE e == [file |-> f, op |-> op]
<1>1. e \in Event
  BY DEF Event
<1>2. CASE Raised(f)
  <2>1. kernel' = Append(kernel, e) /\ Len(kernel) < KernelCap
    BY <1>2 DEF Raise, Raised
  <2>2. kernel \in Seq(Event) /\ Len(kernel) \in Nat
    BY LenProperties DEF TypeOK
  <2>3. Append(kernel, e) \in Seq(Event) /\ Len(Append(kernel, e)) = Len(kernel) + 1
    BY <1>1, <2>2, AppendProperties
  <2> QED
    BY <2>1, <2>2, <2>3
<1>3. CASE ~Raised(f)
  BY <1>3 DEF Raise, TypeOK
<1> QED
  BY <1>2, <1>3

(* Receiving takes an event off it and keeps both. *)
LEMMA ReceiveType ==
  ASSUME TypeOK, NEW op, Receive(op)
  PROVE  /\ kernel' \in Seq(Event) /\ Len(kernel') <= KernelCap
         /\ Head(kernel) \in Event
<1>1. kernel \in Seq(Event) /\ kernel # <<>> /\ kernel' = Tail(kernel)
  BY DEF TypeOK, Receive
<1>2. Len(kernel) \in Nat /\ Len(kernel) <= KernelCap
  BY <1>1, LenProperties DEF TypeOK
<1>3. Tail(kernel) \in Seq(Event) /\ Len(Tail(kernel)) = Len(kernel) - 1 /\ Head(kernel) \in Event
  BY <1>1, HeadTailProperties
<1> QED
  BY <1>1, <1>2, <1>3

(* Every step keeps the types. *)
LEMMA TypeStep == TypeOK /\ [Next]_vars => TypeOK'
<1> SUFFICES ASSUME TypeOK, [Next]_vars PROVE TypeOK'
  OBVIOUS
<1> USE DEF TypeOK
<1>1. ASSUME NEW d \in Dir, MakeDir(d) PROVE TypeOK'
  BY <1>1 DEF MakeDir, watch, timer, queue, work
<1>2. ASSUME NEW f \in File, Write(f) PROVE TypeOK'
  <2>1. kernel' \in Seq(Event) /\ Len(kernel') <= KernelCap
    BY <1>2, RaiseType DEF Write, Op
  <2> QED
    BY <1>2, <2>1 DEF Write, timer, queue, work
<1>3. ASSUME NEW f \in File, Unlink(f) PROVE TypeOK'
  <2>1. kernel' \in Seq(Event) /\ Len(kernel') <= KernelCap
    BY <1>3, RaiseType DEF Unlink, Op
  <2> QED
    BY <1>3, <2>1 DEF Unlink, timer, queue, work
<1>4. ASSUME NEW f \in File, RenameOrChmod(f) PROVE TypeOK'
  <2>1. kernel' \in Seq(Event) /\ Len(kernel') <= KernelCap
    BY <1>4, RaiseType DEF RenameOrChmod, Op
  <2> QED
    BY <1>4, <2>1 DEF RenameOrChmod, timer, queue, work
<1>5. ASSUME StartWatching PROVE TypeOK'
  BY <1>5 DEF StartWatching, WatcherState, env, timer, queue, work
<1>6. ASSUME NEW d \in Dir, AddDir(d) PROVE TypeOK'
  BY <1>6 DEF AddDir, env, timer, queue, work
<1>7. ASSUME EnterLoop PROVE TypeOK'
  BY <1>7 DEF EnterLoop, WatcherState, env, timer, queue, work
<1>8. ASSUME NEW t \in Timer, HandleWrite(t) PROVE TypeOK'
  <2>1. /\ kernel' \in Seq(Event) /\ Len(kernel') <= KernelCap
        /\ Head(kernel).file \in File
    BY <1>8, ReceiveType DEF HandleWrite, Event
  <2> QED
    BY <1>8, <2>1 DEF HandleWrite, Receive, Debounce, TimerState, env, queue, work
<1>9. ASSUME HandleOther PROVE TypeOK'
  <2>1. kernel' \in Seq(Event) /\ Len(kernel') <= KernelCap
    BY <1>9, ReceiveType DEF HandleOther
  <2> QED
    BY <1>9, <2>1 DEF HandleOther, Receive, env, timer, queue, work
<1>10. ASSUME WatchReturn PROVE TypeOK'
  BY <1>10 DEF WatchReturn, WatcherState, env, timer, queue, work
<1>11. ASSUME NEW t \in Timer, Fire(t) PROVE TypeOK'
  BY <1>11 DEF Fire, SetTimer, TimerState, env, watch, queue, work
<1>12. ASSUME NEW t \in Timer, Send(t) PROVE TypeOK'
  <2>0. timerFile[t] \in File
    BY <1>12 DEF Send
  <2>1. Len(indexQueue) \in Nat /\ Len(indexQueue) < QueueCap
    BY <1>12, LenProperties DEF Send
  <2>2. indexQueue' \in Seq(File) /\ Len(indexQueue') = Len(indexQueue) + 1
    BY <1>12, <2>0, AppendProperties DEF Send
  <2> QED
    BY <1>12, <2>1, <2>2 DEF Send, SetTimer, TimerState, env, watch, work
<1>13. ASSUME NEW t \in Timer, SendOnClosed(t) PROVE TypeOK'
  BY <1>13 DEF SendOnClosed, env, watch, timer, queue, work
<1>14. ASSUME NEW t \in Timer, DeleteEntry(t) PROVE TypeOK'
  BY <1>14 DEF DeleteEntry, SetTimer, TimerState, env, watch, queue, work
<1>15. ASSUME Take PROVE TypeOK'
  <2>1. /\ indexQueue' \in Seq(File) /\ worker' \in File
        /\ Len(indexQueue') = Len(indexQueue) - 1
    BY <1>15, HeadTailProperties DEF Take
  <2>2. Len(indexQueue) \in Nat /\ Len(indexQueue') <= QueueCap
    BY <2>1, LenProperties
  <2> QED
    BY <1>15, <2>1, <2>2 DEF Take, env, watch, timer
<1>16. ASSUME IndexTaken PROVE TypeOK'
  BY <1>16 DEF IndexTaken, env, watch, timer, queue
<1>17. ASSUME LeaveLoop PROVE TypeOK'
  BY <1>17 DEF LeaveLoop, env, watch, timer, queue
<1>18. ASSUME Stop PROVE TypeOK'
  BY <1>18 DEF Stop, CloseDone, CloseWatcher, CloseQueue, ExitProcess, Advance,
               MainState, env, watch, timer, queue, work
<1>19. ASSUME UNCHANGED vars PROVE TypeOK'
  BY <1>19 DEF vars, env, watch, timer, queue, work
<1> QED
  BY <1>1, <1>2, <1>3, <1>4, <1>5, <1>6, <1>7, <1>8, <1>9, <1>10, <1>11, <1>12,
     <1>13, <1>14, <1>15, <1>16, <1>17, <1>18, <1>19
     DEF Next, Environment, WatchFiles, ProcessIndexQueue, Callback, Terminated

(* TypeOK holds in every reachable state. *)
THEOREM TypeCorrect == Spec => []TypeOK
<1> QED
  BY TypeInit, TypeStep, PTL DEF Spec

-----------------------------------------------------------------------------
(* What Append and Tail do to the elements of a sequence. *)
LEMMA AppendContains ==
  ASSUME NEW S, NEW s \in Seq(S), NEW e \in S, NEW x
  PROVE  Contains(Append(s, e), x) <=> Contains(s, x) \/ x = e
<1>1. /\ Len(s) \in Nat
      /\ Len(Append(s, e)) = Len(s) + 1
      /\ \A i \in 1..Len(s) : Append(s, e)[i] = s[i]
      /\ Append(s, e)[Len(s) + 1] = e
  BY AppendProperties, LenProperties
<1>2. \A i \in 1..(Len(s) + 1) : i \in 1..Len(s) \/ i = Len(s) + 1
  BY <1>1
<1>3. Len(s) + 1 \in 1..(Len(s) + 1) /\ \A i \in 1..Len(s) : i \in 1..(Len(s) + 1)
  BY <1>1
<1> QED
  BY <1>1, <1>2, <1>3 DEF Contains

(* What is in a sequence is its head or in its tail. *)
LEMMA TailContains ==
  ASSUME NEW S, NEW s \in Seq(S), s # <<>>, NEW x
  PROVE  Contains(s, x) <=> Contains(Tail(s), x) \/ x = Head(s)
<1>1. /\ Len(s) \in Nat
      /\ Len(Tail(s)) = Len(s) - 1
      /\ \A i \in 1..Len(Tail(s)) : Tail(s)[i] = s[i + 1]
  BY HeadTailProperties, LenProperties
<1>2. Head(s) = s[1] /\ Len(s) # 0
  BY <1>1, EmptySeq
<1>3. \A i \in 1..Len(s) : i = 1 \/ (i - 1 \in 1..(Len(s) - 1) /\ (i - 1) + 1 = i)
  BY <1>1
<1>4. 1 \in 1..Len(s) /\ \A i \in 1..(Len(s) - 1) : i + 1 \in 1..Len(s)
  BY <1>1, <1>2
<1>5. ASSUME Contains(s, x) PROVE Contains(Tail(s), x) \/ x = Head(s)
  <2>1. PICK i \in 1..Len(s) : s[i] = x
    BY <1>5 DEF Contains
  <2>2. CASE i = 1
    BY <2>1, <2>2, <1>2
  <2>3. CASE i - 1 \in 1..(Len(s) - 1) /\ (i - 1) + 1 = i
    BY <2>1, <2>3, <1>1 DEF Contains
  <2> QED
    BY <1>3, <2>2, <2>3
<1>6. ASSUME Contains(Tail(s), x) \/ x = Head(s) PROVE Contains(s, x)
  BY <1>1, <1>2, <1>4, <1>6 DEF Contains
<1> QED
  BY <1>5, <1>6

-----------------------------------------------------------------------------
(* Observed content is content the file still has. *)
ObservedIsPresent ==
  \A f \in File : /\ observed[f] <= version[f]
                  /\ f \notin present => observed[f] = 0

IInv == TypeOK /\ EntriesAreLive /\ ObservedIsPresent

(* Every step keeps the entries of the timer map live. *)
LEMMA EntriesStep == IInv /\ [Next]_vars => EntriesAreLive'
<1> SUFFICES ASSUME IInv, [Next]_vars PROVE EntriesAreLive'
  OBVIOUS
<1> USE DEF IInv, TypeOK, EntriesAreLive, Live
<1>1. CASE UNCHANGED timer
  BY <1>1 DEF timer
<1>2. ASSUME NEW t \in Timer, HandleWrite(t) PROVE EntriesAreLive'
  <2> DEFINE f == Head(kernel).file
  <2>1. f \in File
    BY <1>2, ReceiveType DEF HandleWrite, Event
  <2>2. Debounce(f, t)
    BY <1>2 DEF HandleWrite
  <2> HIDE DEF f
  <2>3. \A g \in File : g # f => debounceTimers[g] # t /\ debounceTimers[g] \notin Stoppable(f)
    BY <2>1, <2>2 DEF Debounce, Stoppable
  <2>4. debounceTimers'[f] = t /\ timerState'[t] = "armed" /\ timerFile'[t] = f
    BY <2>1, <2>2 DEF Debounce
  <2>5. ASSUME NEW g \in File, g # f, debounceTimers'[g] # NoTimer
        PROVE  timerState'[debounceTimers'[g]] # "free" /\ timerFile'[debounceTimers'[g]] = g
    <3>1. debounceTimers'[g] = debounceTimers[g] /\ debounceTimers[g] \in Timer
      BY <2>1, <2>2, <2>5 DEF Debounce
    <3> QED
      BY <2>1, <2>2, <2>3, <2>5, <3>1 DEF Debounce
  <2> QED
    BY <2>4, <2>5
<1>3. ASSUME NEW t \in Timer, NEW s \in TimerState, s # "free", SetTimer(t, s),
             UNCHANGED <<debounceTimers, timerFile>>
      PROVE  EntriesAreLive'
  BY <1>3 DEF SetTimer
<1>4. ASSUME NEW t \in Timer, DeleteEntry(t) PROVE EntriesAreLive'
  BY <1>4 DEF DeleteEntry, SetTimer
<1>5. ASSUME NEW t \in Timer, Callback(t) PROVE EntriesAreLive'
  BY <1>1, <1>3, <1>4, <1>5 DEF Callback, Fire, Send, SendOnClosed, TimerState
<1> QED
  BY <1>1, <1>2, <1>5
     DEF Next, Environment, WatchFiles, ProcessIndexQueue, Stop, Terminated, vars,
         MakeDir, Write, Unlink, RenameOrChmod, StartWatching, AddDir, EnterLoop,
         HandleOther, WatchReturn, Take, IndexTaken, LeaveLoop,
         CloseDone, CloseWatcher, CloseQueue, ExitProcess

(* Every step keeps what was seen to files that exist. *)
LEMMA ObservedStep == IInv /\ [Next]_vars => ObservedIsPresent'
<1> SUFFICES ASSUME IInv, [Next]_vars PROVE ObservedIsPresent'
  OBVIOUS
<1> USE DEF IInv, TypeOK, ObservedIsPresent
<1>1. CASE UNCHANGED <<present, version, observed>>
  BY <1>1
<1>2. ASSUME NEW f \in File, Write(f) PROVE ObservedIsPresent'
  BY <1>2 DEF Write
<1>3. ASSUME NEW f \in File, Unlink(f) PROVE ObservedIsPresent'
  BY <1>3 DEF Unlink
<1>4. ASSUME NEW f \in File, RenameOrChmod(f) PROVE ObservedIsPresent'
  <2>1. CASE UNCHANGED <<present, observed>>
    BY <1>1, <1>4, <2>1 DEF RenameOrChmod
  <2>2. CASE present' = present \ {f} /\ observed' = [observed EXCEPT ![f] = 0]
    BY <1>4, <2>2 DEF RenameOrChmod
  <2> QED
    BY <1>4, <2>1, <2>2 DEF RenameOrChmod
<1>5. ASSUME NEW d \in Dir, MakeDir(d) PROVE ObservedIsPresent'
  BY <1>1, <1>5 DEF MakeDir
<1>6. ASSUME UNCHANGED env PROVE ObservedIsPresent'
  BY <1>1, <1>6 DEF env
<1>7. WatchFiles \/ ProcessIndexQueue \/ Stop \/ Terminated \/ UNCHANGED vars => UNCHANGED env
  BY DEF WatchFiles, ProcessIndexQueue, Stop, Terminated, vars,
         StartWatching, AddDir, EnterLoop, HandleWrite, HandleOther, Receive, WatchReturn,
         Take, IndexTaken, LeaveLoop, CloseDone, CloseWatcher, CloseQueue, ExitProcess
<1>8. ASSUME NEW t \in Timer, Callback(t) PROVE UNCHANGED env
  BY <1>8 DEF Callback, Fire, Send, SendOnClosed, DeleteEntry
<1> QED
  BY <1>2, <1>3, <1>4, <1>5, <1>6, <1>7, <1>8 DEF Next, Environment

(* IInv is invariant. *)
LEMMA Invariance == Spec => []IInv
<1>1. Init => IInv
  BY TypeInit DEF Init, IInv, EntriesAreLive, ObservedIsPresent
<1>2. IInv /\ [Next]_vars => IInv'
  BY TypeStep, EntriesStep, ObservedStep DEF IInv
<1> QED
  BY <1>1, <1>2, PTL DEF Spec

(* The timer map never holds a dead timer or another path's, whichever way
   the callbacks and the watcher interleave (debounceIndexing). *)
THEOREM EntriesCorrect == Spec => []EntriesAreLive
<1> QED
  BY Invariance, PTL DEF IInv

-----------------------------------------------------------------------------
(* How each step moves work from one waiting place to the next. *)
WriteEvent(f) == [file |-> f, op |-> "write"]

(* Pending, with its parts spelled out. *)
LEMMA PendingDef ==
  \A f : Pending(f) <=> \/ Contains(kernel, WriteEvent(f)) \/ TimerPending(f)
                        \/ Contains(indexQueue, f) \/ worker = f
BY DEF Pending, EventQueued, PathQueued, WriteEvent

(* The same for the next state. *)
LEMMA PendingDefNext ==
  \A f : Pending(f)' <=> \/ Contains(kernel', WriteEvent(f)) \/ TimerPending(f)'
                         \/ Contains(indexQueue', f) \/ worker' = f
BY DEF Pending, EventQueued, PathQueued, WriteEvent, Contains

(* Raising an event makes no path less pending, and a write's own path
   pending. *)
LEMMA RaisePending ==
  ASSUME TypeOK, NEW f \in File, NEW op \in Op, Raise(f, op),
         UNCHANGED <<timerState, timerFile, indexQueue, worker>>, NEW g \in File
  PROVE  Pending(g)' <=> Pending(g) \/ (g = f /\ op = "write" /\ Raised(f))
<1> DEFINE e == [file |-> f, op |-> op]
<1>1. e \in Event /\ kernel \in Seq(Event)
  BY DEF Event, TypeOK
<1>2. e = WriteEvent(g) <=> g = f /\ op = "write"
  BY DEF WriteEvent
<1>3. Contains(kernel', WriteEvent(g))
        <=> Contains(kernel, WriteEvent(g)) \/ (Raised(f) /\ e = WriteEvent(g))
  <2>1. CASE Raised(f)
    <3>1. kernel' = Append(kernel, e)
      BY <2>1 DEF Raise
    <3>2. Contains(Append(kernel, e), WriteEvent(g))
            <=> Contains(kernel, WriteEvent(g)) \/ WriteEvent(g) = e
      BY <1>1, AppendContains
    <3> QED
      BY <2>1, <3>1, <3>2
  <2>2. CASE ~Raised(f)
    BY <2>2 DEF Raise
  <2> QED
    BY <2>1, <2>2
<1>4. TimerPending(g)' <=> TimerPending(g)
  BY DEF TimerPending
<1> QED
  BY <1>2, <1>3, <1>4, PendingDef, PendingDefNext

(* Receiving an event drops its own path from the kernel's buffer, if it was a
   write, and no other. *)
LEMMA ReceivePending ==
  ASSUME TypeOK, NEW op, Receive(op), NEW g \in File
  PROVE  Contains(kernel, WriteEvent(g))
           <=> Contains(kernel', WriteEvent(g)) \/ (Head(kernel).file = g /\ op = "write")
<1>1. /\ kernel \in Seq(Event) /\ kernel # <<>> /\ kernel' = Tail(kernel)
      /\ Head(kernel) \in Event /\ Head(kernel).op = op
  BY ReceiveType DEF Receive, TypeOK
<1>2. Contains(kernel, WriteEvent(g))
        <=> Contains(Tail(kernel), WriteEvent(g)) \/ WriteEvent(g) = Head(kernel)
  BY <1>1, TailContains
<1>3. WriteEvent(g) = Head(kernel) <=> Head(kernel).file = g /\ op = "write"
  BY <1>1 DEF WriteEvent, Event
<1> QED
  BY <1>1, <1>2, <1>3

(* Receiving a write moves its path from the event to a timer, and stopping
   the older timer drops nothing. *)
LEMMA HandleWritePending ==
  ASSUME IInv, NEW t \in Timer, HandleWrite(t), NEW g \in File
  PROVE  Pending(g)' <=> Pending(g)
<1> DEFINE f == Head(kernel).file
<1> USE DEF IInv, TypeOK
<1>1. f \in File /\ Debounce(f, t) /\ UNCHANGED <<indexQueue, worker>> /\ Receive("write")
  BY ReceiveType DEF HandleWrite, Event, Receive, queue, work
<1>2. Contains(kernel, WriteEvent(g)) <=> Contains(kernel', WriteEvent(g)) \/ f = g
  BY <1>1, ReceivePending
<1> HIDE DEF f
<1>3. CASE g = f
  <2>1. timerState'[t] = "armed" /\ timerFile'[t] = g
    BY <1>1, <1>3 DEF Debounce
  <2>2. TimerPending(g)'
    BY <2>1 DEF TimerPending
  <2> QED
    BY <1>2, <1>3, <2>2, PendingDef, PendingDefNext
<1>4. CASE g # f
  <2>1. \A u \in Timer : timerFile'[u] = g /\ timerState'[u] \in {"armed", "sending"}
                           <=> timerFile[u] = g /\ timerState[u] \in {"armed", "sending"}
    <3> SUFFICES ASSUME NEW u \in Timer
                 PROVE  timerFile'[u] = g /\ timerState'[u] \in {"armed", "sending"}
                          <=> timerFile[u] = g /\ timerState[u] \in {"armed", "sending"}
      OBVIOUS
    <3>1. CASE u = t
      BY <1>1, <1>4, <3>1 DEF Debounce
    <3>2. CASE u # t /\ u \in Stoppable(f)
      <4>1. timerFile[u] = f
        BY <1>1, <3>2 DEF Stoppable, EntriesAreLive
      <4> QED
        BY <1>1, <1>4, <3>2, <4>1 DEF Debounce
    <3>3. CASE u # t /\ u \notin Stoppable(f)
      BY <1>1, <3>3 DEF Debounce
    <3> QED
      BY <3>1, <3>2, <3>3
  <2>2. TimerPending(g)' <=> TimerPending(g)
    BY <2>1 DEF TimerPending
  <2> QED
    BY <1>1, <1>2, <1>4, <2>2, PendingDef, PendingDefNext
<1> QED
  BY <1>3, <1>4

(* A callback moves its path from the timer to the channel. *)
LEMMA CallbackPending ==
  ASSUME IInv, NEW t \in Timer, Callback(t), NEW g \in File
  PROVE  Pending(g)' <=> Pending(g)
<1> USE DEF IInv, TypeOK
<1>1. CASE Send(t)
  <2>1. timerFile[t] \in File /\ UNCHANGED <<kernel, worker, timerFile>>
    BY <1>1 DEF Send, watch, work
  <2>2. Contains(indexQueue', g) <=> Contains(indexQueue, g) \/ g = timerFile[t]
    BY <1>1, <2>1, AppendContains DEF Send
  <2>3. TimerPending(g) => TimerPending(g)' \/ g = timerFile[t]
    BY <1>1, <2>1 DEF Send, SetTimer, TimerPending
  <2>4. TimerPending(g)' => TimerPending(g)
    BY <1>1, <2>1 DEF Send, SetTimer, TimerPending
  <2>5. g = timerFile[t] => TimerPending(g)
    BY <1>1 DEF Send, TimerPending
  <2> QED
    BY <2>1, <2>2, <2>3, <2>4, <2>5, PendingDef, PendingDefNext
<1>2. CASE Fire(t)
  <2>1. UNCHANGED <<kernel, indexQueue, worker>>
    BY <1>2 DEF Fire, watch, queue, work
  <2>2. TimerPending(g)' <=> TimerPending(g)
    BY <1>2 DEF Fire, SetTimer, TimerPending
  <2> QED
    BY <2>1, <2>2, PendingDef, PendingDefNext
<1>3. CASE DeleteEntry(t)
  <2>1. UNCHANGED <<kernel, indexQueue, worker>>
    BY <1>3 DEF DeleteEntry, watch, queue, work
  <2>2. TimerPending(g)' <=> TimerPending(g)
    BY <1>3 DEF DeleteEntry, SetTimer, TimerPending
  <2> QED
    BY <2>1, <2>2, PendingDef, PendingDefNext
<1>4. CASE SendOnClosed(t)
  <2>1. UNCHANGED <<kernel, indexQueue, worker>> /\ UNCHANGED <<timerState, timerFile>>
    BY <1>4 DEF SendOnClosed, watch, timer, queue, work
  <2>2. TimerPending(g)' <=> TimerPending(g)
    BY <2>1 DEF TimerPending
  <2> QED
    BY <2>1, <2>2, PendingDef, PendingDefNext
<1> QED
  BY <1>1, <1>2, <1>3, <1>4 DEF Callback

(* The worker takes a path off the channel and drops none but the one it has
   read. *)
LEMMA WorkerPending ==
  ASSUME IInv, ProcessIndexQueue, NEW g \in File
  PROVE  /\ Pending(g)' => Pending(g)
         /\ ~IndexTaken \/ g # worker => (Pending(g) => Pending(g)')
<1> USE DEF IInv, TypeOK
<1>1. TimerPending(g)' <=> TimerPending(g)
  BY DEF ProcessIndexQueue, Take, IndexTaken, LeaveLoop, timer, TimerPending
<1>2. kernel' = kernel
  BY DEF ProcessIndexQueue, Take, IndexTaken, LeaveLoop, watch
<1>3. CASE Take
  <2>1. /\ worker = Idle /\ worker' = Head(indexQueue) /\ g # worker
        /\ Contains(indexQueue, g) <=> Contains(indexQueue', g) \/ g = Head(indexQueue)
    BY <1>3, TailContains DEF Take
  <2> QED
    BY <1>1, <1>2, <2>1, PendingDef, PendingDefNext
<1>4. CASE IndexTaken
  <2>1. worker' = Idle /\ indexQueue' = indexQueue /\ g # Idle
    BY <1>4 DEF IndexTaken, queue
  <2> QED
    BY <1>1, <1>2, <1>4, <2>1, PendingDef, PendingDefNext
<1>5. CASE LeaveLoop
  <2>1. worker = Idle /\ worker' = Exited /\ indexQueue' = indexQueue /\ g # Idle /\ g # Exited
    BY <1>5 DEF LeaveLoop, queue
  <2> QED
    BY <1>1, <1>2, <2>1, PendingDef, PendingDefNext
<1> QED
  BY <1>3, <1>4, <1>5 DEF ProcessIndexQueue

-----------------------------------------------------------------------------
(* Every step is a step of DirtyFiles or changes nothing it can see. *)
DirtySet == {f \in File : Pending(f)}

(* A step that leaves the abstract variables alone is a stutter. *)
LEMMA QuietStep ==
  ASSUME UNCHANGED <<observed, parsed>>,
         \A g \in File : Pending(g)' <=> Pending(g)
  PROVE  UNCHANGED Dirty!vars
BY DEF Dirty!vars

(* Writes and removals map to Notice, to Forget or to a stutter. *)
LEMMA EnvironmentRefines ==
  ASSUME IInv, Environment
  PROVE  [Dirty!Next]_(Dirty!vars)
<1> USE DEF IInv, TypeOK
<1>1. ASSUME NEW d \in Dir, MakeDir(d) PROVE UNCHANGED Dirty!vars
  <2>1. UNCHANGED <<observed, parsed, kernel, timerState, timerFile, indexQueue, worker>>
    BY <1>1 DEF MakeDir, watch, timer, queue, work
  <2>2. \A g \in File : Pending(g)' <=> Pending(g)
    BY <2>1, PendingDef, PendingDefNext DEF TimerPending
  <2> QED
    BY <2>1, <2>2, QuietStep
<1>2. ASSUME NEW f \in File, Write(f) PROVE [Dirty!Next]_(Dirty!vars)
  <2>1. /\ Raise(f, "write") /\ parsed' = parsed
        /\ UNCHANGED <<timerState, timerFile, indexQueue, worker>>
        /\ observed' = [observed EXCEPT ![f] = IF Raised(f) THEN version[f] + 1 ELSE @]
    BY <1>2 DEF Write, timer, queue, work
  <2>2. \A g \in File : Pending(g)' <=> Pending(g) \/ (g = f /\ Raised(f))
    BY <2>1, RaisePending DEF Op
  <2>3. CASE ~Raised(f)
    <3>1. observed' = observed
      BY <2>1, <2>3
    <3> QED
      BY <2>1, <2>2, <2>3, <3>1, QuietStep
  <2>4. CASE Raised(f)
    <3>1. /\ observed'[f] \in Nat /\ observed'[f] > observed[f]
          /\ observed' = [observed EXCEPT ![f] = observed'[f]]
      BY <2>1, <2>4 DEF ObservedIsPresent
    <3>2. {g \in File : Pending(g)}' = {g \in File : Pending(g)} \cup {f}
      BY <2>2, <2>4
    <3>3. Dirty!Notice(f)
      BY <2>1, <3>1, <3>2 DEF Dirty!Notice
    <3> QED
      BY <3>3 DEF Dirty!Next
  <2> QED
    BY <2>3, <2>4
<1>3. ASSUME NEW f \in File, NEW op \in Op, op # "write", Raise(f, op),
             observed' \in {observed, [observed EXCEPT ![f] = 0]},
             UNCHANGED <<parsed, timerState, timerFile, indexQueue, worker>>
      PROVE  [Dirty!Next]_(Dirty!vars)
  <2>1. \A g \in File : Pending(g)' <=> Pending(g)
    BY <1>3, RaisePending
  <2>2. CASE observed' = observed
    BY <1>3, <2>1, <2>2, QuietStep
  <2>3. CASE observed' = [observed EXCEPT ![f] = 0]
    <3>1. Dirty!Forget(f)
      BY <1>3, <2>1, <2>3 DEF Dirty!Forget
    <3> QED
      BY <3>1 DEF Dirty!Next
  <2> QED
    BY <1>3, <2>2, <2>3
<1>4. ASSUME NEW f \in File, Unlink(f) PROVE [Dirty!Next]_(Dirty!vars)
  BY <1>3, <1>4 DEF Unlink, Op, timer, queue, work
<1>5. ASSUME NEW f \in File, RenameOrChmod(f) PROVE [Dirty!Next]_(Dirty!vars)
  <2>1. observed' \in {observed, [observed EXCEPT ![f] = 0]}
    BY <1>5 DEF RenameOrChmod
  <2> QED
    BY <1>3, <1>5, <2>1 DEF RenameOrChmod, Op, timer, queue, work
<1> QED
  BY <1>1, <1>2, <1>4, <1>5 DEF Environment

(* The steps of watchFiles map to stutters. *)
LEMMA WatchRefines ==
  ASSUME IInv, WatchFiles
  PROVE  UNCHANGED Dirty!vars
<1> USE DEF IInv, TypeOK
<1>1. UNCHANGED <<observed, parsed>>
  BY DEF WatchFiles, StartWatching, AddDir, EnterLoop, HandleWrite, HandleOther, Receive,
         WatchReturn, env, work
<1>2. ASSUME NEW t \in Timer, HandleWrite(t) PROVE \A g \in File : Pending(g)' <=> Pending(g)
  BY <1>2, HandleWritePending
<1>3. ASSUME HandleOther PROVE \A g \in File : Pending(g)' <=> Pending(g)
  <2>1. /\ \A g \in File : Contains(kernel, WriteEvent(g)) <=> Contains(kernel', WriteEvent(g))
        /\ UNCHANGED <<timerState, timerFile, indexQueue, worker>>
    BY <1>3, ReceivePending DEF HandleOther, Receive, timer, queue, work
  <2> QED
    BY <2>1, PendingDef, PendingDefNext DEF TimerPending
<1>4. ASSUME UNCHANGED <<kernel, timer, queue, work>>
      PROVE  \A g \in File : Pending(g)' <=> Pending(g)
  BY <1>4, PendingDef, PendingDefNext DEF TimerPending, timer, queue, work
<1>5. \A g \in File : Pending(g)' <=> Pending(g)
  BY <1>2, <1>3, <1>4 DEF WatchFiles, StartWatching, AddDir, EnterLoop, WatchReturn
<1> QED
  BY <1>1, <1>5, QuietStep

(* Reading a file maps to Process. *)
LEMMA WorkerRefines ==
  ASSUME IInv, ProcessIndexQueue
  PROVE  [Dirty!Next]_(Dirty!vars)
<1> USE DEF IInv, TypeOK
<1>1. CASE Take \/ LeaveLoop
  <2>1. UNCHANGED <<observed, parsed>> /\ ~IndexTaken
    BY <1>1 DEF Take, LeaveLoop, IndexTaken, env
  <2> QED
    BY <2>1, WorkerPending, QuietStep
<1>2. CASE IndexTaken
  <2> DEFINE f == worker
  <2>1. /\ f \in File /\ Pending(f) /\ observed' = observed
        /\ worker' = Idle /\ Idle \notin File
    BY <1>2, PendingDef DEF IndexTaken, env
  <2>2. /\ parsed'[f] \in Nat /\ parsed'[f] >= observed[f]
        /\ parsed' = [parsed EXCEPT ![f] = parsed'[f]]
    <3>1. CASE f \in present
      BY <1>2, <2>1, <3>1 DEF IndexTaken, ObservedIsPresent
    <3>2. CASE f \notin present
      BY <1>2, <2>1, <3>2 DEF IndexTaken, ObservedIsPresent
    <3> QED
      BY <3>1, <3>2
  <2>3. \A g \in File : (Pending(g)' => Pending(g)) /\ (g # f => (Pending(g) => Pending(g)'))
    BY WorkerPending
  <2>4. DirtySet' \in {DirtySet, DirtySet \ {f}}
    BY <2>1, <2>3 DEF DirtySet
  <2>5. f \in DirtySet
    BY <2>1 DEF DirtySet
  <2> HIDE DEF f
  <2>6. Dirty!Process(f)
    BY <2>1, <2>2, <2>4, <2>5 DEF Dirty!Process, DirtySet
  <2> QED
    BY <2>1, <2>6 DEF Dirty!Next
<1> QED
  BY <1>1, <1>2 DEF ProcessIndexQueue

(* Every step maps to a step of DirtyFiles or to a stutter. *)
LEMMA RefinementStep == IInv /\ [Next]_vars => [Dirty!Next]_(Dirty!vars)
<1> SUFFICES ASSUME IInv, [Next]_vars PROVE [Dirty!Next]_(Dirty!vars)
  OBVIOUS
<1>1. ASSUME NEW t \in Timer, Callback(t) PROVE UNCHANGED Dirty!vars
  <2>1. UNCHANGED <<observed, parsed>>
    BY <1>1 DEF Callback, Fire, Send, SendOnClosed, DeleteEntry, env, work
  <2> QED
    BY <1>1, <2>1, CallbackPending, QuietStep
<1>2. ASSUME Stop \/ Terminated \/ UNCHANGED vars PROVE UNCHANGED Dirty!vars
  <2>1. UNCHANGED <<observed, parsed, kernel, timerState, timerFile, indexQueue, worker>>
    BY <1>2 DEF Stop, CloseDone, CloseWatcher, CloseQueue, ExitProcess, Terminated, vars,
                env, watch, timer, queue, work
  <2>2. \A g \in File : Pending(g)' <=> Pending(g)
    BY <2>1, PendingDef, PendingDefNext DEF TimerPending
  <2> QED
    BY <2>1, <2>2, QuietStep
<1> QED
  BY <1>1, <1>2, EnvironmentRefines, WatchRefines, WorkerRefines DEF Next

(* The watcher, the timer callbacks, the queue and its worker together keep
   the promise of DirtyFiles, for any number of files and timers and any
   capacity of the queue (indexer.go, lines 334-438). *)
THEOREM Refinement == Spec => ImplementsDirtyFiles
<1>1. Init => Dirty!Init
  <2>1. ASSUME Init, NEW f \in File PROVE ~Pending(f)
    <3>1. Len(kernel) = 0 /\ Len(indexQueue) = 0
      BY <2>1, EmptySeq DEF Init
    <3>2. ~TimerPending(f) /\ worker # f
      BY <2>1 DEF Init, TimerPending
    <3> QED
      BY <3>1, <3>2 DEF Pending, EventQueued, PathQueued, Contains
  <2> QED
    BY <2>1 DEF Init, Dirty!Init
<1> QED
  BY <1>1, Invariance, RefinementStep, PTL DEF Spec, ImplementsDirtyFiles, Dirty!Spec

(* A change whose event was raised is never lost on its way to the worker. *)
THEOREM NoEventIsLost == Spec => []NoLostEvent
<1>1. Init => NoLostEvent
  BY DEF Init, NoLostEvent
<1>2. ASSUME IInv, NoLostEvent, [Dirty!Next]_(Dirty!vars) PROVE NoLostEvent'
  <2> USE DEF IInv, TypeOK, NoLostEvent
  <2>1. \A f \in File : (f \in DirtySet <=> Pending(f)) /\ (f \in DirtySet' <=> Pending(f)')
    BY DEF DirtySet
  <2>2. ASSUME NEW f \in File, Dirty!Notice(f) PROVE NoLostEvent'
    <3>1. parsed' = parsed /\ DirtySet' = DirtySet \cup {f}
      BY <1>2, <2>2 DEF Dirty!Notice, DirtySet
    <3>2. \A g \in File : g # f => observed'[g] = observed[g]
      BY <1>2, <2>2 DEF Dirty!Notice
    <3> QED
      BY <1>2, <2>1, <3>1, <3>2
  <2>3. ASSUME NEW f \in File, Dirty!Forget(f) PROVE NoLostEvent'
    <3>1. parsed' = parsed /\ DirtySet' = DirtySet /\ observed' = [observed EXCEPT ![f] = 0]
      BY <1>2, <2>3 DEF Dirty!Forget, DirtySet
    <3> QED
      BY <1>2, <2>1, <3>1
  <2>4. ASSUME NEW f \in File, Dirty!Process(f) PROVE NoLostEvent'
    <3>1. /\ observed' = observed /\ parsed' = [parsed EXCEPT ![f] = parsed'[f]]
          /\ parsed'[f] \in Nat /\ parsed'[f] >= observed[f]
          /\ DirtySet' \in {DirtySet, DirtySet \ {f}}
      BY <1>2, <2>4 DEF Dirty!Process, DirtySet
    <3>2. \A g \in File : g # f => parsed'[g] = parsed[g]
      BY <1>2, <3>1
    <3>3. \A g \in File : g # f /\ g \in DirtySet => g \in DirtySet'
      BY <3>1
    <3>4. ~(parsed'[f] < observed'[f])
      BY <1>2, <3>1
    <3> QED
      BY <1>2, <2>1, <3>1, <3>2, <3>3, <3>4
  <2>5. ASSUME UNCHANGED Dirty!vars PROVE NoLostEvent'
    <3>1. parsed' = parsed /\ DirtySet' = DirtySet /\ observed' = observed
      BY <1>2, <2>5 DEF Dirty!vars, DirtySet
    <3> QED
      BY <1>2, <2>1, <3>1
  <2> QED
    BY <1>2, <2>2, <2>3, <2>4, <2>5 DEF Dirty!Next
<1> QED
  BY <1>1, <1>2, Invariance, RefinementStep, PTL DEF Spec
=============================================================================
