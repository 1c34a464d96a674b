------------------------------ MODULE DirtyFiles ------------------------------
(***************************************************************************)
(* What an indexer's watching side promises to its indexing side: a set of *)
(* dirty files.  A file whose change was noticed is dirty; it stops being  *)
(* dirty only when it is processed, and processing reads at least the      *)
(* content that was noticed last.  How long a file stays dirty, and how    *)
(* often it is processed for one change, is left open.                     *)
(***************************************************************************)
EXTENDS Naturals

CONSTANT File

VARIABLES
  noticed,   \* noticed[f]: newest content of f a change event was raised for
  read,      \* read[f]: newest content of f that processing has read
  dirty      \* the files that still have to be processed

vars == <<noticed, read, dirty>>

Init ==
  /\ noticed = [f \in File |-> 0]
  /\ read = [f \in File |-> 0]
  /\ dirty = {}

Notice(f) ==
  /\ noticed'[f] \in Nat /\ noticed'[f] > noticed[f]
  /\ noticed' = [noticed EXCEPT ![f] = noticed'[f]]
  /\ dirty' = dirty \cup {f}
  /\ UNCHANGED read

(* The file is gone: nothing of it is left to read. *)
Forget(f) ==
  /\ noticed' = [noticed EXCEPT ![f] = 0]
  /\ UNCHANGED <<read, dirty>>

Process(f) ==
  /\ f \in dirty
  /\ read'[f] \in Nat /\ read'[f] >= noticed[f]
  /\ read' = [read EXCEPT ![f] = read'[f]]
  /\ dirty' \in {dirty, dirty \ {f}}
  /\ UNCHANGED noticed

Next == \E f \in File : Notice(f) \/ Forget(f) \/ Process(f)

Spec == Init /\ [][Next]_vars

(* Nothing noticed is left behind: content not read yet keeps its file dirty. *)
UnreadIsDirty == \A f \in File : read[f] < noticed[f] => f \in dirty
=============================================================================
