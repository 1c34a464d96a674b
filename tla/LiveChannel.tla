------------------------------ MODULE LiveChannel ------------------------------
(***************************************************************************)
(* What one connection of the live channel promises about one topic,       *)
(* whichever goroutine streams it and however the two interleave.  While   *)
(* the topic is listed its data is read; a version read that differs from  *)
(* the last one numbered gets the next number, one that does not is        *)
(* skipped; a numbered event is delivered, or lost with the connection.    *)
(*                                                                         *)
(* Left open on purpose, since the code leaves it open: a version may be   *)
(* out of date when it is numbered, events may be delivered in another     *)
(* order than that of their numbers, and one that is under way when the    *)
(* topic is unsubscribed may still come.                                   *)
(***************************************************************************)
EXTENDS Naturals, Sequences

CONSTANTS Version, NoHash

VARIABLES
  data,    \* the version of the topic's data
  listed,  \* "yes": subscribed; "once": left, but on the list of a tick; "no"
  taken,   \* versions read and not compared yet
  last,    \* the version numbered last, NoHash before the first
  count,   \* numbers given so far
  flight,  \* events numbered and not written yet
  sent,    \* events delivered, in order of arrival
  broken   \* a write has failed

source == <<data, taken>>
marks  == <<last, count>>
vars   == <<source, listed, marks, flight, sent, broken>>

Init ==
  /\ data \in Version /\ listed = "no" /\ taken = {}
  /\ last = NoHash /\ count = 0
  /\ flight = {} /\ sent = <<>> /\ broken = FALSE

Change ==
  /\ data' \in Version
  /\ UNCHANGED <<listed, taken, marks, flight, sent, broken>>

Subscribe ==
  /\ listed' = "yes"
  /\ UNCHANGED <<source, marks, flight, sent, broken>>

Unsubscribe ==
  /\ listed = "yes" /\ listed' \in {"once", "no"}
  /\ UNCHANGED <<source, marks, flight, sent, broken>>

(* The tick under way is past a topic that was left. *)
Pass == listed' = listed \/ (listed = "once" /\ listed' = "no")

(* It comes to nothing: the snapshot failed. *)
Fail ==
  /\ Pass
  /\ UNCHANGED <<source, marks, flight, sent, broken>>

Take ==
  /\ listed # "no"
  /\ taken' = taken \cup {data}
  /\ UNCHANGED <<data, listed, marks, flight, sent, broken>>

(* A version may have been read by both goroutines. *)
Compared(v) == taken' \in {taken, taken \ {v}}

Skip(v) ==
  /\ v \in taken /\ v = last
  /\ Compared(v) /\ Pass
  /\ UNCHANGED <<data, marks, flight, sent, broken>>

Number(v) ==
  /\ v \in taken /\ v # last
  /\ \A d, e \in flight : d = e
  /\ Compared(v)
  /\ last' = v /\ count' = count + 1
  /\ flight' = flight \cup {[seq |-> count', ver |-> v]}
  /\ UNCHANGED <<data, listed, sent, broken>>

Deliver(e) ==
  /\ e \in flight /\ listed # "no" /\ ~broken
  /\ flight' = flight \ {e} /\ sent' = Append(sent, e)
  /\ listed' = IF listed = "once" THEN "no" ELSE listed
  /\ UNCHANGED <<source, marks, broken>>

Lose(e) ==
  /\ e \in flight
  /\ flight' = flight \ {e} /\ broken' = TRUE
  /\ Pass
  /\ UNCHANGED <<source, marks, sent>>

(* Another message could not be written. *)
Break ==
  /\ broken' = TRUE
  /\ UNCHANGED <<source, listed, marks, flight, sent>>

Next ==
  \/ Change \/ Subscribe \/ Unsubscribe \/ Fail \/ Take \/ Break
  \/ \E v \in taken : Skip(v) \/ Number(v)
  \/ \E e \in flight : Deliver(e) \/ Lose(e)

Spec == Init /\ [][Next]_vars

-----------------------------------------------------------------------------
(* What a client can make of the numbers: a jump is a gap, or one event that
   was overtaken and still comes.  Until a write fails, of the numbers below
   one that arrived at most one has not arrived, however many events overtake
   it. *)
Missing(n) == \A i \in DOMAIN sent : sent[i].seq # n

OneBehind ==
  ~broken => \A i \in DOMAIN sent : \A m, n \in 1..(sent[i].seq - 1) :
               Missing(m) /\ Missing(n) => m = n
=============================================================================
