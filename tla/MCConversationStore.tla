------------------------- MODULE MCConversationStore -------------------------
(* Small instances of ConversationStore.  f2 holds a copy of a message
   of f1, as a resumed session makes.  In OneConv both paths have the
   same base name. *)
EXTENDS ConversationStore, TLC

CONSTANTS f1, f2, c1, c2, u1, u2, s1

TwoConvs == (f1 :> c1) @@ (f2 :> c2)
OneConv == [f \in File |-> c1]
Messages == (f1 :> <<{u1}, {u2}>>) @@ (f2 :> <<{u1}>>)
Writes == [f \in File |-> IF f = f1 THEN 2 ELSE 1]
Copy == [f \in File |-> <<{u1}>>]
OneWrite == [f \in File |-> 1]
AllInSession == [u \in Uuid |-> s1]
InNoSession == [u \in Uuid |-> NoSession]
(* TwoConvs, Copy and OneWrite treat f1 with c1 as they treat f2 with c2. *)
Swap == {(f1 :> f2) @@ (f2 :> f1) @@ (c1 :> c2) @@ (c2 :> c1)}
=============================================================================
