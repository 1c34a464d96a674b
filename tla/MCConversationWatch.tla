------------------------- MODULE MCConversationWatch -------------------------
(* Small instances of ConversationWatch: one or two files, one directory.
   With two, the first is written again and again. *)
EXTENDS ConversationWatch, TLC

CONSTANTS f1, f2, d1

OneDir == [f \in File |-> d1]
Writes == [f \in File |-> IF f = f1 THEN 2 ELSE 1]
=============================================================================
