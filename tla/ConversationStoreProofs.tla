----------------------- MODULE ConversationStoreProofs -----------------------
(***************************************************************************)
(* What ConversationStore promises for any set of files, conversations,    *)
(* messages and sessions, any number of writes and any number of crashes.  *)
(*                                                                         *)
(* TypeOK is strengthened by VersionsExist: a version that was parsed, or  *)
(* that a row stands for, is one the file has had.  The other invariants   *)
(* are inductive relative to the two, and each is proved in a lemma of its *)
(* own, one step per action that can disturb it.                           *)
(***************************************************************************)
EXTENDS ConversationStore, FiniteSetTheorems, TLAPS

HasParsed(th) == thread[th].pc \in {"parsed"} \cup Upserting

VersionsExist ==
  /\ \A f \in File : version[f] <= MaxWrites[f]
  /\ \A f \in present : version[f] >= 1
  /\ \A th \in Thread : HasParsed(th) => thread[th].ver \in 1..version[thread[th].file]
  /\ \A c \in Conv : row[c] # None =>
       /\ ConvOf[row[c].file] = c
       /\ row[c].ver \in 1..version[row[c].file]

RemovalsAreRemovable ==
  removals \subseteq Removable /\ remover \in Removable \cup {None}

IInv == TypeOK /\ VersionsExist

USE FileAssumption, UuidAssumption, MaxAssumption

(* How many messages a set holds is a natural number, positive unless it is
   empty. *)
LEMMA CountType ==
  ASSUME NEW c, NEW s
  PROVE  /\ CountOf(c, s) \in Nat
         /\ \A u \in MessagesOf(c) : SessionOf[u] = s => CountOf(c, s) > 0
PROOF
  <1> DEFINE S == {u \in MessagesOf(c) : SessionOf[u] = s}
  <1>1. IsFiniteSet(S)
    BY FS_Subset DEF MessagesOf
  <1>2. Cardinality(S) \in Nat
    BY <1>1, FS_CardinalityType
  <1>3. S # {} => Cardinality(S) # 0
    BY <1>1, FS_EmptySet
  <1>4. CountOf(c, s) = Cardinality(S)
    BY DEF CountOf
  <1>5. ASSUME NEW u \in MessagesOf(c), SessionOf[u] = s PROVE S # {}
    BY <1>5
  <1> HIDE DEF S
  <1> QED
    BY <1>2, <1>3, <1>4, <1>5

(* The messages of a version a file has had are messages. *)
LEMMA ContentType ==
  ASSUME NEW f \in File, NEW v, v \in 1..MaxWrites[f]
  PROVE  Content[f][v] \subseteq Uuid
PROOF
  <1>1. Content[f] \in [1..MaxWrites[f] -> SUBSET Uuid]
    OBVIOUS
  <1> QED
    BY <1>1

(* In the initial state every variable has its type and nothing is indexed. *)
LEMMA InitIInv == Init => IInv
PROOF
  <1> SUFFICES ASSUME Init PROVE IInv
    OBVIOUS
  <1>1. TypeOK
    <2>1. /\ row \in [Conv -> Row \cup {None}]
          /\ msgs \in [Uuid -> Conv \cup {None}]
          /\ sessions \in [Session -> SessionRow \cup {None}]
      BY DEF Init
    <2>2. smap \in [Session \X Conv -> Nat]
      BY DEF Init
    <2>3. thread \in [Thread -> Busy \cup {IdleThread}]
      BY DEF Init
    <2>4. failures \in 0..MaxFailures
      BY DEF Init
    <2> QED
      BY <2>1, <2>2, <2>3, <2>4 DEF Init, TypeOK
  <1>2. VersionsExist
    BY DEF Init, VersionsExist, HasParsed, IdleThread, Upserting, Thread
  <1> QED
    BY <1>1, <1>2 DEF IInv

-----------------------------------------------------------------------------
(* Steps on the thread records. *)

(* A goroutine that is not idle has a file, and a conversation. *)
LEMMA BusyType ==
  ASSUME TypeOK, NEW th \in Thread, thread[th].pc # "idle"
  PROVE  thread[th] \in Busy /\ ConvAt(th) \in Conv
PROOF
  <1>1. thread[th] \in Busy \cup {IdleThread}
    BY DEF TypeOK
  <1>2. thread[th] # IdleThread
    BY DEF IdleThread
  <1>3. thread[th].file \in File
    BY <1>1, <1>2 DEF Busy
  <1> QED
    BY <1>1, <1>2, <1>3 DEF ConvAt

(* Going on to the next statement keeps the file and the version; coming to
   rest, and crashing, forget them. *)
LEMMA ThreadStep ==
  ASSUME TypeOK, NEW th \in Thread
  PROVE  /\ \A pc \in {"chosen", "parsed"} \cup Upserting :
              thread[th].pc # "idle" /\ Goto(th, pc) =>
                /\ thread' \in [Thread -> Busy \cup {IdleThread}]
                /\ thread'[th].pc = pc
                /\ thread'[th].file = thread[th].file
                /\ thread'[th].ver = thread[th].ver
                /\ \A t \in Thread \ {th} : thread'[t] = thread[t]
         /\ Rest(th) =>
              /\ thread' \in [Thread -> Busy \cup {IdleThread}]
              /\ thread'[th] = IdleThread
              /\ \A t \in Thread \ {th} : thread'[t] = thread[t]
PROOF
  <1>1. thread \in [Thread -> Busy \cup {IdleThread}]
    BY DEF TypeOK
  <1>2. ASSUME NEW pc \in {"chosen", "parsed"} \cup Upserting,
               thread[th].pc # "idle", Goto(th, pc)
        PROVE  /\ thread' \in [Thread -> Busy \cup {IdleThread}]
               /\ thread'[th].pc = pc
               /\ thread'[th].file = thread[th].file
               /\ thread'[th].ver = thread[th].ver
               /\ \A t \in Thread \ {th} : thread'[t] = thread[t]
    <2>1. thread[th] \in Busy
      BY <1>2, BusyType
    <2>2. [thread[th] EXCEPT !.pc = pc] \in Busy
      BY <1>2, <2>1 DEF Busy
    <2>3. thread' = [thread EXCEPT ![th] = [thread[th] EXCEPT !.pc = pc]]
      BY <1>1, <1>2 DEF Goto
    <2>4. thread' \in [Thread -> Busy \cup {IdleThread}]
      BY <1>1, <2>2, <2>3
    <2>5. thread'[th] = [thread[th] EXCEPT !.pc = pc]
      BY <1>1, <2>3
    <2>6. \A t \in Thread \ {th} : thread'[t] = thread[t]
      BY <1>1, <2>3
    <2> QED
      BY <2>1, <2>4, <2>5, <2>6 DEF Busy
  <1>3. ASSUME Rest(th)
        PROVE  /\ thread' \in [Thread -> Busy \cup {IdleThread}]
               /\ thread'[th] = IdleThread
               /\ \A t \in Thread \ {th} : thread'[t] = thread[t]
    BY <1>1, <1>3 DEF Rest
  <1> QED
    BY <1>2, <1>3

(* A goroutine that parses a file that exists gets a version it has had. *)
LEMMA ParseStep ==
  ASSUME IInv, NEW th \in Thread, NEW f \in present,
         thread' = [thread EXCEPT ![th] = [pc |-> "parsed", file |-> f, ver |-> version[f]]]
  PROVE  /\ thread' \in [Thread -> Busy \cup {IdleThread}]
         /\ thread'[th].file = f
         /\ thread'[th].ver \in 1..version[f]
         /\ \A t \in Thread \ {th} : thread'[t] = thread[t]
PROOF
  <1>1. thread \in [Thread -> Busy \cup {IdleThread}]
    BY DEF IInv, TypeOK
  <1>2. f \in File /\ version[f] \in Nat /\ version[f] >= 1
    BY DEF IInv, TypeOK, VersionsExist
  <1>3. [pc |-> "parsed", file |-> f, ver |-> version[f]] \in Busy
    BY <1>2 DEF Busy
  <1> QED
    BY <1>1, <1>2, <1>3

-----------------------------------------------------------------------------
(* IInv is inductive.  One lemma per actor. *)

(* The environment only adds versions. *)
LEMMA EnvironmentIInv ==
  ASSUME IInv, NEW f \in File, Write(f) \/ Vanish(f)
  PROVE  IInv'
PROOF
  <1> USE DEF IInv
  <1>1. CASE Write(f)
    <2> USE <1>1
    <2>1. /\ version[f] \in Nat /\ version[f] < MaxWrites[f] /\ MaxWrites[f] \in Nat
          /\ version' \in [File -> Nat]
          /\ version'[f] = version[f] + 1
          /\ \A g \in File \ {f} : version'[g] = version[g]
      BY DEF Write, TypeOK
    <2>2. dirty' \in SUBSET File /\ present' \in SUBSET File /\ newer' \in [File -> BOOLEAN]
      BY DEF Write, TypeOK
    <2>3. TypeOK'
      BY <2>1, <2>2 DEF Write, TypeOK, tables
    <2>4. \A g \in File : version[g] \in Nat /\ version'[g] \in Nat /\ version[g] <= version'[g]
      <3> TAKE g \in File
      <3>1. version[g] \in Nat /\ version'[g] \in Nat
        BY <2>1 DEF TypeOK
      <3>2. version'[g] = version[g] \/ version'[g] = version[g] + 1
        BY <2>1
      <3> QED
        BY <3>1, <3>2
    <2>5. \A th \in Thread : HasParsed(th)' => thread'[th].ver \in 1..version'[thread'[th].file]
      <3> SUFFICES ASSUME NEW th \in Thread, HasParsed(th)
                   PROVE  thread[th].ver \in 1..version'[thread[th].file]
        BY DEF Write, HasParsed
      <3>1. thread[th] \in Busy
        BY BusyType DEF HasParsed, Upserting
      <3>2. thread[th].ver \in 1..version[thread[th].file]
        BY DEF VersionsExist
      <3> QED
        BY <2>4, <3>1, <3>2 DEF Busy
    <2>6. \A c \in Conv : row'[c] # None =>
            ConvOf[row'[c].file] = c /\ row'[c].ver \in 1..version'[row'[c].file]
      <3> SUFFICES ASSUME NEW c \in Conv, row[c] # None
                   PROVE  ConvOf[row[c].file] = c /\ row[c].ver \in 1..version'[row[c].file]
        BY DEF Write, tables
      <3>1. row[c] \in Row
        BY DEF TypeOK
      <3> QED
        BY <2>4, <3>1 DEF VersionsExist, Row
    <2>7. VersionsExist'
      BY <2>1, <2>5, <2>6 DEF Write, VersionsExist
    <2> QED
      BY <2>3, <2>7
  <1>2. CASE Vanish(f)
    <2>1. TypeOK'
      BY <1>2 DEF Vanish, TypeOK, tables
    <2>2. VersionsExist'
      BY <1>2 DEF Vanish, VersionsExist, tables, HasParsed
    <2> QED
      BY <2>1, <2>2
  <1> QED
    BY <1>1, <1>2

(* A start and a crash leave the tables alone and no goroutine half-way. *)
LEMMA ProcessIInv ==
  ASSUME IInv, Boot \/ Crash
  PROVE  IInv'
PROOF
  <1> USE DEF IInv
  <1>1. CASE Boot
    <2>1. TypeOK'
      BY <1>1 DEF Boot, TypeOK, tables, disk
    <2>2. VersionsExist'
      BY <1>1 DEF Boot, VersionsExist, tables, disk, HasParsed
    <2> QED
      BY <2>1, <2>2
  <1>2. CASE Crash
    <2>1. {ConvAt(th) : th \in {t \in Thread : thread[t].pc \in Upserting}} \subseteq Conv
      BY BusyType DEF Upserting
    <2>2. thread' \in [Thread -> Busy \cup {IdleThread}]
      BY <1>2 DEF Crash
    <2>3. failures' \in 0..MaxFailures
      BY <1>2 DEF Crash, TypeOK
    <2>4. TypeOK'
      BY <1>2, <2>1, <2>2, <2>3 DEF Crash, TypeOK, tables, disk
    <2>5. \A th \in Thread : ~HasParsed(th)'
      BY <1>2 DEF Crash, HasParsed, IdleThread, Upserting
    <2>6. VersionsExist'
      BY <1>2, <2>5 DEF Crash, VersionsExist, tables, disk
    <2> QED
      BY <2>4, <2>6
  <1> QED
    BY <1>1, <1>2

(* Choosing and parsing a file. *)
LEMMA ParseIInv ==
  ASSUME IInv, WalkerParse \/ \E f \in File : Visit(f) \/ WorkerParse(f)
  PROVE  IInv'
PROOF
  <1> USE DEF IInv
  <1>0. "walker" \in Thread /\ "worker" \in Thread
    BY DEF Thread
  <1>1. CASE \E f \in File : Visit(f)
    <2> PICK f \in File : Visit(f)
      BY <1>1
    <2>1. /\ thread' \in [Thread -> Busy \cup {IdleThread}]
          /\ \A th \in Thread : thread'[th] = thread[th] \/ thread'[th].pc = "chosen"
      <3>1. [pc |-> "chosen", file |-> f, ver |-> 0] \in Busy
        BY DEF Busy
      <3>2. thread \in [Thread -> Busy \cup {IdleThread}]
        BY DEF TypeOK
      <3> QED
        BY <3>1, <3>2 DEF Visit
    <2>2. TypeOK'
      BY <2>1 DEF Visit, TypeOK, tables, disk
    <2>3. VersionsExist'
      BY <2>1 DEF Visit, VersionsExist, tables, disk, HasParsed, Upserting
    <2> QED
      BY <2>2, <2>3
  <1>2. CASE WalkerParse
    <2>1. /\ thread' \in [Thread -> Busy \cup {IdleThread}]
          /\ \A th \in Thread : HasParsed(th)' =>
               thread'[th] = thread[th] \/ thread'[th].ver \in 1..version[thread'[th].file]
      <3>1. CASE thread["walker"].file \in present
        BY <1>0, <1>2, <3>1, ParseStep DEF WalkerParse
      <3>2. CASE thread["walker"].file \notin present
        BY <1>0, <1>2, <3>2, ThreadStep DEF WalkerParse, HasParsed, IdleThread, Upserting
      <3> QED
        BY <3>1, <3>2
    <2>2. TypeOK'
      BY <1>2, <2>1 DEF WalkerParse, TypeOK, tables, disk
    <2>3. VersionsExist'
      BY <1>2, <2>1 DEF WalkerParse, VersionsExist, tables, disk, HasParsed
    <2> QED
      BY <2>2, <2>3
  <1>3. CASE \E f \in File : WorkerParse(f)
    <2> PICK f \in File : WorkerParse(f)
      BY <1>3
    <2>1. /\ thread' \in [Thread -> Busy \cup {IdleThread}]
          /\ \A th \in Thread : HasParsed(th)' =>
               thread'[th] = thread[th] \/ thread'[th].ver \in 1..version[thread'[th].file]
      <3>1. CASE f \in present
        BY <1>0, <3>1, ParseStep DEF WorkerParse
      <3>2. CASE f \notin present
        BY <3>2 DEF WorkerParse, TypeOK
      <3> QED
        BY <3>1, <3>2
    <2>2. dirty' \in SUBSET File
      BY DEF WorkerParse, TypeOK
    <2>3. TypeOK'
      BY <2>1, <2>2 DEF WorkerParse, TypeOK, tables, disk
    <2>4. VersionsExist'
      BY <2>1 DEF WorkerParse, VersionsExist, tables, disk, HasParsed
    <2> QED
      BY <2>3, <2>4
  <1> QED
    BY <1>1, <1>2, <1>3

(* The transaction writes the row of the version that was parsed. *)
LEMMA CommitIInv ==
  ASSUME IInv, NEW th \in Thread, Commit(th)
  PROVE  IInv'
PROOF
  <1> USE DEF IInv
  <1> DEFINE f == thread[th].file
             c == ConvAt(th)
             v == thread[th].ver
  <1>1. thread[th].pc # "idle" /\ HasParsed(th)
    BY DEF Commit, At, HasParsed
  <1>2. thread[th] \in Busy /\ f \in File /\ c \in Conv /\ c = ConvOf[f]
    BY <1>1, BusyType DEF Busy, ConvAt
  <1>3. v \in 1..version[f] /\ version[f] \in Nat /\ v \in 1..MaxWrites[f] /\ v \in Nat
    BY <1>1, <1>2 DEF VersionsExist, TypeOK
  <1>4. Content[f][v] \subseteq Uuid
    BY <1>2, <1>3, ContentType
  <1>5. Goto(th, "upsertSession") /\ "upsertSession" \in Upserting
    BY DEF Commit, Upserting
  <1>6. /\ thread' \in [Thread -> Busy \cup {IdleThread}]
        /\ \A t \in Thread : thread'[t].file = thread[t].file /\ thread'[t].ver = thread[t].ver
        /\ \A t \in Thread : HasParsed(t)' => HasParsed(t)
    BY <1>1, <1>5, ThreadStep DEF HasParsed
  <1>7. /\ row' = [row EXCEPT ![c] = [file |-> f, ver |-> v, cleared |-> FALSE,
                                     behind |-> v < version[f]]]
        /\ [file |-> f, ver |-> v, cleared |-> FALSE, behind |-> v < version[f]] \in Row
    BY <1>2, <1>3 DEF Commit, Row
  <1>8. row' \in [Conv -> Row \cup {None}]
    BY <1>7 DEF TypeOK
  <1>9. /\ msgs' \in [Uuid -> Conv \cup {None}]
        /\ fts' \in SUBSET (Conv \X Uuid) /\ unfound' \in SUBSET (Conv \X Uuid)
        /\ failures' \in 0..MaxFailures
    <2> DEFINE us == Content[f][v]
    <2>1. PICK stored \in SUBSET us, found \in SUBSET (us \cap Textual) :
            /\ msgs' = [u \in Uuid |-> IF u \in stored THEN c
                                       ELSE IF msgs[u] = c THEN None ELSE msgs[u]]
            /\ fts' = Entries(c, found)
            /\ unfound' = {p \in unfound : p[1] # c} \cup ({c} \X ((us \cap Textual) \ found))
            /\ failures' = failures + Cardinality(us \ stored)
                           + Cardinality((us \cap Textual) \ found)
            /\ failures' <= MaxFailures
      BY DEF Commit
    <2>2. msgs' \in [Uuid -> Conv \cup {None}]
      BY <1>2, <1>4, <2>1 DEF TypeOK
    <2>3. fts' \in SUBSET (Conv \X Uuid) /\ unfound' \in SUBSET (Conv \X Uuid)
      BY <1>2, <1>4, <2>1 DEF TypeOK, Entries
    <2>4. \A s \in SUBSET Uuid : Cardinality(s) \in Nat
      BY FS_Subset, FS_CardinalityType
    <2>5. /\ Cardinality(us \ stored) \in Nat
          /\ Cardinality((us \cap Textual) \ found) \in Nat
      BY <1>4, <2>4
    <2>6. failures \in Nat
      BY DEF TypeOK
    <2>7. failures' \in 0..MaxFailures
      BY <2>1, <2>5, <2>6
    <2> QED
      BY <2>2, <2>3, <2>7
  <1>10. smap' \in [Session \X Conv -> Nat]
    BY DEF Commit, CascadeMap, TypeOK
  <1>11. newer' \in [File -> BOOLEAN]
    <2>1. PICK b \in BOOLEAN : newer' = [newer EXCEPT ![f] = b]
      BY DEF Commit
    <2> QED
      BY <2>1 DEF TypeOK
  <1>12. TypeOK'
    BY <1>6, <1>8, <1>9, <1>10, <1>11 DEF Commit, TypeOK, disk
  <1>13. \A d \in Conv : row'[d] # None =>
           ConvOf[row'[d].file] = d /\ row'[d].ver \in 1..version[row'[d].file]
    <2> SUFFICES ASSUME NEW d \in Conv, row'[d] # None
                 PROVE  ConvOf[row'[d].file] = d /\ row'[d].ver \in 1..version[row'[d].file]
      OBVIOUS
    <2>1. CASE d = c
      BY <1>2, <1>3, <1>7, <2>1 DEF TypeOK
    <2>2. CASE d # c
      BY <1>7, <2>2 DEF TypeOK, VersionsExist
    <2> QED
      BY <2>1, <2>2
  <1>14. VersionsExist'
    BY <1>6, <1>13 DEF Commit, VersionsExist, disk
  <1> QED
    BY <1>12, <1>14

(* The three statements after it, a failure of one, and giving up. *)
LEMMA UpsertIInv ==
  ASSUME IInv, NEW th \in Thread,
         \/ UpsertSession(th) \/ UpsertMap(th) \/ UpsertCounts(th)
         \/ UpsertFails(th) \/ Abort(th)
  PROVE  IInv'
PROOF
  <1> USE DEF IInv
  <1>1. /\ thread[th].pc # "idle"
        /\ {"upsertMap", "upsertCounts"} \subseteq Upserting
    BY DEF UpsertSession, UpsertMap, UpsertCounts, UpsertFails, Abort, At, Upserting
  <1>2. ConvAt(th) \in Conv
    BY <1>1, BusyType
  <1>4. /\ thread' \in [Thread -> Busy \cup {IdleThread}]
        /\ \A t \in Thread : HasParsed(t)' =>
             /\ thread'[t].file = thread[t].file /\ thread'[t].ver = thread[t].ver
             /\ HasParsed(t)
    <2>1. Rest(th) \/ Goto(th, "upsertMap") \/ Goto(th, "upsertCounts")
      BY DEF UpsertSession, UpsertMap, UpsertCounts, UpsertFails, Abort
    <2>2. HasParsed(th)
      BY DEF UpsertSession, UpsertMap, UpsertCounts, UpsertFails, Abort, At, HasParsed, Upserting
    <2>3. CASE Rest(th)
      BY <2>2, <2>3, ThreadStep DEF HasParsed, IdleThread, Upserting
    <2>4. CASE Goto(th, "upsertMap") \/ Goto(th, "upsertCounts")
      BY <1>1, <2>2, <2>4, ThreadStep DEF HasParsed
    <2> QED
      BY <2>1, <2>3, <2>4
  <1>5. VersionsExist'
    BY <1>4 DEF UpsertSession, UpsertMap, UpsertCounts, UpsertFails, Abort, VersionsExist, disk, tables
  <1>6. sessions' \in [Session -> SessionRow \cup {None}]
    <2>1. CASE UpsertSession(th)
      <3>1. \A s \in Session : CountOf(ConvAt(th), s) \in Nat
        BY CountType
      <3>2. \A s \in Session :
              (IF sessions[s] = None THEN 0 ELSE sessions[s].conversations) \in Nat
        BY DEF TypeOK, SessionRow
      <3> HIDE DEF IInv
      <3>3. \A s \in Session :
              [messages |-> CountOf(ConvAt(th), s),
               conversations |-> IF sessions[s] = None THEN 0 ELSE sessions[s].conversations]
              \in SessionRow
        BY <3>1, <3>2 DEF SessionRow
      <3>4. sessions \in [Session -> SessionRow \cup {None}]
        BY DEF IInv, TypeOK
      <3> QED
        BY <2>1, <3>3, <3>4 DEF UpsertSession
    <2>2. CASE UpsertCounts(th)
      <3>1. \A s \in Session : Cardinality({d \in Conv : smap[<<s, d>>] > 0}) \in Nat
        <4> TAKE s \in Session
        <4>1. IsFiniteSet({d \in Conv : smap[<<s, d>>] > 0})
          BY FS_Subset
        <4> QED
          BY <4>1, FS_CardinalityType
      <3>2. \A s \in Session : sessions[s] # None =>
              [sessions[s] EXCEPT !.conversations = Cardinality({d \in Conv : smap[<<s, d>>] > 0})]
              \in SessionRow
        <4> SUFFICES ASSUME NEW s \in Session, sessions[s] # None,
                            NEW n \in Nat
                     PROVE  [sessions[s] EXCEPT !.conversations = n] \in SessionRow
          BY <3>1
        <4>1. sessions[s] \in SessionRow
          BY DEF TypeOK
        <4> QED
          BY <4>1 DEF SessionRow
      <3>3. sessions \in [Session -> SessionRow \cup {None}]
        BY DEF TypeOK
      <3> QED
        BY <2>2, <3>2, <3>3 DEF UpsertCounts
    <2>3. CASE sessions' = sessions
      BY <2>3 DEF TypeOK
    <2> QED
      BY <2>1, <2>2, <2>3 DEF UpsertMap, UpsertFails, Abort, tables
  <1>7. smap' \in [Session \X Conv -> Nat]
    <2>1. CASE UpsertMap(th)
      BY <2>1, CountType DEF UpsertMap, TypeOK
    <2>2. CASE smap' = smap
      BY <2>2 DEF TypeOK
    <2> QED
      BY <2>1, <2>2 DEF UpsertSession, UpsertCounts, UpsertFails, Abort, tables
  <1>8. interrupted' \in SUBSET Conv
    BY <1>2 DEF UpsertSession, UpsertMap, UpsertCounts, UpsertFails, Abort, TypeOK
  <1>9. TypeOK'
    BY <1>4, <1>6, <1>7, <1>8
    DEF UpsertSession, UpsertMap, UpsertCounts, UpsertFails, Abort, TypeOK, disk, tables
  <1> QED
    BY <1>5, <1>9

(* removeConversation and the reindex endpoint. *)
LEMMA RemovalIInv ==
  ASSUME IInv, RemoveFts \/ ReindexConversations \/ \E f \in File : RemoveRow(f)
  PROVE  IInv'
PROOF
  <1> USE DEF IInv
  <1>1. CASE RemoveFts
    <2>1. TypeOK'
      BY <1>1 DEF RemoveFts, TypeOK, disk
    <2>2. VersionsExist'
      BY <1>1 DEF RemoveFts, VersionsExist, disk, HasParsed
    <2> QED
      BY <2>1, <2>2
  <1>2. CASE ReindexConversations
    <2>1. \A c \in Conv : row[c] # None => [row[c] EXCEPT !.cleared = TRUE] \in Row
      <3> SUFFICES ASSUME NEW c \in Conv, row[c] # None
                   PROVE  [row[c] EXCEPT !.cleared = TRUE] \in Row
        OBVIOUS
      <3>1. row[c] \in Row
        BY DEF TypeOK
      <3> QED
        BY <3>1 DEF Row
    <2>2. row' \in [Conv -> Row \cup {None}]
      BY <1>2, <2>1 DEF ReindexConversations
    <2>3. \A c \in Conv : row'[c] # None =>
            row[c] # None /\ row'[c].file = row[c].file /\ row'[c].ver = row[c].ver
      BY <1>2, <2>1 DEF ReindexConversations, TypeOK, Row
    <2>4. TypeOK'
      BY <1>2, <2>2 DEF ReindexConversations, TypeOK, disk
    <2>5. VersionsExist'
      BY <1>2, <2>3 DEF ReindexConversations, VersionsExist, disk, HasParsed
    <2> QED
      BY <2>4, <2>5
  <1>3. CASE \E f \in File : RemoveRow(f)
    <2> PICK f \in File : RemoveRow(f)
      BY <1>3
    <2>1. ConvOf[f] \in Conv
      OBVIOUS
    <2>2. /\ row' \in [Conv -> Row \cup {None}]
          /\ \A c \in Conv : row'[c] # None => row'[c] = row[c]
      BY <2>1 DEF RemoveRow, TypeOK
    <2>3. msgs' \in [Uuid -> Conv \cup {None}]
      BY DEF RemoveRow, TypeOK
    <2>4. smap' \in [Session \X Conv -> Nat]
      <3>1. smap' = smap \/ \E fk \in BOOLEAN : CascadeMap(ConvOf[f], fk)
        BY DEF RemoveRow
      <3>2. smap \in [Session \X Conv -> Nat]
        BY DEF TypeOK
      <3> QED
        BY <3>1, <3>2 DEF CascadeMap
    <2>5. TypeOK'
      BY <2>2, <2>3, <2>4 DEF RemoveRow, TypeOK, disk
    <2>6. VersionsExist'
      BY <2>2 DEF RemoveRow, VersionsExist, disk, HasParsed
    <2> QED
      BY <2>5, <2>6
  <1> QED
    BY <1>1, <1>2, <1>3

(* Every step keeps the inductive invariant. *)
LEMMA NextIInv == IInv /\ [Next]_vars => IInv'
PROOF
  <1> SUFFICES ASSUME IInv, [Next]_vars PROVE IInv'
    OBVIOUS
  <1>1. CASE UNCHANGED vars
    BY <1>1 DEF vars, disk, tables, IInv, TypeOK, VersionsExist, HasParsed
  <1>2. CASE Next
    BY <1>2, EnvironmentIInv, ProcessIInv, ParseIInv, CommitIInv, UpsertIInv, RemovalIInv
    DEF Next, IndexStep
  <1> QED
    BY <1>1, <1>2

(* Every variable keeps its type, whatever the two goroutines, the remover,
   the endpoint and crashes do. *)
THEOREM TypeCorrect == Spec => []TypeOK
PROOF
  <1>1. IInv => TypeOK
    BY DEF IInv
  <1> QED
    BY InitIInv, NextIInv, <1>1, PTL DEF Spec

(* IInv is invariant. *)
LEMMA Invariance == Spec => []IInv
PROOF
  <1> QED
    BY InitIInv, NextIInv, PTL DEF Spec

-----------------------------------------------------------------------------
(* SnapshotConsistent *)

(* Only the transaction gives a conversation messages or entries, and it
   takes away the earlier ones. *)
LEMMA SnapshotStep ==
  IInv /\ SnapshotConsistent /\ [Next]_vars => SnapshotConsistent'
PROOF
  <1> SUFFICES ASSUME IInv, SnapshotConsistent, [Next]_vars,
                      NEW d \in Conv, row'[d] # None
               PROVE  /\ MessagesOf(d)' \subseteq Indexed(d)'
                      /\ {u \in Uuid : <<d, u>> \in fts'} \subseteq Indexed(d)'
    BY DEF SnapshotConsistent
  <1>1. ASSUME row[d] # None, row'[d].file = row[d].file, row'[d].ver = row[d].ver,
               \A u \in Uuid : msgs'[u] = d => msgs[u] = d,
               \A u \in Uuid : <<d, u>> \in fts' => <<d, u>> \in fts
        PROVE  /\ MessagesOf(d)' \subseteq Indexed(d)'
               /\ {u \in Uuid : <<d, u>> \in fts'} \subseteq Indexed(d)'
    <2>1. Indexed(d)' = Indexed(d)
      BY <1>1 DEF Indexed
    <2>2. MessagesOf(d)' \subseteq MessagesOf(d)
      BY <1>1 DEF MessagesOf
    <2>3. {u \in Uuid : <<d, u>> \in fts'} \subseteq {u \in Uuid : <<d, u>> \in fts}
      BY <1>1
    <2> QED
      BY <1>1, <2>1, <2>2, <2>3 DEF SnapshotConsistent
  <1>2. ASSUME NEW th \in Thread, Commit(th)
        PROVE  /\ MessagesOf(d)' \subseteq Indexed(d)'
               /\ {u \in Uuid : <<d, u>> \in fts'} \subseteq Indexed(d)'
    <2> DEFINE f == thread[th].file
               c == ConvAt(th)
               v == thread[th].ver
    <2>1. c \in Conv
      BY <1>2, BusyType DEF Commit, At, IInv
    <2>2. /\ row' = [row EXCEPT ![c] = [file |-> f, ver |-> v, cleared |-> FALSE,
                                       behind |-> v < version[f]]]
          /\ \A u \in Uuid : msgs'[u] = c => u \in Content[f][v]
          /\ \A e \in Conv \ {c}, u \in Uuid : msgs'[u] = e => msgs[u] = e
          /\ \A u \in Uuid : <<c, u>> \in fts' => u \in Content[f][v]
          /\ \A e \in Conv \ {c}, u \in Uuid : <<e, u>> \in fts' => <<e, u>> \in fts
      <3>1. PICK stored \in SUBSET Content[f][v],
                 found \in SUBSET (Content[f][v] \cap Textual) :
              /\ msgs' = [u \in Uuid |-> IF u \in stored THEN c
                                         ELSE IF msgs[u] = c THEN None ELSE msgs[u]]
              /\ fts' = Entries(c, found)
        BY <1>2 DEF Commit
      <3>2. row' = [row EXCEPT ![c] = [file |-> f, ver |-> v, cleared |-> FALSE,
                                       behind |-> v < version[f]]]
        BY <1>2 DEF Commit
      <3>3. \A u \in Uuid : msgs'[u] = c => u \in Content[f][v]
        BY <2>1, <3>1
      <3>4. \A e \in Conv \ {c}, u \in Uuid : msgs'[u] = e => msgs[u] = e
        BY <3>1
      <3> QED
        BY <3>1, <3>2, <3>3, <3>4 DEF Entries
    <2>3. CASE d = c
      <3>1. Indexed(d)' = Content[f][v]
        BY <2>1, <2>2, <2>3 DEF Indexed, IInv, TypeOK
      <3>2. MessagesOf(d)' \subseteq Content[f][v]
        BY <2>1, <2>2, <2>3 DEF MessagesOf
      <3>3. {u \in Uuid : <<d, u>> \in fts'} \subseteq Content[f][v]
        BY <2>2, <2>3
      <3> QED
        BY <3>1, <3>2, <3>3
    <2>4. CASE d # c
      <3>1. row'[d] = row[d]
        BY <2>1, <2>2, <2>4 DEF IInv, TypeOK
      <3>2. \A u \in Uuid : msgs'[u] = d => msgs[u] = d
        BY <2>2, <2>4
      <3>3. \A u \in Uuid : <<d, u>> \in fts' => <<d, u>> \in fts
        BY <2>2, <2>4
      <3> QED
        BY <1>1, <3>1, <3>2, <3>3
    <2> QED
      BY <2>3, <2>4
  <1>3. ASSUME NEW f \in File, RemoveRow(f)
        PROVE  /\ MessagesOf(d)' \subseteq Indexed(d)'
               /\ {u \in Uuid : <<d, u>> \in fts'} \subseteq Indexed(d)'
    <2>1. row'[d] = row[d]
      BY <1>3 DEF RemoveRow, IInv, TypeOK
    <2>2. \A u \in Uuid : msgs'[u] = d => msgs[u] = d
      BY <1>3 DEF RemoveRow
    <2> QED
      BY <1>1, <1>3, <2>1, <2>2 DEF RemoveRow
  <1>4. CASE RemoveFts
    BY <1>1, <1>4 DEF RemoveFts
  <1>5. CASE ReindexConversations
    <2>1. row[d] # None
      BY <1>5 DEF ReindexConversations
    <2>2. row[d] \in Row /\ row'[d] = [row[d] EXCEPT !.cleared = TRUE]
      BY <1>5, <2>1 DEF ReindexConversations, IInv, TypeOK
    <2> QED
      BY <1>1, <1>5, <2>1, <2>2 DEF ReindexConversations, Row
  <1>6. ASSUME UNCHANGED <<row, msgs, fts>>
        PROVE  /\ MessagesOf(d)' \subseteq Indexed(d)'
               /\ {u \in Uuid : <<d, u>> \in fts'} \subseteq Indexed(d)'
    BY <1>1, <1>6
  <1> QED
    BY <1>2, <1>3, <1>4, <1>5, <1>6
    DEF Next, vars, tables, IndexStep, Write, Vanish, Boot, Crash, Visit, WalkerParse,
        WorkerParse, Abort, UpsertSession, UpsertMap, UpsertCounts, UpsertFails

(* A reader never sees parts of two versions of a conversation. *)
THEOREM SnapshotCorrect == Spec => []SnapshotConsistent
PROOF
  <1>1. Init => SnapshotConsistent
    BY DEF Init, SnapshotConsistent
  <1> QED
    BY <1>1, Invariance, SnapshotStep, PTL DEF Spec

-----------------------------------------------------------------------------
(* MessagesAreSearchable *)

(* Only files that may be removed are ever handed to removeConversation. *)
LEMMA RemovalsStep ==
  TypeOK /\ RemovalsAreRemovable /\ [Next]_vars => RemovalsAreRemovable'
PROOF
  <1> SUFFICES ASSUME TypeOK, RemovalsAreRemovable, [Next]_vars PROVE RemovalsAreRemovable'
    OBVIOUS
  <1> USE DEF RemovalsAreRemovable
  <1>1. ASSUME NEW f \in File, Vanish(f) PROVE RemovalsAreRemovable'
    BY <1>1 DEF Vanish
  <1>2. ASSUME NEW f \in File, RemoveRow(f) PROVE RemovalsAreRemovable'
    BY <1>2 DEF RemoveRow
  <1>3. CASE Crash \/ RemoveFts
    BY <1>3 DEF Crash, RemoveFts
  <1>4. CASE UNCHANGED <<removals, remover>>
    BY <1>4
  <1> QED
    BY <1>1, <1>2, <1>3, <1>4
    DEF Next, vars, tables, IndexStep, Write, Boot, Visit, WalkerParse, WorkerParse, Abort,
        Commit, UpsertSession, UpsertMap, UpsertCounts, UpsertFails, ReindexConversations

(* A message is stored and made searchable in one transaction, or its entry is
   known to be missing, and only a removal takes the entry away again. *)
LEMMA SearchStep ==
  IInv /\ RemovalsAreRemovable /\ MessagesAreSearchable /\ [Next]_vars
    => MessagesAreSearchable'
PROOF
  <1> SUFFICES ASSUME IInv, RemovalsAreRemovable, MessagesAreSearchable, [Next]_vars,
                      NEW u \in Textual, msgs'[u] # None, <<msgs'[u], u>> \notin unfound',
                      \A f \in Removable : ConvOf[f] # msgs'[u]
               PROVE  <<msgs'[u], u>> \in fts'
    BY DEF MessagesAreSearchable
  <1>1. msgs'[u] = msgs[u] /\ <<msgs[u], u>> \notin unfound => <<msgs[u], u>> \in fts
    BY DEF MessagesAreSearchable
  <1>2. ASSUME NEW th \in Thread, Commit(th) PROVE <<msgs'[u], u>> \in fts'
    <2> DEFINE c == ConvAt(th)
               us == Content[thread[th].file][thread[th].ver]
    <2>1. PICK stored \in SUBSET us, found \in SUBSET (us \cap Textual) :
            /\ msgs' = [w \in Uuid |-> IF w \in stored THEN c
                                       ELSE IF msgs[w] = c THEN None ELSE msgs[w]]
            /\ fts' = Entries(c, found)
            /\ unfound' = {p \in unfound : p[1] # c} \cup ({c} \X ((us \cap Textual) \ found))
      BY <1>2 DEF Commit
    <2>2. u \in Uuid
      OBVIOUS
    <2>3. CASE u \in stored
      BY <2>1, <2>2, <2>3 DEF Entries
    <2>4. CASE u \notin stored
      <3>1. msgs'[u] = msgs[u] /\ msgs[u] # c
        BY <2>1, <2>2, <2>4
      <3>2. <<msgs[u], u>> \notin unfound
        BY <2>1, <3>1
      <3> QED
        BY <1>1, <2>1, <3>1, <3>2 DEF Entries
    <2> QED
      BY <2>3, <2>4
  <1>3. ASSUME NEW f \in File, RemoveRow(f) PROVE <<msgs'[u], u>> \in fts'
    BY <1>1, <1>3 DEF RemoveRow
  <1>4. CASE RemoveFts
    BY <1>1, <1>4 DEF RemoveFts, RemovalsAreRemovable
  <1>5. CASE UNCHANGED <<msgs, fts, unfound>>
    BY <1>1, <1>5
  <1> QED
    BY <1>2, <1>3, <1>4, <1>5
    DEF Next, vars, tables, IndexStep, Write, Vanish, Boot, Crash, Visit, WalkerParse,
        WorkerParse, Abort, UpsertSession, UpsertMap, UpsertCounts, UpsertFails,
        ReindexConversations

(* What is stored of files that stay, and has something to search, can be found
   unless the log says that its entry was not inserted. *)
THEOREM SearchCorrect == Spec => []MessagesAreSearchable
PROOF
  <1>1. Init => RemovalsAreRemovable /\ MessagesAreSearchable
    BY DEF Init, RemovalsAreRemovable, MessagesAreSearchable
  <1>2. IInv => TypeOK
    BY DEF IInv
  <1> QED
    BY <1>1, <1>2, Invariance, RemovalsStep, SearchStep, PTL DEF Spec

-----------------------------------------------------------------------------
(* StaleIsNoticed *)

(* A write after the commit leaves the file newer than its row; one before it
   is what behind records. *)
LEMMA StaleStep ==
  IInv /\ StaleIsNoticed /\ [Next]_vars => StaleIsNoticed'
PROOF
  <1> SUFFICES ASSUME IInv, StaleIsNoticed, [Next]_vars, NEW g \in present',
                      HasRow(g)', row'[ConvOf[g]].ver < version'[g]
               PROVE  row'[ConvOf[g]].cleared \/ newer'[g] \/ row'[ConvOf[g]].behind
    BY DEF StaleIsNoticed, NeedsIndexing
  <1> DEFINE e == ConvOf[g]
  <1>1. row' = row /\ newer' = newer /\ version' = version /\ g \in present =>
          row'[e].cleared \/ newer'[g] \/ row'[e].behind
    BY DEF StaleIsNoticed, NeedsIndexing, HasRow
  <1>2. ASSUME NEW f \in File, Write(f)
        PROVE  row'[e].cleared \/ newer'[g] \/ row'[e].behind
    <2>1. CASE g = f
      BY <1>2, <2>1 DEF Write, IInv, TypeOK
    <2>2. CASE g # f
      BY <1>2, <2>2 DEF Write, IInv, TypeOK, tables, StaleIsNoticed, NeedsIndexing, HasRow
    <2> QED
      BY <2>1, <2>2
  <1>3. ASSUME NEW f \in File, Vanish(f)
        PROVE  row'[e].cleared \/ newer'[g] \/ row'[e].behind
    BY <1>1, <1>3 DEF Vanish, tables
  <1>4. ASSUME NEW th \in Thread, Commit(th)
        PROVE  row'[e].cleared \/ newer'[g] \/ row'[e].behind
    <2> DEFINE f == thread[th].file
               c == ConvAt(th)
               r == [file |-> f, ver |-> thread[th].ver, cleared |-> FALSE,
                     behind |-> thread[th].ver < version[f]]
    <2>1. f \in File /\ c \in Conv
      BY <1>4, BusyType DEF Commit, At, IInv, Busy
    <2>2. row' = [row EXCEPT ![c] = r] /\ present' = present /\ version' = version
      BY <1>4 DEF Commit, disk
    <2>3. PICK b \in BOOLEAN : newer' = [newer EXCEPT ![f] = b]
      BY <1>4 DEF Commit
    <2>4. g \in File /\ row \in [Conv -> Row \cup {None}] /\ newer \in [File -> BOOLEAN]
      BY <2>2 DEF IInv, TypeOK
    <2>5. CASE e = c
      <3>1. row'[e] = r
        BY <2>1, <2>2, <2>4, <2>5
      <3>2. g = f
        BY <3>1 DEF HasRow
      <3>3. thread[th].ver < version[f]
        BY <2>2, <3>1, <3>2
      <3>4. row'[e].behind = (thread[th].ver < version[f])
        BY <3>1
      <3> QED
        BY <3>3, <3>4
    <2>6. CASE e # c
      <3>1. row'[e] = row[e]
        BY <2>2, <2>4, <2>6
      <3>2. g # f
        BY <2>6 DEF ConvAt
      <3>3. newer'[g] = newer[g]
        BY <2>1, <2>3, <2>4, <3>2
      <3>4. g \in present /\ HasRow(g) /\ row[e].ver < version[g]
        BY <2>2, <3>1 DEF HasRow
      <3>5. row[e].cleared \/ newer[g] \/ row[e].behind
        BY <3>4 DEF StaleIsNoticed, NeedsIndexing
      <3> QED
        BY <3>1, <3>3, <3>5
    <2> QED
      BY <2>5, <2>6
  <1>5. ASSUME NEW f \in File, RemoveRow(f)
        PROVE  row'[e].cleared \/ newer'[g] \/ row'[e].behind
    <2>1. g \in File /\ g \in present /\ version' = version /\ newer' = newer
      BY <1>5 DEF RemoveRow, disk, IInv, TypeOK
    <2>2. row'[e] = row[e]
      BY <1>5, <2>1 DEF RemoveRow, HasRow, IInv, TypeOK
    <2> QED
      BY <2>1, <2>2 DEF StaleIsNoticed, NeedsIndexing, HasRow
  <1>6. CASE ReindexConversations
    <2>1. g \in File /\ e \in Conv
      BY <1>6 DEF ReindexConversations, disk, IInv, TypeOK
    <2>2. row[e] \in Row /\ row'[e] = [row[e] EXCEPT !.cleared = TRUE]
      BY <1>6, <2>1 DEF ReindexConversations, HasRow, IInv, TypeOK
    <2> QED
      BY <2>2 DEF Row
  <1>7. CASE UNCHANGED <<row, newer, disk>>
    BY <1>1, <1>7 DEF disk
  <1> QED
    BY <1>2, <1>3, <1>4, <1>5, <1>6, <1>7
    DEF Next, vars, tables, IndexStep, Boot, Crash, Visit, WalkerParse, WorkerParse,
        Abort, UpsertSession, UpsertMap, UpsertCounts, UpsertFails, RemoveFts

(* The next start notices a stale conversation, but for the one race the
   ghost behind names. *)
THEOREM StaleCorrect == Spec => []StaleIsNoticed
PROOF
  <1>1. Init => StaleIsNoticed
    BY DEF Init, StaleIsNoticed
  <1> QED
    BY <1>1, Invariance, StaleStep, PTL DEF Spec

-----------------------------------------------------------------------------
(* SessionMapComplete *)

Upserts(th, c) == thread[th].pc \in {"upsertSession", "upsertMap"} /\ ConvAt(th) = c

Covered(c) == c \in interrupted \/ \E th \in Thread : Upserts(th, c)

(* A pair whose message is stored without a map row is covered, and stays so
   until the row is there. *)
LEMMA MapStep ==
  IInv /\ SessionMapComplete /\ [Next]_vars => SessionMapComplete'
PROOF
  <1> SUFFICES ASSUME IInv, SessionMapComplete, [Next]_vars, NEW u \in Uuid,
                      NEW d, msgs'[u] = d, d # None, SessionOf[u] # NoSession, row'[d] # None
               PROVE  smap'[<<SessionOf[u], d>>] > 0 \/ Covered(d)'
    BY DEF SessionMapComplete, Covered, Upserts
  <1> DEFINE Goal == smap'[<<SessionOf[u], d>>] > 0 \/ Covered(d)'
  <1>0. SessionOf[u] \in Session
    OBVIOUS
  <1>1. ASSUME msgs[u] = d, row[d] # None
        PROVE  smap[<<SessionOf[u], d>>] > 0 \/ Covered(d)
    BY <1>1 DEF SessionMapComplete, Covered, Upserts
  <1>2. ASSUME msgs' = msgs, row' = row, smap' = smap, interrupted' = interrupted,
               \A th \in Thread : thread[th].pc \in {"upsertSession", "upsertMap"}
                                   => thread'[th] = thread[th]
        PROVE  Goal
    BY <1>1, <1>2 DEF Covered, Upserts, ConvAt
  <1>3. ASSUME NEW f \in File, Write(f) \/ Vanish(f) PROVE Goal
    BY <1>2, <1>3 DEF Write, Vanish, tables
  <1>4. CASE Boot
    BY <1>2, <1>4 DEF Boot, tables
  <1>5. CASE Crash
    BY <1>1, <1>5 DEF Crash, tables, Covered, Upserts, Upserting
  <1>6. ASSUME NEW f \in File, Visit(f) \/ WorkerParse(f) PROVE Goal
    BY <1>2, <1>6 DEF Visit, WorkerParse, tables, Idle, IInv, TypeOK
  <1>7. CASE WalkerParse
    BY <1>2, <1>7 DEF WalkerParse, tables, At, Rest, IInv, TypeOK
  <1>8. ASSUME NEW th \in Thread, Abort(th) PROVE Goal
    BY <1>2, <1>8 DEF Abort, tables, At, Rest, IInv, TypeOK
  <1>9. ASSUME NEW th \in Thread, Commit(th) PROVE Goal
    <2>1. /\ thread'[th].pc = "upsertSession"
          /\ thread'[th].file = thread[th].file
          /\ \A t \in Thread \ {th} : thread'[t] = thread[t]
          /\ thread[th].pc = "parsed"
      BY <1>9, ThreadStep DEF Commit, At, IInv, Upserting
    <2>2. CASE d = ConvAt(th)
      BY <2>1, <2>2 DEF Covered, Upserts, ConvAt
    <2>3. CASE d # ConvAt(th)
      <3>1. msgs[u] = d
        BY <1>9, <2>3 DEF Commit
      <3>2. d \in Conv
        BY <3>1 DEF IInv, TypeOK
      <3>3. row'[d] = row[d]
        BY <1>9, <2>3, <3>2 DEF Commit, IInv, TypeOK
      <3>4. smap'[<<SessionOf[u], d>>] = smap[<<SessionOf[u], d>>]
        BY <1>0, <1>9, <2>3, <3>2 DEF Commit, CascadeMap
      <3>5. Covered(d) => Covered(d)'
        BY <1>9, <2>1 DEF Commit, Covered, Upserts, ConvAt
      <3> QED
        BY <1>1, <3>1, <3>3, <3>4, <3>5
    <2> QED
      BY <2>2, <2>3
  <1>10. ASSUME NEW th \in Thread, UpsertSession(th) PROVE Goal
    <2>1. /\ thread'[th].pc = "upsertMap"
          /\ thread'[th].file = thread[th].file
          /\ \A t \in Thread \ {th} : thread'[t] = thread[t]
      BY <1>10, ThreadStep DEF UpsertSession, At, IInv, Upserting
    <2>2. Covered(d) => Covered(d)'
      BY <1>10, <2>1 DEF UpsertSession, Covered, Upserts, ConvAt
    <2> QED
      BY <1>1, <1>10, <2>2 DEF UpsertSession
  <1>11. ASSUME NEW th \in Thread, UpsertMap(th) PROVE Goal
    <2> DEFINE c == ConvAt(th)
    <2>1. \A t \in Thread \ {th} : thread'[t] = thread[t]
      BY <1>11, ThreadStep DEF UpsertMap, At, IInv, Upserting
    <2>2. msgs' = msgs /\ row' = row /\ interrupted' = interrupted \ {c}
      BY <1>11 DEF UpsertMap
    <2>3. d \in Conv
      BY <2>2 DEF IInv, TypeOK
    <2>4. smap'[<<SessionOf[u], d>>] =
            IF d = c /\ SessionOf[u] \in SessionsOf(c) THEN CountOf(c, SessionOf[u])
            ELSE smap[<<SessionOf[u], d>>]
      BY <1>0, <1>11, <2>3 DEF UpsertMap
    <2>5. CASE d = c
      <3>1. u \in MessagesOf(c)
        BY <2>2, <2>5 DEF MessagesOf
      <3>2. SessionOf[u] \in SessionsOf(c)
        BY <3>1 DEF SessionsOf
      <3>3. CountOf(c, SessionOf[u]) > 0
        BY <3>1, CountType
      <3> QED
        BY <2>4, <2>5, <3>2, <3>3
    <2>6. CASE d # c
      <3>1. Covered(d) => Covered(d)'
        BY <2>1, <2>2, <2>6 DEF Covered, Upserts, ConvAt
      <3> QED
        BY <1>1, <2>2, <2>4, <2>6, <3>1
    <2> QED
      BY <2>5, <2>6
  <1>12. ASSUME NEW th \in Thread, UpsertCounts(th) PROVE Goal
    BY <1>2, <1>12 DEF UpsertCounts, At, Rest, IInv, TypeOK
  <1>13. ASSUME NEW th \in Thread, UpsertFails(th) PROVE Goal
    <2>1. /\ msgs' = msgs /\ row' = row /\ smap' = smap
          /\ interrupted' = interrupted \cup {ConvAt(th)}
          /\ \A t \in Thread \ {th} : thread'[t] = thread[t]
      BY <1>13 DEF UpsertFails, tables, Rest, IInv, TypeOK
    <2>2. Covered(d) => Covered(d)'
      BY <2>1 DEF Covered, Upserts, ConvAt
    <2> QED
      BY <1>1, <2>1, <2>2
  <1>14. ASSUME NEW f \in File, RemoveRow(f) PROVE Goal
    <2>1. thread' = thread /\ interrupted' = interrupted
      BY <1>14 DEF RemoveRow
    <2>2. msgs[u] = d
      BY <1>14 DEF RemoveRow
    <2>3. d \in Conv
      BY <2>2 DEF IInv, TypeOK
    <2>4. row'[d] = row[d] /\ (HasRow(f) => d # ConvOf[f])
      BY <1>14, <2>3 DEF RemoveRow, IInv, TypeOK
    <2>5. smap'[<<SessionOf[u], d>>] = smap[<<SessionOf[u], d>>]
      BY <1>0, <1>14, <2>3, <2>4 DEF RemoveRow, CascadeMap
    <2>6. Covered(d) => Covered(d)'
      BY <2>1 DEF Covered, Upserts, ConvAt
    <2> QED
      BY <1>1, <2>2, <2>4, <2>5, <2>6
  <1>15. CASE RemoveFts
    BY <1>2, <1>15 DEF RemoveFts
  <1>16. CASE ReindexConversations
    <2>1. row[d] # None /\ msgs[u] = d
      BY <1>16 DEF ReindexConversations, IInv, TypeOK
    <2>2. Covered(d) => Covered(d)'
      BY <1>16 DEF ReindexConversations, Covered, Upserts, ConvAt
    <2> QED
      BY <1>1, <1>16, <2>1, <2>2 DEF ReindexConversations
  <1>17. CASE UNCHANGED vars
    BY <1>2, <1>17 DEF vars, tables
  <1> QED
    BY <1>3, <1>4, <1>5, <1>6, <1>7, <1>8, <1>9, <1>10, <1>11, <1>12, <1>13, <1>14, <1>15,
       <1>16, <1>17 DEF Next, IndexStep

(* No session misses a conversation, but for upserts under way or cut short:
   two goroutines indexing the same conversation never hide each other's
   unfinished work. *)
THEOREM SessionMapCorrect == Spec => []SessionMapComplete
PROOF
  <1>1. Init => SessionMapComplete
    BY DEF Init, SessionMapComplete
  <1> QED
    BY <1>1, Invariance, MapStep, PTL DEF Spec
=============================================================================
