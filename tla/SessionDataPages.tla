--------------------------- MODULE SessionDataPages ---------------------------
(***************************************************************************)
(* Todos and plans of the legacy pages: the overview pages/SessionData.tsx *)
(* with its re-indexing, and the paged searches pages/TodosSearch.tsx and  *)
(* pages/PlansSearch.tsx, which differ in the noun only.                   *)
(* A todo file is the sequence of the statuses in it; indexing a plan      *)
(* again gives it another id.                                              *)
(***************************************************************************)
EXTENDS Naturals, Integers, Sequences, SequencesExt, FiniteSetsExt, Arrays

CONSTANTS TodoFile,         \* agents that may have a todo file
          Contents,         \* what may be in it
          PlanFile, Terms,  \* Terms: [search -> files and plans it finds, "" apart]
          FindHits,             \* the paged search: [<<query, status>> -> number of rows]
          ShortText,        \* queries the server refuses: fewer than two characters
          Limit, NoData, MaxDataSteps

TodoState == {"pending", "in_progress", "completed"}
Statuses == TodoState \union {""}
SearchText == {h[1] : h \in DOMAIN FindHits}

ASSUME FindAssumption ==
  /\ FindHits \in [SearchText \X Statuses -> Nat]
  /\ Limit \in Nat \ {0}

ASSUME ContentsAssumption == IsFiniteSet(TodoFile) /\ \A c \in Contents : c \in Seq(TodoState)

VARIABLES files,                \* ~/.claude/todos
          todoTable, planIds,   \* what the server has indexed
          todosData, plansData, \* useTodos, usePlans; NoData before the answer
          activeTab, selectedTodos, selectedPlan, searchTerm,
          todoDetails, planDetails,     \* details the cache holds
          refreshingData,           \* handleRefresh: what it awaits, "" when it is not running
          findInput, findQuery, findStatus, offset, findAnswered,       \* the paged search
          dataSteps

overviewVars == <<files, todoTable, planIds, todosData, plansData, activeTab, selectedTodos, selectedPlan, searchTerm,
                  todoDetails, planDetails, refreshingData>>
findVars == <<findInput, findQuery, findStatus, offset, findAnswered>>
dataVars == <<overviewVars, findVars, dataSteps>>

-----------------------------------------------------------------------------
Count(todos, status) == Cardinality({i \in DOMAIN todos : todos[i] = status})

(* The colour before a session. *)
Dot(todos) ==
  CASE todos # <<>> /\ Count(todos, "completed") = Len(todos) -> "green"
    [] Count(todos, "in_progress") > 0 -> "blue"
    [] todos = <<>> -> "gray"
    [] OTHER -> "amber"

Found(name) == searchTerm = "" \/ name \in Terms[searchTerm]
filteredTodos == IF todosData = NoData THEN {} ELSE {a \in DOMAIN todosData : Found(a)}
filteredPlans == IF plansData = NoData THEN {} ELSE {p \in DOMAIN plansData : Found(p)}

Break(status) == SumOf([a \in DOMAIN todosData |-> Count(todosData[a], status)])
status_breakdown == IF todosData = NoData THEN NoData ELSE [s \in TodoState |-> Break(s)]

(* Nothing selected, still loading, or the detail: the cache keeps a plan's *)
(* under an id that indexing may have replaced.                             *)
SessionShown == IF selectedTodos \in DOMAIN todoDetails THEN todoDetails[selectedTodos] ELSE NoData
PlanShown == IF selectedPlan \in planDetails THEN selectedPlan ELSE NoData

-----------------------------------------------------------------------------
Tables(f) == [a \in {b \in TodoFile : f[b] # NoData} |-> f[a]]

DataInit ==
  /\ files \in [TodoFile -> Contents \union {NoData}]
  /\ todoTable = Tables(files) /\ planIds = [p \in PlanFile |-> 1]
  /\ todosData = NoData /\ plansData = NoData
  /\ activeTab = "todos" /\ selectedTodos = NoData /\ selectedPlan = NoData /\ searchTerm = ""
  /\ todoDetails = <<>> /\ planDetails = {} /\ refreshingData = ""
  /\ findInput = "" /\ findQuery = "" /\ findStatus = "" /\ offset = 0 /\ findAnswered = {} /\ dataSteps = 0

EditFile ==
  /\ \E a \in TodoFile, c \in Contents \union {NoData} : c # files[a] /\ files' = [files EXCEPT ![a] = c]
  /\ UNCHANGED <<todoTable, planIds, todosData, plansData, activeTab, selectedTodos, selectedPlan, searchTerm,
                 todoDetails, planDetails, refreshingData, findVars>>

TodosLoad ==
  /\ todosData = NoData /\ todosData' = todoTable
  /\ UNCHANGED <<files, todoTable, planIds, plansData, activeTab, selectedTodos, selectedPlan, searchTerm,
                 todoDetails, planDetails, refreshingData, findVars>>

PlansLoad ==
  /\ plansData = NoData /\ plansData' = planIds
  /\ UNCHANGED <<files, todoTable, planIds, todosData, activeTab, selectedTodos, selectedPlan, searchTerm,
                 todoDetails, planDetails, refreshingData, findVars>>

setActiveTab(tab) ==
  /\ activeTab' = tab
  /\ UNCHANGED <<files, todoTable, planIds, todosData, plansData, selectedTodos, selectedPlan, searchTerm,
                 todoDetails, planDetails, refreshingData, findVars>>

(* One field for the two tabs. *)
setSearchTerm(term) ==
  /\ searchTerm' = term
  /\ UNCHANGED <<files, todoTable, planIds, todosData, plansData, activeTab, selectedTodos, selectedPlan,
                 todoDetails, planDetails, refreshingData, findVars>>

SelectTodos(a) ==
  /\ activeTab = "todos" /\ selectedTodos' = a
  /\ UNCHANGED <<files, todoTable, planIds, todosData, plansData, activeTab, selectedPlan, searchTerm,
                 todoDetails, planDetails, refreshingData, findVars>>

SelectPlan(p) ==
  /\ activeTab = "plans" /\ selectedPlan' = <<p, plansData[p]>>
  /\ UNCHANGED <<files, todoTable, planIds, todosData, plansData, activeTab, selectedTodos, searchTerm,
                 todoDetails, planDetails, refreshingData, findVars>>

TodoDetail ==
  /\ selectedTodos \in DOMAIN todoTable /\ selectedTodos \notin DOMAIN todoDetails
  /\ todoDetails' = [a \in DOMAIN todoDetails \union {selectedTodos} |->
                       IF a = selectedTodos THEN todoTable[a] ELSE todoDetails[a]]
  /\ UNCHANGED <<files, todoTable, planIds, todosData, plansData, activeTab, selectedTodos, selectedPlan, searchTerm,
                 planDetails, refreshingData, findVars>>

PlanDetail ==
  /\ selectedPlan # NoData /\ selectedPlan \notin planDetails
  /\ planIds[selectedPlan[1]] = selectedPlan[2]     \* the server has no other
  /\ planDetails' = planDetails \union {selectedPlan}
  /\ UNCHANGED <<files, todoTable, planIds, todosData, plansData, activeTab, selectedTodos, selectedPlan, searchTerm,
                 todoDetails, refreshingData, findVars>>

(* The button is on the todos tab, once they are there. *)
handleDataRefresh ==
  /\ activeTab = "todos" /\ todosData # NoData /\ refreshingData = "" /\ refreshingData' = "reindex"
  /\ UNCHANGED <<files, todoTable, planIds, todosData, plansData, activeTab, selectedTodos, selectedPlan, searchTerm,
                 todoDetails, planDetails, findVars>>

(* Rows of files that are gone stay; a plan gets another id. *)
Reindexed ==
  /\ refreshingData = "reindex" /\ refreshingData' = "todos"
  /\ todoTable' = [a \in DOMAIN Tables(files) \union DOMAIN todoTable |->
                     IF a \in DOMAIN Tables(files) THEN files[a] ELSE todoTable[a]]
  /\ planIds' = [p \in PlanFile |-> planIds[p] + 1]
  /\ UNCHANGED <<files, todosData, plansData, activeTab, selectedTodos, selectedPlan, searchTerm,
                 todoDetails, planDetails, findVars>>

RefetchTodos ==
  /\ refreshingData = "todos" /\ refreshingData' = "plans" /\ todosData' = todoTable
  /\ UNCHANGED <<files, todoTable, planIds, plansData, activeTab, selectedTodos, selectedPlan, searchTerm,
                 todoDetails, planDetails, findVars>>

RefetchPlans ==
  /\ refreshingData = "plans" /\ refreshingData' = "" /\ plansData' = planIds
  /\ UNCHANGED <<files, todoTable, planIds, todosData, activeTab, selectedTodos, selectedPlan, searchTerm,
                 todoDetails, planDetails, findVars>>

RefreshFails ==
  /\ refreshingData # "" /\ refreshingData' = ""
  /\ UNCHANGED <<files, todoTable, planIds, todosData, plansData, activeTab, selectedTodos, selectedPlan, searchTerm,
                 todoDetails, planDetails, findVars>>

-----------------------------------------------------------------------------
FindKey == <<findQuery, findStatus, offset>>

FindError == findQuery \in ShortText /\ FindKey \in findAnswered
total == IF FindKey \in findAnswered /\ findQuery \notin ShortText THEN FindHits[<<findQuery, findStatus>>] ELSE 0
foundRows == Max({0, Min({Limit, total - offset})})

Paged == total > Limit
Page == offset \div Limit + 1
Pages == (total + Limit - 1) \div Limit

TypeFind(text) ==
  /\ findInput' = text
  /\ UNCHANGED <<overviewVars, findQuery, findStatus, offset, findAnswered>>

FindSettles ==
  /\ findQuery # findInput /\ findQuery' = findInput /\ offset' = 0
  /\ UNCHANGED <<overviewVars, findInput, findStatus, findAnswered>>

SetStatusOnly(status) ==        \* faulty variant: stays on the page
  /\ findStatus' = status
  /\ UNCHANGED <<overviewVars, findInput, findQuery, offset, findAnswered>>

SetStatus(status) ==
  /\ findStatus' = status /\ offset' = 0
  /\ UNCHANGED <<overviewVars, findInput, findQuery, findAnswered>>

(* No query, no request. *)
FindAnswer ==
  /\ findQuery # "" /\ FindKey \notin findAnswered /\ findAnswered' = findAnswered \union {FindKey}
  /\ UNCHANGED <<overviewVars, findInput, findQuery, findStatus, offset>>

PreviousPage ==
  /\ Paged /\ offset # 0 /\ offset' = Max({0, offset - Limit})
  /\ UNCHANGED <<overviewVars, findInput, findQuery, findStatus, findAnswered>>

NextPage ==
  /\ Paged /\ offset + Limit < total /\ offset' = offset + Limit
  /\ UNCHANGED <<overviewVars, findInput, findQuery, findStatus, findAnswered>>

DataNext ==
  /\ dataSteps < MaxDataSteps /\ dataSteps' = dataSteps + 1
  /\ \/ EditFile \/ TodosLoad \/ PlansLoad \/ TodoDetail \/ PlanDetail
     \/ handleDataRefresh \/ Reindexed \/ RefetchTodos \/ RefetchPlans \/ RefreshFails
     \/ \E tab \in {"todos", "plans"} \ {activeTab} : setActiveTab(tab)
     \/ \E term \in (DOMAIN Terms \union {""}) \ {searchTerm} : setSearchTerm(term)
     \/ \E a \in filteredTodos : SelectTodos(a)
     \/ \E p \in filteredPlans : SelectPlan(p)

FindNext ==
  /\ dataSteps < MaxDataSteps /\ dataSteps' = dataSteps + 1
  /\ \/ FindSettles \/ FindAnswer \/ PreviousPage \/ NextPage
     \/ \E text \in (SearchText \union ShortText \union {""}) \ {findInput} : TypeFind(text)
     \/ \E status \in Statuses \ {findStatus} : SetStatus(status)

DataSpec == DataInit /\ [][DataNext \/ FindNext]_dataVars

-----------------------------------------------------------------------------
(* Types of the variables; a session's colour says what its todos are, and  *)
(* the breakdown counts every todo once.                                    *)
DataTypeOK ==
  /\ todosData # NoData => DOMAIN todosData \subseteq TodoFile
  /\ selectedPlan # NoData => selectedPlan[1] \in PlanFile
  /\ refreshingData \in {"", "reindex", "todos", "plans"}
  /\ SessionShown # NoData => SessionShown \in Contents
  /\ PlanShown # NoData => PlanShown[2] <= planIds[PlanShown[1]]
  /\ findStatus \in Statuses /\ offset % Limit = 0 /\ (FindError => total = 0)
  /\ todosData # NoData =>
       /\ \A a \in DOMAIN todosData : Dot(todosData[a]) = "green" <=> todosData[a] # <<>> /\ ToSet(todosData[a]) = {"completed"}
       /\ SumOf(status_breakdown) = SumOf([a \in DOMAIN todosData |-> Len(todosData[a])])

(* The page of a search that is shown exists: "Page n of m" never has n     *)
(* above m, and a search with rows shows some, however the query, the       *)
(* status and the page were changed before (TodosSearch.tsx 11-18, 44-50,   *)
(* 121-140).                                                                *)
PageShownExists == total > 0 => foundRows > 0 /\ Page <= Pages
=============================================================================
