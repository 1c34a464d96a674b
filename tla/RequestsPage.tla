----------------------------- MODULE RequestsPage -----------------------------
(***************************************************************************)
(* The legacy page of the requests (pages/Requests.tsx) with the bar that  *)
(* refreshes and clears them (DataManagementBar.tsx) and the comparison of *)
(* two of them (CompareModeBanner.tsx, RequestCompareModal.tsx), over the  *)
(* query cache.  Handlers are asynchronous: each part between two awaits   *)
(* is a step, and the rest of the page goes on in between with state the   *)
(* handler has not seen.                                                   *)
(***************************************************************************)
EXTENDS Arrays, SequencesExt

CONSTANTS Id, Model, ModelOf, RequestHits, NoRequest, Asked, Failed, Ending, Deleting,
          MaxRequestGestures   \* bound on the user's events and the failing fetches
\* RequestHits: the requests the search for "q" finds

ASSUME RequestsAssumption ==
  /\ ModelOf \in [Id -> Model] /\ RequestHits \subseteq Id /\ NoRequest \notin Id /\ "all" \notin Model
  /\ MaxRequestGestures \in Nat

ModelFilter == Model \union {"all"}
Key == ModelFilter \X {"", "q"}         \* ['requests', 'summary' | 'search', model, query]

ASSUME MarksAssumption == {NoRequest, Ending, Deleting} \cap Key = {} /\ NoRequest # Deleting /\ Failed # Asked

VARIABLES storedRequests, deleted,                       \* the server: its requests, those cleared
          modelFilter, requestQuery,                    \* the key shown
          data, fetch,                           \* the query cache: what a key holds, what is under way
          details,                               \* ['requests', 'detail', id] present
          selectedRequestId, compareMode, selectedIds,
          compareJob, compareRequests,           \* handleCompare between two awaits; the modal's pair
          refreshingRequests, showClearConfirm, clearing, \* handleRefresh, DataManagementBar
          requestGestures                               \* how many the user has made

server == <<storedRequests, deleted>>
requestCache == <<data, fetch>>
compare == <<compareMode, selectedIds, compareJob, compareRequests>>
manage == <<refreshingRequests, showClearConfirm, clearing>>
requestVars == <<server, modelFilter, requestQuery, requestCache, details, selectedRequestId, compare, manage, requestGestures>>

RequestsShown == <<modelFilter, requestQuery>>
ListShown == <<modelFilter, "">>

(* No fetch of the key is under way; after Failed its status is an error.   *)
Resting == {NoRequest, Failed}

(* What the server answers for a key. *)
AnswerTo(k) == {r \in storedRequests : (k[1] = "all" \/ ModelOf[r] = k[1]) /\ (k[2] = "q" => r \in RequestHits)}

(* displayRequests: the search results once they are there, the list until then. *)
displayRequests ==
  IF requestQuery = "q" /\ data[RequestsShown] # NoRequest THEN data[RequestsShown]
  ELSE IF data[ListShown] # NoRequest THEN data[ListShown] ELSE {}

(* A key gets an observer: what is missing is fetched, what is older than   *)
(* staleTime is fetched again, and time is not modelled: either may be.     *)
Observed(keys, f) ==
  \E old \in SUBSET {k \in keys : data[k] # NoRequest} :
    fetch' = [k \in Key |-> IF k \in keys /\ f[k] \in Resting /\ (data[k] = NoRequest \/ k \in old)
                              THEN Asked ELSE f[k]]

RequestsInit ==
  /\ storedRequests \in SUBSET Id /\ deleted = {}
  /\ modelFilter \in ModelFilter /\ requestQuery = ""
  /\ data = [k \in Key |-> NoRequest]
  /\ fetch = [k \in Key |-> IF k = <<modelFilter, "">> THEN Asked ELSE NoRequest]
  /\ details = {} /\ selectedRequestId = NoRequest
  /\ compareMode = FALSE /\ selectedIds = <<>> /\ compareJob = NoRequest /\ compareRequests = NoRequest
  /\ refreshingRequests = NoRequest /\ showClearConfirm = FALSE /\ clearing = NoRequest /\ requestGestures = 0

-----------------------------------------------------------------------------
(* The server logs a request: the proxy, not part of this repository. *)
LogRequest(r) ==
  /\ r \notin storedRequests \union deleted
  /\ storedRequests' = storedRequests \union {r}
  /\ UNCHANGED <<deleted, modelFilter, requestQuery, requestCache, details, selectedRequestId, compare, manage>>

(* The server reads its answer to a fetch under way. *)
ReadAnswer(k) ==
  /\ fetch[k] = Asked
  /\ fetch' = [fetch EXCEPT ![k] = [answer |-> AnswerTo(k)]]
  /\ UNCHANGED <<server, modelFilter, requestQuery, data, details, selectedRequestId, compare, manage>>

(* A fetch ends, and a handler awaiting the key goes on: handleRefresh arms *)
(* its timer, handleClearData forgets the selection.                        *)
HandlersGoOn(k) ==
  /\ refreshingRequests' = IF refreshingRequests = k THEN Ending ELSE refreshingRequests
  /\ IF clearing = k
       THEN clearing' = NoRequest /\ selectedRequestId' = NoRequest /\ showClearConfirm' = FALSE
       ELSE UNCHANGED <<clearing, selectedRequestId, showClearConfirm>>

AnswerArrives(k) ==
  /\ fetch[k] \notin Resting \union {Asked}
  /\ data' = [data EXCEPT ![k] = fetch[k].answer]
  /\ fetch' = [fetch EXCEPT ![k] = NoRequest]
  /\ HandlersGoOn(k)
  /\ UNCHANGED <<server, modelFilter, requestQuery, details, compare>>

(* It fails, at the server or on the way: the data stays, and refetch()     *)
(* resolves all the same.                                                   *)
FetchFails(k) ==
  /\ fetch[k] \notin Resting
  /\ fetch' = [fetch EXCEPT ![k] = Failed]
  /\ HandlersGoOn(k)
  /\ UNCHANGED <<server, modelFilter, requestQuery, data, details, compare>>

SetModelFilter(m) ==
  /\ m # modelFilter
  /\ modelFilter' = m
  /\ Observed({<<m, "">>, <<m, requestQuery>>}, fetch)
  /\ UNCHANGED <<server, requestQuery, data, details, selectedRequestId, compare, manage>>

(* The search bar's query: two characters or more, or fewer. *)
SetRequestQuery ==
  /\ requestQuery' = IF requestQuery = "" THEN "q" ELSE ""
  /\ Observed({<<modelFilter, requestQuery'>>} \ {<<modelFilter, "">>}, fetch)
  /\ UNCHANGED <<server, modelFilter, data, details, selectedRequestId, compare, manage>>

SelectRequestRow(r) ==
  /\ r \in displayRequests /\ r # selectedRequestId
  /\ selectedRequestId' = r
  /\ UNCHANGED <<server, modelFilter, requestQuery, requestCache, details, compare, manage>>

(* useRequestDetail of the selected request answers. *)
LoadDetail ==
  /\ selectedRequestId \in storedRequests \ details
  /\ details' = details \union {selectedRequestId}
  /\ UNCHANGED <<server, modelFilter, requestQuery, requestCache, selectedRequestId, compare, manage>>

-----------------------------------------------------------------------------
toggleCompareMode ==
  /\ compareMode' = ~compareMode /\ selectedIds' = <<>>
  /\ UNCHANGED <<server, modelFilter, requestQuery, requestCache, details, selectedRequestId, compareJob, compareRequests, manage>>

(* toggleRequestSelection: at most two, the oldest makes room. *)
SelectedAfter(r) ==
  IF Contains(selectedIds, r) THEN Kept(selectedIds, {i \in DOMAIN selectedIds : selectedIds[i] # r})
  ELSE IF Len(selectedIds) >= 2 THEN <<selectedIds[2], r>>
  ELSE Append(selectedIds, r)

(* The click on the checkbox may reach the row's button as well. *)
ToggleSelection(r) ==
  /\ compareMode /\ r \in displayRequests
  /\ selectedIds' = SelectedAfter(r)
  /\ selectedRequestId' \in {selectedRequestId, r}
  /\ UNCHANGED <<server, modelFilter, requestQuery, requestCache, details, compareMode, compareJob, compareRequests, manage>>

(* The banner's button: two selected, and no comparison being loaded. *)
handleCompare ==
  /\ compareMode /\ Len(selectedIds) = 2 /\ compareJob = NoRequest
  /\ LET missing == Kept(selectedIds, {i \in DOMAIN selectedIds : selectedIds[i] \notin details}) IN
       IF missing = <<>>
         THEN compareRequests' = selectedIds /\ UNCHANGED compareJob
         ELSE compareJob' = [ids |-> selectedIds, missing |-> missing] /\ UNCHANGED compareRequests
  /\ UNCHANGED <<server, modelFilter, requestQuery, requestCache, details, selectedRequestId, compareMode, selectedIds, manage>>

(* Faulty variant: the modal opens on the first answer. *)
LastMissingAny == TRUE

(* Both are loaded with the answer awaited. *)
LastMissing == Len(compareJob.missing) = 1

(* One of the fetchQuery calls returns; after the last one the modal opens. *)
CompareFetched ==
  /\ compareJob # NoRequest
  /\ Head(compareJob.missing) \in storedRequests \union details
  /\ details' = details \union {Head(compareJob.missing)}
  /\ IF LastMissing
       THEN compareRequests' = compareJob.ids /\ compareJob' = NoRequest
       ELSE compareJob' = [compareJob EXCEPT !.missing = Tail(@)] /\ UNCHANGED compareRequests
  /\ UNCHANGED <<server, modelFilter, requestQuery, requestCache, selectedRequestId, compareMode, selectedIds, manage>>

(* One of them fails, as it does for a request that is gone. *)
CompareFails ==
  /\ compareJob # NoRequest /\ compareJob' = NoRequest
  /\ UNCHANGED <<server, modelFilter, requestQuery, requestCache, details, selectedRequestId, compareMode, selectedIds, compareRequests, manage>>

CloseModal ==
  /\ compareRequests # NoRequest /\ compareRequests' = NoRequest
  /\ UNCHANGED <<server, modelFilter, requestQuery, requestCache, details, selectedRequestId, compareMode, selectedIds, compareJob, manage>>

-----------------------------------------------------------------------------
(* Faulty variant: a refetch that joins the fetch under way. *)
RefetchJoining(k) == fetch' = [fetch EXCEPT ![k] = IF @ \in Resting THEN Asked ELSE @]

(* refetch() of the list's observer: the key shown at the time of the call. *)
(* A fetch under way is cancelled unless it is the first of its key.        *)
Refetch(k) ==
  fetch' = [fetch EXCEPT ![k] = IF @ \notin Resting /\ data[k] = NoRequest THEN @ ELSE Asked]

RefreshRequests ==
  /\ refreshingRequests = NoRequest
  /\ refreshingRequests' = ListShown
  /\ Refetch(ListShown)
  /\ UNCHANGED <<server, modelFilter, requestQuery, data, details, selectedRequestId, compare, showClearConfirm, clearing>>

(* The timer of 500 ms. *)
RefreshTimer ==
  /\ refreshingRequests = Ending /\ refreshingRequests' = NoRequest
  /\ UNCHANGED <<server, modelFilter, requestQuery, requestCache, details, selectedRequestId, compare, showClearConfirm, clearing>>

(* The popover of "Clear Data": opened, cancelled, or closed by the backdrop. *)
ToggleConfirm ==
  /\ showClearConfirm' = ~showClearConfirm
  /\ UNCHANGED <<server, modelFilter, requestQuery, requestCache, details, selectedRequestId, compare, refreshingRequests, clearing>>

(* "Delete All", and the browser's confirm() accepted. *)
handleClear ==
  /\ showClearConfirm /\ clearing = NoRequest
  /\ clearing' = Deleting
  /\ UNCHANGED <<server, modelFilter, requestQuery, requestCache, details, selectedRequestId, compare, refreshingRequests, showClearConfirm>>

(* DELETE /api/requests is answered.  clearAllRequests does not look at the *)
(* status: a refusal goes on like a success.                                *)
DeleteAnswered(refused) ==
  /\ clearing = Deleting
  /\ IF refused THEN UNCHANGED server ELSE storedRequests' = {} /\ deleted' = deleted \union storedRequests
  /\ clearing' = ListShown
  /\ Refetch(ListShown)
  /\ UNCHANGED <<modelFilter, requestQuery, data, details, selectedRequestId, compare, refreshingRequests, showClearConfirm>>

(* The call itself fails: an alert, and the popover closes. *)
ClearFails ==
  /\ clearing = Deleting
  /\ clearing' = NoRequest /\ showClearConfirm' = FALSE
  /\ UNCHANGED <<server, modelFilter, requestQuery, requestCache, details, selectedRequestId, compare, refreshingRequests>>

RequestUser ==
  \/ \E m \in ModelFilter : SetModelFilter(m)
  \/ SetRequestQuery
  \/ \E r \in Id : SelectRequestRow(r) \/ ToggleSelection(r)
  \/ toggleCompareMode \/ handleCompare \/ CloseModal
  \/ RefreshRequests \/ ToggleConfirm \/ handleClear

RequestAnswers ==
  \/ \E k \in Key : ReadAnswer(k) \/ AnswerArrives(k)
  \/ LoadDetail \/ CompareFetched \/ CompareFails
  \/ RefreshTimer \/ (\E b \in BOOLEAN : DeleteAnswered(b)) \/ ClearFails

RequestsNext ==
  \/ (RequestUser \/ \E k \in Key : FetchFails(k)) /\ requestGestures < MaxRequestGestures /\ requestGestures' = requestGestures + 1
  \/ (RequestAnswers \/ \E r \in Id : LogRequest(r)) /\ UNCHANGED requestGestures

RequestsSpec == RequestsInit /\ [][RequestsNext]_requestVars

-----------------------------------------------------------------------------
(* Types of the variables. *)
RequestsTypeOK ==
  /\ storedRequests \subseteq Id /\ deleted \subseteq Id /\ details \subseteq Id
  /\ modelFilter \in ModelFilter /\ requestQuery \in {"", "q"}
  /\ data \in [Key -> (SUBSET Id) \union {NoRequest}]
  /\ selectedRequestId \in Id \union {NoRequest}
  /\ Len(selectedIds) <= 2 /\ IsInjective(selectedIds)
  /\ refreshingRequests \in Key \union {NoRequest, Ending}
  /\ clearing \in Key \union {NoRequest, Deleting}

(* The modal never opens on a request whose detail is not there, or on one  *)
(* request twice: not when the first of the two fetches answers, one of     *)
(* them fails, the pair is taken from the cache, or the selection loses its *)
(* oldest member meanwhile (Requests.tsx 317-389).                          *)
ComparesTwoLoaded ==
  compareRequests # NoRequest =>
    /\ Len(compareRequests) = 2 /\ compareRequests[1] # compareRequests[2]
    /\ \A i \in 1 .. 2 : compareRequests[i] \in details

(* When clearing ends, a list that was loaded before holds no request that  *)
(* was cleared, unless its last fetch failed: an answer read before the     *)
(* DELETE and still under way is not taken for the new one (Requests.tsx    *)
(* 398-412).  After a failure the page goes on showing what was cleared.    *)
ClearedListIsNew ==
  [][clearing' = NoRequest /\ clearing \in Key /\ data[clearing] # NoRequest
       => fetch'[clearing] = Failed \/ data'[clearing] \cap deleted = {}]_requestVars
=============================================================================
