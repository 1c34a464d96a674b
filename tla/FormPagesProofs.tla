-------------------------- MODULE FormPagesProofs ---------------------------
(***************************************************************************)
(* Pages on which something is chosen, typed or dated: what an             *)
(* asynchronous handler of the requests page ends with, what a deletion    *)
(* was confirmed by, and which dates are selected, for any requests, words *)
(* and instants and any number of gestures; and, from the types of every   *)
(* page, those of the dashboard the runs of the pages show.                *)
(***************************************************************************)
EXTENDS MCPages, ListPagesProofs, ViewerPagesProofs, TLAPS

-----------------------------------------------------------------------------
(* The requests page.                                                       *)

PerKey(f) == f = [k \in Key |-> f[k]]

(* An answer under way to the refetch after a DELETE was read after it.     *)
ClearInv ==
  /\ modelFilter \in ModelFilter
  /\ PerKey(fetch) /\ PerKey(data)
  /\ storedRequests \cap deleted = {}
  /\ clearing \in Key /\ data[clearing] # NoRequest =>
       fetch[clearing] = Asked \/ fetch[clearing].answer \cap deleted = {}

others == <<server, modelFilter, requestCache, clearing>>

LEMMA ClearKept == ASSUME ClearInv, UNCHANGED others PROVE ClearInv'
BY DEF ClearInv, PerKey, others, server, requestCache

LEMMA ShownIsKey == ASSUME modelFilter \in ModelFilter PROVE ListShown \in Key
BY DEF ListShown, Key

(* Asking never puts an answer in the place of another. *)
LEMMA AskingKeeps ==
  ASSUME ClearInv, UNCHANGED <<server, data, clearing>>, modelFilter' \in ModelFilter,
         NEW ks, fetch' = [k \in Key |-> IF k \in ks THEN Asked ELSE fetch[k]]
  PROVE  ClearInv'
<1>1. PerKey(fetch')
  BY DEF PerKey
<1> QED BY <1>1 DEF ClearInv, PerKey, server

LEMMA ClearStep == ClearInv /\ [RequestsNext]_requestVars => ClearInv'
<1> SUFFICES ASSUME ClearInv, [RequestsNext]_requestVars PROVE ClearInv'
  OBVIOUS
<1>1. ASSUME NEW m \in ModelFilter, SetModelFilter(m) PROVE ClearInv'
  <2>1. PICK old \in SUBSET {k \in {<<m, "">>, <<m, requestQuery>>} : data[k] # NoRequest} :
          fetch' = [k \in Key |-> IF k \in {<<m, "">>, <<m, requestQuery>>} /\ fetch[k] \in Resting
                                     /\ (data[k] = NoRequest \/ k \in old) THEN Asked ELSE fetch[k]]
    BY <1>1 DEF SetModelFilter, Observed
  <2> DEFINE ks == {k \in {<<m, "">>, <<m, requestQuery>>} : fetch[k] \in Resting /\ (data[k] = NoRequest \/ k \in old)}
  <2>2. fetch' = [k \in Key |-> IF k \in ks THEN Asked ELSE fetch[k]]
    BY <2>1
  <2> HIDE DEF ks
  <2> QED BY <1>1, <2>2, AskingKeeps DEF SetModelFilter, manage
<1>2. ASSUME SetRequestQuery PROVE ClearInv'
  <2> DEFINE shown == {<<modelFilter, requestQuery'>>} \ {<<modelFilter, "">>}
  <2>1. PICK old \in SUBSET {k \in shown : data[k] # NoRequest} :
          fetch' = [k \in Key |-> IF k \in shown /\ fetch[k] \in Resting
                                     /\ (data[k] = NoRequest \/ k \in old) THEN Asked ELSE fetch[k]]
    BY <1>2 DEF SetRequestQuery, Observed
  <2> DEFINE ks == {k \in shown : fetch[k] \in Resting /\ (data[k] = NoRequest \/ k \in old)}
  <2> HIDE DEF shown
  <2>2. fetch' = [k \in Key |-> IF k \in ks THEN Asked ELSE fetch[k]]
    BY <2>1
  <2> HIDE DEF ks
  <2> QED BY <1>2, <2>2, AskingKeeps DEF SetRequestQuery, manage, ClearInv
<1>3. ASSUME RefreshRequests PROVE ClearInv'
  <2>1. ListShown \in Key
    BY ShownIsKey DEF ClearInv
  <2>2. PICK ks : fetch' = [k \in Key |-> IF k \in ks THEN Asked ELSE fetch[k]]
    <3> DEFINE ks == IF fetch[ListShown] \notin Resting /\ data[ListShown] = NoRequest THEN {} ELSE {ListShown}
    <3>1. fetch' = [k \in Key |-> IF k \in ks THEN Asked ELSE fetch[k]]
      BY <1>3, <2>1 DEF RefreshRequests, Refetch, ClearInv, PerKey
    <3> QED BY <3>1
  <2> QED BY <1>3, <2>2, AskingKeeps DEF RefreshRequests, ClearInv
<1>4. ASSUME NEW k \in Key, ReadAnswer(k) PROVE ClearInv'
  <2>1. AnswerTo(k) \cap deleted = {}
    BY DEF AnswerTo, ClearInv
  <2>2. fetch' = [fetch EXCEPT ![k] = [answer |-> AnswerTo(k)]] /\ UNCHANGED <<server, modelFilter, data, clearing>>
    BY <1>4 DEF ReadAnswer, manage
  <2>3. PerKey(fetch')
    BY <2>2 DEF ClearInv, PerKey
  <2>4. \A j \in Key : fetch'[j] = IF j = k THEN [answer |-> AnswerTo(k)] ELSE fetch[j]
    BY <2>2 DEF ClearInv, PerKey
  <2> QED BY <2>1, <2>2, <2>3, <2>4 DEF ClearInv, PerKey, server
<1>5. ASSUME NEW k \in Key, AnswerArrives(k) PROVE ClearInv'
  <2>1. /\ fetch' = [fetch EXCEPT ![k] = NoRequest] /\ data' = [data EXCEPT ![k] = fetch[k].answer]
        /\ clearing' = (IF clearing = k THEN NoRequest ELSE clearing)
        /\ UNCHANGED <<server, modelFilter>>
    BY <1>5 DEF AnswerArrives, HandlersGoOn
  <2>2. PerKey(fetch') /\ PerKey(data')
    BY <2>1 DEF ClearInv, PerKey
  <2>3. clearing' \in Key => /\ clearing' = clearing /\ clearing # k
                             /\ fetch'[clearing] = fetch[clearing] /\ data'[clearing] = data[clearing]
    BY <2>1, MarksAssumption DEF ClearInv, PerKey
  <2> QED BY <2>1, <2>2, <2>3 DEF ClearInv, PerKey, server
<1>6. ASSUME NEW b, DeleteAnswered(b) PROVE ClearInv'
  <2>1. ListShown \in Key
    BY ShownIsKey DEF ClearInv
  <2>2. clearing' = ListShown /\ UNCHANGED <<modelFilter, data>> /\ storedRequests' \cap deleted' = {}
    BY <1>6 DEF DeleteAnswered, server, ClearInv
  <2>3. PerKey(fetch') /\ (data[ListShown] # NoRequest => fetch'[ListShown] = Asked)
    BY <1>6, <2>1 DEF DeleteAnswered, Refetch, ClearInv, PerKey
  <2> QED BY <2>1, <2>2, <2>3 DEF ClearInv, PerKey
<1>7. ASSUME NEW r, LogRequest(r) PROVE ClearInv'
  BY <1>7 DEF LogRequest, ClearInv, PerKey, requestCache, manage
<1>8. ASSUME handleClear \/ ClearFails PROVE ClearInv'
  <2>1. clearing' \notin Key /\ UNCHANGED <<server, modelFilter, requestCache>>
    BY <1>8, MarksAssumption DEF handleClear, ClearFails
  <2> QED BY <2>1 DEF ClearInv, PerKey, server, requestCache
<1>9. ASSUME NEW r, SelectRequestRow(r) \/ ToggleSelection(r) PROVE ClearInv'
  BY <1>9, ClearKept DEF SelectRequestRow, ToggleSelection, others, manage
<1>10. ASSUME toggleCompareMode \/ handleCompare \/ CloseModal \/ ToggleConfirm PROVE ClearInv'
  BY <1>10, ClearKept DEF toggleCompareMode, handleCompare, CloseModal, ToggleConfirm, others, manage
<1>11. ASSUME LoadDetail \/ CompareFetched \/ CompareFails \/ RefreshTimer PROVE ClearInv'
  BY <1>11, ClearKept DEF LoadDetail, CompareFetched, CompareFails, RefreshTimer, others, manage
<1>12. ASSUME NEW k \in Key, FetchFails(k) PROVE ClearInv'
  <2>1. /\ fetch' = [fetch EXCEPT ![k] = Failed] /\ clearing' = (IF clearing = k THEN NoRequest ELSE clearing)
        /\ UNCHANGED <<server, modelFilter, data>>
    BY <1>12 DEF FetchFails, HandlersGoOn
  <2>2. PerKey(fetch') /\ PerKey(data')
    BY <2>1 DEF ClearInv, PerKey
  <2>3. clearing' \in Key => /\ clearing' = clearing /\ clearing # k /\ fetch'[clearing] = fetch[clearing]
    BY <2>1, MarksAssumption DEF ClearInv, PerKey
  <2> QED BY <2>1, <2>2, <2>3 DEF ClearInv, PerKey, server
<1>13. ASSUME UNCHANGED requestVars PROVE ClearInv'
  BY <1>13, ClearKept DEF requestVars, others, manage
<1> QED BY <1>1, <1>2, <1>3, <1>4, <1>5, <1>6, <1>7, <1>8, <1>9, <1>10, <1>11, <1>12, <1>13
        DEF RequestsNext, RequestUser, RequestAnswers

LEMMA ClearInvariant == RequestsSpec => []ClearInv
<1>1. RequestsInit => ClearInv
  BY MarksAssumption DEF RequestsInit, ClearInv, PerKey
<1> QED BY <1>1, ClearStep, PTL DEF RequestsSpec

-----------------------------------------------------------------------------
(* Only the end of the refetch ends a clearing that has come so far.        *)
LEMMA ClearingEnds ==
  ASSUME ClearInv, [RequestsNext]_requestVars, clearing' = NoRequest, clearing \in Key
  PROVE  AnswerArrives(clearing) \/ FetchFails(clearing)
<1>1. UNCHANGED clearing => FALSE
  BY MarksAssumption
<1>2. ASSUME NEW b, DeleteAnswered(b) \/ handleClear \/ ClearFails PROVE FALSE
  BY <1>2, MarksAssumption DEF DeleteAnswered, handleClear, ClearFails
<1>3. ASSUME NEW k \in Key, AnswerArrives(k) \/ FetchFails(k), k # clearing PROVE UNCHANGED clearing
  BY <1>3 DEF AnswerArrives, FetchFails, HandlersGoOn
<1>4. ASSUME NEW m, SetModelFilter(m) \/ SetRequestQuery \/ ReadAnswer(m) \/ LogRequest(m) PROVE UNCHANGED clearing
  BY <1>4 DEF SetModelFilter, SetRequestQuery, ReadAnswer, LogRequest, manage
<1>5. ASSUME NEW r, SelectRequestRow(r) \/ ToggleSelection(r) PROVE UNCHANGED clearing
  BY <1>5 DEF SelectRequestRow, ToggleSelection, manage
<1>6. ASSUME toggleCompareMode \/ handleCompare \/ CloseModal \/ ToggleConfirm \/ RefreshRequests PROVE UNCHANGED clearing
  BY <1>6 DEF toggleCompareMode, handleCompare, CloseModal, ToggleConfirm, RefreshRequests, manage
<1>7. ASSUME LoadDetail \/ CompareFetched \/ CompareFails \/ RefreshTimer PROVE UNCHANGED clearing
  BY <1>7 DEF LoadDetail, CompareFetched, CompareFails, RefreshTimer, manage
<1>8. ASSUME UNCHANGED requestVars PROVE UNCHANGED clearing
  BY <1>8 DEF requestVars, manage
<1> QED BY <1>1, <1>2, <1>3, <1>4, <1>5, <1>6, <1>7, <1>8 DEF RequestsNext, RequestUser, RequestAnswers

LEMMA ClearedStep ==
  ClearInv /\ [RequestsNext]_requestVars
    => [clearing' = NoRequest /\ clearing \in Key /\ data[clearing] # NoRequest
          => fetch'[clearing] = Failed \/ data'[clearing] \cap deleted = {}]_requestVars
<1> SUFFICES ASSUME ClearInv, [RequestsNext]_requestVars, clearing' = NoRequest, clearing \in Key,
                    data[clearing] # NoRequest, fetch'[clearing] # Failed
             PROVE  data'[clearing] \cap deleted = {}
  OBVIOUS
<1>1. ~FetchFails(clearing)
  BY DEF FetchFails, ClearInv, PerKey
<1>2. AnswerArrives(clearing)
  BY <1>1, ClearingEnds
<1>3. data'[clearing] = fetch[clearing].answer /\ fetch[clearing] # Asked
  BY <1>2 DEF AnswerArrives, ClearInv, PerKey
<1> QED BY <1>3 DEF ClearInv

(* A list that was loaded before a clearing holds, when the clearing ends   *)
(* with an answer, nothing of what was cleared; only a failing fetch, after *)
(* which refetch() resolves too, leaves it there (Requests.tsx 398-412).    *)
THEOREM ClearedCorrect == RequestsSpec => ClearedListIsNew
<1> QED BY ClearInvariant, ClearedStep, PTL DEF RequestsSpec, ClearedListIsNew

-----------------------------------------------------------------------------
(* The settings.                                                            *)

(* The text of the field is what was typed since the modal opened: a       *)
(* closed modal has none, and a deletion under way was confirmed by it.    *)
ModalInv ==
  /\ confirmText # "" => showDeleteModal
  /\ showDeleteModal /\ confirmText = "DELETE" => typed = "DELETE"
  /\ isDeleting => showDeleteModal /\ typed = "DELETE"

LEMMA ModalStep == ModalInv /\ [SettingsNext]_settingsVars => ModalInv'
<1> SUFFICES ASSUME ModalInv, [SettingsNext]_settingsVars PROVE ModalInv'
  OBVIOUS
<1>1. ASSUME UNCHANGED modal PROVE ModalInv'
  BY <1>1 DEF ModalInv, modal
<1>2. ASSUME NEW w, NEW k, NEW v, updateSettings(w, k, v) PROVE ModalInv'
  BY <1>1, <1>2 DEF updateSettings
<1>3. ASSUME NEW w, resetSettings(w) \/ ReloadSettings(w) PROVE ModalInv'
  BY <1>1, <1>3 DEF resetSettings, ReloadSettings, modal
<1>4. ASSUME OpenModal PROVE ModalInv'
  BY <1>4 DEF OpenModal, ModalInv
<1>5. ASSUME NEW w, TypeWord(w) PROVE ModalInv'
  BY <1>5 DEF TypeWord, ModalInv
<1>6. ASSUME handleClose PROVE ModalInv'
  BY <1>6 DEF handleClose, ModalInv
<1>7. ASSUME handleConfirm PROVE ModalInv'
  BY <1>7 DEF handleConfirm, ModalInv
<1>8. ASSUME NEW b, Deleted(b) PROVE ModalInv'
  BY <1>8 DEF Deleted, TextAfter, ModalInv
<1>9. ASSUME DeleteFails PROVE ModalInv'
  BY <1>9 DEF DeleteFails, ModalInv
<1>10. ASSUME UNCHANGED settingsVars PROVE UNCHANGED modal
  BY <1>10 DEF settingsVars
<1> QED BY <1>1, <1>2, <1>3, <1>4, <1>5, <1>6, <1>7, <1>8, <1>9, <1>10 DEF SettingsNext

LEMMA ModalInvariant == SettingsSpec => []ModalInv
<1>1. SettingsInit => ModalInv
  BY DEF SettingsInit, ModalInv
<1> QED BY <1>1, ModalStep, PTL DEF SettingsSpec

(* Only the answer to a deletion under way empties the list.               *)
LEMMA DeletionStep ==
  ModalInv /\ [SettingsNext]_settingsVars
    => [settingsRequests /\ ~settingsRequests' => typed = "DELETE"]_settingsVars
<1> SUFFICES ASSUME ModalInv, SettingsNext, settingsRequests, ~settingsRequests' PROVE typed = "DELETE"
  OBVIOUS
<1>1. ASSUME UNCHANGED settingsRequests PROVE FALSE
  BY <1>1
<1>2. ASSUME NEW b, Deleted(b) PROVE typed = "DELETE"
  BY <1>2 DEF Deleted, ModalInv
<1>3. ASSUME NEW w, NEW k, NEW v, updateSettings(w, k, v) PROVE UNCHANGED settingsRequests
  BY <1>3 DEF updateSettings, modal
<1>4. ASSUME NEW w, resetSettings(w) \/ ReloadSettings(w) PROVE UNCHANGED settingsRequests
  BY <1>4 DEF resetSettings, ReloadSettings, modal
<1>5. ASSUME NEW w, OpenModal \/ TypeWord(w) \/ handleClose \/ handleConfirm \/ DeleteFails
      PROVE  UNCHANGED settingsRequests
  BY <1>5 DEF OpenModal, TypeWord, handleClose, handleConfirm, DeleteFails
<1> QED BY <1>1, <1>2, <1>3, <1>4, <1>5 DEF SettingsNext

(* All requests are deleted only after "DELETE" was typed since the modal  *)
(* was opened (ConfirmDeleteModal.tsx 21-40).                              *)
THEOREM DeletionCorrect == SettingsSpec => DeletionWasTyped
<1> QED BY ModalInvariant, DeletionStep, PTL DEF SettingsSpec, DeletionWasTyped

-----------------------------------------------------------------------------
(* The dates of the dashboard.                                              *)

(* The last render is not in the future, whereas the date selected may be  *)
(* a later instant of today.                                               *)
DatesInv ==
  /\ now \in Int /\ renderedAt \in Int /\ selectedDate \in Int
  /\ persisted \in Int \union {NoDate} /\ url \in Int \union {NoDate}
  /\ renderedAt <= now
  /\ NoDayToCome

LEMMA LocalDayGrows ==
  ASSUME NEW s \in Int, NEW t \in Int, s <= t
  PROVE  LocalDay(s) <= LocalDay(t)
BY DatesAssumption DEF LocalDay, Third

LEMMA LocalDayAfter ==
  ASSUME NEW s \in Int
  PROVE  LocalDay(s) \in Int /\ LocalDay(s + Third) = LocalDay(s) + 1 /\ LocalDay(s - Third) = LocalDay(s) - 1
BY DatesAssumption DEF LocalDay, Third

LEMMA UrlIsDate == ASSUME NEW p, NEW t \in Int PROVE UrlFor(p, t) \in Int \union {NoDate}
BY DEF UrlFor, UtcDay, Third

(* A page that is loaded has a date that has come. *)
LEMMA PageDateHasCome ==
  ASSUME DatesInv, NEW u \in Int \union {NoDate}, PageDate(u) # NoDate
  PROVE  PageDate(u) \in Int /\ PageDate(u) <= now
<1>1. loadPersistedDate # NoDate => loadPersistedDate \in Int /\ loadPersistedDate <= now
  BY DEF loadPersistedDate, DatesInv
<1>2. urlDate(u) # NoDate => urlDate(u) \in Int /\ urlDate(u) <= now
  BY DEF urlDate, Third
<1> QED BY <1>1, <1>2 DEF PageDate

LEMMA DatesInitially == DatesInit => DatesInv /\ WeekOfSelected
<1> SUFFICES ASSUME DatesInit PROVE DatesInv /\ WeekOfSelected
  OBVIOUS
<1>1. now \in Int /\ renderedAt = now /\ selectedDate = now
  BY DatesAssumption DEF DatesInit
<1>2. LocalDay(now) \in Int
  BY <1>1, LocalDayAfter
<1> QED BY <1>1, <1>2 DEF DatesInit, DatesInv, NoDayToCome, WeekOfSelected

LEMMA DatesStep == DatesInv /\ [DatesNext]_datesVars => DatesInv'
<1> SUFFICES ASSUME DatesInv, [DatesNext]_datesVars PROVE DatesInv'
  OBVIOUS
<1>1. ASSUME NEW t \in Int, LocalDay(t) <= LocalDay(now), setSelectedDate(t) PROVE DatesInv'
  BY <1>1, UrlIsDate DEF setSelectedDate, Click, DatesInv, NoDayToCome, LocalDay
<1>2. CASE goBack
  <2>1. LocalDay(selectedDate - Third) <= LocalDay(now)
    BY LocalDayAfter DEF DatesInv, NoDayToCome
  <2> QED BY <1>1, <1>2, <2>1 DEF goBack, DatesInv, Third
<1>3. CASE goForward
  <2>1. LocalDay(selectedDate) < LocalDay(renderedAt)
    BY <1>3, LocalDayAfter DEF goForward, MayGoForward, isAtToday, DatesInv
  <2>2. LocalDay(renderedAt) <= LocalDay(now)
    BY LocalDayGrows DEF DatesInv
  <2>3. LocalDay(selectedDate + Third) <= LocalDay(now)
    BY <2>1, <2>2, LocalDayAfter DEF DatesInv
  <2> QED BY <1>1, <1>3, <2>3 DEF goForward, DatesInv, Third
<1>4. ASSUME NEW d \in {-7, 7}, navigateWeek(d) PROVE DatesInv'
  <2>1. selectedDate + d * Third \in Int /\ selectedDate + d * Third <= now
    BY <1>4 DEF navigateWeek, DatesInv, Third
  <2> QED BY <1>1, <1>4, <2>1, LocalDayGrows DEF navigateWeek, DatesInv
<1>5. ASSUME NEW p, setPresetRange(p) PROVE DatesInv'
  <2>1. LocalDay(now) \in Int
    BY LocalDayAfter DEF DatesInv
  <2> QED BY <1>5, <2>1, UrlIsDate DEF setPresetRange, Click, DatesInv, NoDayToCome, LocalDay
<1>6. CASE Tick
  <2>1. now' = now + 1 /\ UNCHANGED <<renderedAt, selectedDate, persisted, url>>
    BY <1>6 DEF Tick, legacyDates
  <2>2. LocalDay(now) <= LocalDay(now')
    BY <2>1, LocalDayGrows DEF DatesInv
  <2>3. LocalDay(selectedDate) \in Int /\ LocalDay(now) \in Int /\ LocalDay(now') \in Int
    BY <2>1, LocalDayAfter DEF DatesInv
  <2> QED BY <2>1, <2>2, <2>3 DEF DatesInv, NoDayToCome, LocalDay
<1>7. CASE Rerender
  BY <1>7 DEF Rerender, DatesInv, NoDayToCome, LocalDay
<1>8. ASSUME NEW u \in Int \union {NoDate}, LoadDates(u) PROVE DatesInv'
  <2>1. selectedDate' \in Int /\ selectedDate' <= now
    BY <1>8, PageDateHasCome DEF LoadDates, DatesInv
  <2>2. LocalDay(selectedDate') <= LocalDay(now)
    BY <2>1, LocalDayGrows DEF DatesInv
  <2> QED BY <1>8, <2>1, <2>2, UrlIsDate DEF LoadDates, DatesInv, NoDayToCome, LocalDay
<1>9. ASSUME UNCHANGED <<now, renderedAt, selectedDate, persisted>>, url' \in {url, NoDate} PROVE DatesInv'
  BY <1>9 DEF DatesInv, NoDayToCome, LocalDay
<1>10. ASSUME NEW p, LeaveParameter \/ setV3Preset(p) \/ UNCHANGED datesVars
       PROVE  UNCHANGED <<now, renderedAt, selectedDate, persisted>> /\ url' \in {url, NoDate}
  BY <1>10 DEF LeaveParameter, setV3Preset, datesVars, legacyDates
<1>11. \A u \in {url} \union (UtcDay(now) - 1 .. UtcDay(now) + 1) : u \in Int \union {NoDate}
  BY DEF DatesInv
<1> QED BY <1>2, <1>3, <1>4, <1>5, <1>6, <1>7, <1>8, <1>9, <1>10, <1>11 DEF DatesNext, goToToday

LEMMA DatesInvariant == DatesSpec => []DatesInv
<1>1. DatesInit => DatesInv
  BY DatesInitially
<1> QED BY <1>1, DatesStep, PTL DEF DatesSpec

(* Neither the arrows nor a link nor the stored date selects a day to come *)
(* (DateRangeContext.tsx 66-67, 98-100, 169-171).                          *)
THEOREM NoDayToComeCorrect == DatesSpec => []NoDayToCome
<1>1. DatesInv => NoDayToCome
  BY DEF DatesInv
<1> QED BY <1>1, DatesInvariant, PTL

LEMMA WeekStep == WeekOfSelected /\ [DatesNext]_datesVars => WeekOfSelected'
<1> SUFFICES ASSUME WeekOfSelected, [DatesNext]_datesVars PROVE WeekOfSelected'
  OBVIOUS
<1>1. ASSUME NEW t, setSelectedDate(t) PROVE WeekOfSelected'
  <2>1. selectedDate' = t /\ currentWeekStart' = WeekAfter(t)
    BY <1>1 DEF setSelectedDate
  <2>2. WeekAfter(t) = weekStart(t)
    BY DEF WeekAfter, WeekOfSelected, isSameWeek
  <2> QED BY <2>1, <2>2 DEF WeekOfSelected, weekStart, LocalDay
<1>2. ASSUME NEW p, setPresetRange(p) PROVE WeekOfSelected'
  BY <1>2 DEF setPresetRange, Click, WeekOfSelected, weekStart, LocalDay
<1>3. ASSUME NEW u, LoadDates(u) PROVE WeekOfSelected'
  BY <1>3 DEF LoadDates, WeekOfSelected, weekStart, LocalDay
<1>4. ASSUME UNCHANGED <<selectedDate, currentWeekStart>> PROVE WeekOfSelected'
  BY <1>4 DEF WeekOfSelected, weekStart, LocalDay
<1>5. ASSUME NEW p, Tick \/ Rerender \/ LeaveParameter \/ setV3Preset(p) \/ UNCHANGED datesVars
      PROVE  UNCHANGED <<selectedDate, currentWeekStart>>
  BY <1>5 DEF Tick, Rerender, LeaveParameter, setV3Preset, datesVars, legacyDates
<1> QED BY <1>1, <1>2, <1>3, <1>4, <1>5 DEF DatesNext, goBack, goForward, goToToday, navigateWeek

(* The week that is refetched is the selected date's, although only a move *)
(* to another week touches it (DateRangeContext.tsx 115-118, 144-161).     *)
THEOREM WeekCorrect == DatesSpec => []WeekOfSelected
<1>1. DatesInit => WeekOfSelected
  BY DatesInitially
<1> QED BY <1>1, WeekStep, PTL DEF DatesSpec

-----------------------------------------------------------------------------
(* The types of the requests page.                                        *)
(* The types, and those of what is under way: an answer is a set of        *)
(* requests, and what is selected a list of them.                          *)
RequestsInv ==
  /\ RequestsTypeOK /\ selectedIds \in Seq(Id)
  /\ fetch \in [Key -> Resting \union {Asked} \union [answer : SUBSET Id]]

AskedFor(f) == f \in [Key -> Resting \union {Asked} \union [answer : SUBSET Id]]

LEMMA RequestsTypesKept ==
  ASSUME RequestsInv, UNCHANGED <<server, modelFilter, requestQuery, requestCache, details, selectedRequestId, selectedIds, manage>>
  PROVE  RequestsInv'
BY DEF RequestsInv, RequestsTypeOK, server, requestCache, manage

LEMMA KeysShown == ASSUME RequestsInv PROVE RequestsShown \in Key /\ ListShown \in Key
BY DEF RequestsInv, RequestsTypeOK, RequestsShown, ListShown, Key

LEMMA DisplayedAreKnown == ASSUME RequestsInv PROVE displayRequests \subseteq Id
<1>1. data \in [Key -> (SUBSET Id) \union {NoRequest}]
  BY DEF RequestsInv, RequestsTypeOK
<1>2. \/ displayRequests = data[RequestsShown] /\ data[RequestsShown] # NoRequest
      \/ displayRequests = data[ListShown] /\ data[ListShown] # NoRequest
      \/ displayRequests = {}
  <2>1. CASE requestQuery = "q" /\ data[RequestsShown] # NoRequest
    BY <2>1 DEF displayRequests
  <2>2. CASE ~(requestQuery = "q" /\ data[RequestsShown] # NoRequest)
    BY <2>2 DEF displayRequests
  <2> QED BY <2>1, <2>2
<1>3. data[RequestsShown] \in (SUBSET Id) \union {NoRequest} /\ data[ListShown] \in (SUBSET Id) \union {NoRequest}
  BY <1>1, KeysShown
<1> QED BY <1>2, <1>3

LEMMA ObservedIsTyped ==
  ASSUME RequestsInv, NEW keys, Observed(keys, fetch)
  PROVE  AskedFor(fetch')
BY DEF RequestsInv, AskedFor, Observed, Resting

LEMMA RefetchIsTyped ==
  ASSUME RequestsInv, NEW k, Refetch(k)
  PROVE  AskedFor(fetch')
BY DEF RequestsInv, AskedFor, Refetch

(* A third selected takes the place of the first, and none is there twice. *)
LEMMA SelectedAfterIs ==
  ASSUME RequestsInv, NEW r \in Id
  PROVE  SelectedAfter(r) \in Seq(Id) /\ Len(SelectedAfter(r)) <= 2 /\ IsInjective(SelectedAfter(r))
<1> DEFINE rows == {i \in DOMAIN selectedIds : selectedIds[i] # r}
<1>1. /\ selectedIds \in Seq(Id) /\ Len(selectedIds) \in Nat /\ Len(selectedIds) <= 2
      /\ \A i, j \in 1 .. Len(selectedIds) : selectedIds[i] = selectedIds[j] => i = j
      /\ DOMAIN selectedIds = 1 .. Len(selectedIds)
      /\ \A i \in 1 .. Len(selectedIds) : selectedIds[i] \in Id
  <2>1. selectedIds \in Seq(Id) /\ Len(selectedIds) <= 2 /\ IsInjective(selectedIds)
    BY DEF RequestsInv, RequestsTypeOK
  <2> QED BY <2>1 DEF IsInjective
<1>2. CASE Contains(selectedIds, r)
  <2>1. rows \subseteq 1 .. Len(selectedIds)
    BY <1>1
  <2>2. IsFiniteSet(1 .. Len(selectedIds)) /\ Cardinality(1 .. Len(selectedIds)) = Len(selectedIds)
    BY <1>1, CountsAreFinite
  <2>3. rows \in SUBSET Int /\ IsFiniteSet(rows) /\ Cardinality(rows) <= Len(selectedIds)
    BY <1>1, <2>1, <2>2, FS_Subset
  <2>4. \A i \in rows : selectedIds[i] \in Id
    BY <1>1, <2>1
  <2>5. PICK order : KeepsAt(order, selectedIds, rows)
    BY <2>3, KeptPlaces
  <2> DEFINE kept == Kept(selectedIds, rows)
  <2>6. /\ Cardinality(rows) \in Nat /\ kept \in Seq({selectedIds[i] : i \in rows}) /\ Len(kept) = Cardinality(rows)
        /\ DOMAIN kept = 1 .. Cardinality(rows)
    BY <2>3, KeptLists
  <2>7. \A k, l \in 1 .. Cardinality(rows) : kept[k] = kept[l] => k = l
    BY <1>1, <2>1, <2>5 DEF KeepsAt
  <2>8. SelectedAfter(r) = kept
    BY <1>2 DEF SelectedAfter
  <2>9. kept \in Seq(Id)
    <3>1. {selectedIds[i] : i \in rows} \subseteq Id
      BY <2>4
    <3> HIDE DEF kept, rows
    <3> QED BY <2>6, <3>1
  <2> HIDE DEF kept, rows
  <2> QED BY <1>1, <2>3, <2>6, <2>7, <2>8, <2>9 DEF IsInjective
<1>3. CASE ~Contains(selectedIds, r) /\ Len(selectedIds) >= 2
  <2>1. SelectedAfter(r) = <<selectedIds[2], r>> /\ selectedIds[2] # r /\ selectedIds[2] \in Id
    BY <1>1, <1>3 DEF SelectedAfter, Contains
  <2> QED BY <2>1 DEF IsInjective
<1>4. CASE ~Contains(selectedIds, r) /\ ~Len(selectedIds) >= 2
  <2>1. SelectedAfter(r) = Append(selectedIds, r) /\ \A i \in 1 .. Len(selectedIds) : selectedIds[i] # r
    BY <1>1, <1>4 DEF SelectedAfter, Contains
  <2>2. \A i \in 1 .. Len(selectedIds) + 1 : Append(selectedIds, r)[i] = IF i <= Len(selectedIds) THEN selectedIds[i] ELSE r
    BY <1>1
  <2> QED BY <1>1, <1>4, <2>1, <2>2 DEF IsInjective
<1> QED BY <1>2, <1>3, <1>4

LEMMA RequestsTypeStep == RequestsInv /\ [RequestsNext]_requestVars => RequestsInv'
<1> SUFFICES ASSUME RequestsInv, [RequestsNext]_requestVars PROVE RequestsInv'
  OBVIOUS
<1>1. ASSUME NEW m \in ModelFilter, SetModelFilter(m) PROVE RequestsInv'
  <2>1. AskedFor(fetch')
    BY <1>1, ObservedIsTyped DEF SetModelFilter
  <2> QED BY <1>1, <2>1 DEF SetModelFilter, RequestsInv, RequestsTypeOK, AskedFor, server, compare, manage
<1>2. ASSUME SetRequestQuery PROVE RequestsInv'
  <2>1. AskedFor(fetch')
    BY <1>2, ObservedIsTyped DEF SetRequestQuery
  <2>2. requestQuery' \in {"", "q"} /\ UNCHANGED <<server, modelFilter, data, details, selectedRequestId, compare, manage>>
    BY <1>2 DEF SetRequestQuery
  <2> QED BY <2>1, <2>2 DEF RequestsInv, RequestsTypeOK, AskedFor, server, compare, manage
<1>3. ASSUME NEW r \in Id, SelectRequestRow(r) PROVE RequestsInv'
  BY <1>3 DEF SelectRequestRow, RequestsInv, RequestsTypeOK, server, requestCache, compare, manage
<1>4. ASSUME NEW r \in Id, ToggleSelection(r) PROVE RequestsInv'
  BY <1>4, SelectedAfterIs DEF ToggleSelection, RequestsInv, RequestsTypeOK, server, requestCache, manage
<1>5. ASSUME toggleCompareMode PROVE RequestsInv'
  <2>1. <<>> \in Seq(Id) /\ Len(<<>>) <= 2 /\ IsInjective(<<>>)
    BY DEF IsInjective
  <2> QED BY <1>5, <2>1 DEF toggleCompareMode, RequestsInv, RequestsTypeOK, server, requestCache, manage
<1>6. ASSUME handleCompare \/ CloseModal \/ CompareFails PROVE RequestsInv'
  BY <1>6, RequestsTypesKept DEF handleCompare, CloseModal, CompareFails
<1>7. ASSUME RefreshRequests PROVE RequestsInv'
  <2>1. AskedFor(fetch')
    BY <1>7, RefetchIsTyped DEF RefreshRequests
  <2>2. ListShown \in Key
    BY DEF ListShown, Key, RequestsInv, RequestsTypeOK
  <2> QED BY <1>7, <2>1, <2>2 DEF RefreshRequests, RequestsInv, RequestsTypeOK, AskedFor, server, compare
<1>8. ASSUME ToggleConfirm PROVE RequestsInv'
  BY <1>8 DEF ToggleConfirm, RequestsInv, RequestsTypeOK, server, requestCache, compare
<1>9. ASSUME handleClear \/ ClearFails PROVE RequestsInv'
  BY <1>9 DEF handleClear, ClearFails, RequestsInv, RequestsTypeOK, server, requestCache, compare
<1>10. ASSUME NEW k \in Key, ReadAnswer(k) PROVE RequestsInv'
  <2>1. AnswerTo(k) \subseteq Id
    BY DEF AnswerTo, RequestsInv, RequestsTypeOK
  <2>2. AskedFor(fetch')
    BY <1>10, <2>1 DEF ReadAnswer, AskedFor, RequestsInv
  <2> QED BY <1>10, <2>2 DEF ReadAnswer, RequestsInv, RequestsTypeOK, AskedFor, server, compare, manage
<1>11. ASSUME NEW k \in Key, AnswerArrives(k) PROVE RequestsInv'
  <2>1. fetch[k].answer \subseteq Id
    BY <1>11 DEF AnswerArrives, Resting, RequestsInv
  <2>2. AskedFor(fetch') /\ data' \in [Key -> (SUBSET Id) \union {NoRequest}]
    BY <1>11, <2>1 DEF AnswerArrives, RequestsInv, RequestsTypeOK, AskedFor, Resting
  <2>3. /\ refreshingRequests' \in {refreshingRequests, Ending} /\ clearing' \in {clearing, NoRequest}
        /\ selectedRequestId' \in {selectedRequestId, NoRequest}
    BY <1>11 DEF AnswerArrives, HandlersGoOn
  <2>4. UNCHANGED <<server, modelFilter, requestQuery, details, compare>>
    BY <1>11 DEF AnswerArrives
  <2> QED BY <2>2, <2>3, <2>4 DEF RequestsInv, RequestsTypeOK, AskedFor, server, compare
<1>12. ASSUME LoadDetail PROVE RequestsInv'
  BY <1>12 DEF LoadDetail, RequestsInv, RequestsTypeOK, server, requestCache, compare, manage
<1>13. ASSUME CompareFetched PROVE RequestsInv'
  <2>1. details' \subseteq Id
    BY <1>13 DEF CompareFetched, RequestsInv, RequestsTypeOK
  <2>2. UNCHANGED <<server, modelFilter, requestQuery, requestCache, selectedRequestId, selectedIds, manage>>
    BY <1>13 DEF CompareFetched
  <2> QED BY <2>1, <2>2 DEF RequestsInv, RequestsTypeOK, server, requestCache, manage
<1>14. ASSUME RefreshTimer PROVE RequestsInv'
  BY <1>14 DEF RefreshTimer, RequestsInv, RequestsTypeOK, server, requestCache, compare
<1>15. ASSUME NEW b, DeleteAnswered(b) PROVE RequestsInv'
  <2>1. AskedFor(fetch')
    BY <1>15, RefetchIsTyped DEF DeleteAnswered
  <2>2. ListShown \in Key
    BY DEF ListShown, Key, RequestsInv, RequestsTypeOK
  <2>3. storedRequests' \subseteq Id /\ deleted' \subseteq Id
    BY <1>15 DEF DeleteAnswered, RequestsInv, RequestsTypeOK, server
  <2>4. /\ clearing' = ListShown
        /\ UNCHANGED <<modelFilter, requestQuery, data, details, selectedRequestId, compare, refreshingRequests>>
    BY <1>15 DEF DeleteAnswered
  <2> QED BY <2>1, <2>2, <2>3, <2>4 DEF RequestsInv, RequestsTypeOK, AskedFor, compare
<1>16. ASSUME NEW r \in Id, LogRequest(r) PROVE RequestsInv'
  BY <1>16 DEF LogRequest, RequestsInv, RequestsTypeOK, requestCache, compare, manage
<1>17. ASSUME NEW k \in Key, FetchFails(k) PROVE RequestsInv'
  <2>1. AskedFor(fetch')
    BY <1>17 DEF FetchFails, AskedFor, RequestsInv, Resting
  <2>2. /\ refreshingRequests' \in {refreshingRequests, Ending} /\ clearing' \in {clearing, NoRequest}
        /\ selectedRequestId' \in {selectedRequestId, NoRequest}
    BY <1>17 DEF FetchFails, HandlersGoOn
  <2>3. UNCHANGED <<server, modelFilter, requestQuery, data, details, compare>>
    BY <1>17 DEF FetchFails
  <2> QED BY <2>1, <2>2, <2>3 DEF RequestsInv, RequestsTypeOK, AskedFor, server, compare
<1>18. ASSUME UNCHANGED requestVars PROVE RequestsInv'
  BY <1>18, RequestsTypesKept DEF requestVars, compare
<1> QED BY <1>1, <1>2, <1>3, <1>4, <1>5, <1>6, <1>7, <1>8, <1>9, <1>10, <1>11, <1>12, <1>13, <1>14, <1>15, <1>16, <1>17, <1>18
        DEF RequestsNext, RequestUser, RequestAnswers

LEMMA RequestsTypesInitially == RequestsInit => RequestsInv
<1> SUFFICES ASSUME RequestsInit PROVE RequestsInv
  OBVIOUS
<1>1. <<>> \in Seq(Id) /\ Len(<<>>) <= 2 /\ IsInjective(<<>>)
  BY DEF IsInjective
<1>2. requestQuery \in {"", "q"} /\ modelFilter \in ModelFilter
  BY DEF RequestsInit
<1>3. fetch \in [Key -> {NoRequest, Asked}] /\ data \in [Key -> {NoRequest}]
  BY DEF RequestsInit
<1>4. /\ storedRequests \subseteq Id /\ deleted = {} /\ details = {}
      /\ selectedRequestId = NoRequest /\ selectedIds = <<>> /\ refreshingRequests = NoRequest /\ clearing = NoRequest
  BY DEF RequestsInit
<1>5. data \in [Key -> (SUBSET Id) \union {NoRequest}] /\ fetch \in [Key -> Resting \union {Asked} \union [answer : SUBSET Id]]
  BY <1>3 DEF Resting
<1>6. /\ deleted \subseteq Id /\ details \subseteq Id /\ selectedIds \in Seq(Id) /\ selectedRequestId \in Id \union {NoRequest}
      /\ Len(selectedIds) <= 2 /\ IsInjective(selectedIds)
      /\ refreshingRequests \in Key \union {NoRequest, Ending} /\ clearing \in Key \union {NoRequest, Deleting}
  BY <1>1, <1>4
<1> QED BY <1>2, <1>4, <1>5, <1>6, Zenon DEF RequestsInv, RequestsTypeOK

LEMMA RequestsTypesAre == RequestsInv => RequestsTypeOK
BY DEF RequestsInv

(* The types: at most two different requests are selected, and what the    *)
(* filter, the queries and a deletion leave behind are requests and keys    *)
(* there are (Requests.tsx, DataManagementBar.tsx).                         *)
THEOREM RequestsTypesCorrect == RequestsSpec => []RequestsTypeOK
BY RequestsTypesInitially, RequestsTypesAre, RequestsTypeStep, PTL DEF RequestsSpec

-----------------------------------------------------------------------------
(* The comparison.  While it is loaded, what of the pair is not missing is  *)
(* there, and what is missing is one or both of it.                         *)
Two(ids) == ids \in Seq(Id) /\ Len(ids) = 2 /\ ids[1] # ids[2]

JobInv ==
  compareJob # NoRequest =>
    /\ Two(compareJob.ids)
    /\ compareJob.missing \in Seq(Id) /\ Len(compareJob.missing) >= 1
    /\ \A i \in 1 .. 2 :
         compareJob.ids[i] \in details \/ \E j \in 1 .. Len(compareJob.missing) : compareJob.missing[j] = compareJob.ids[i]

CompareInv == JobInv /\ (compareRequests # NoRequest => Two(compareRequests)) /\ ComparesTwoLoaded

(* What a click compares at once is loaded; of what it has fetched first    *)
(* nothing is forgotten.                                                    *)
LEMMA PairAsked ==
  ASSUME RequestsInv, CompareInv, handleCompare
  PROVE  CompareInv'
<1> DEFINE rows == {i \in DOMAIN selectedIds : selectedIds[i] \notin details}
           missing == Kept(selectedIds, rows)
<1>1. /\ selectedIds \in Seq(Id) /\ Len(selectedIds) = 2 /\ DOMAIN selectedIds = 1 .. 2
      /\ selectedIds[1] # selectedIds[2]
  <2>1. selectedIds \in Seq(Id) /\ Len(selectedIds) = 2 /\ IsInjective(selectedIds)
    BY DEF RequestsInv, RequestsTypeOK, handleCompare
  <2> QED BY <2>1 DEF IsInjective
<1>2. rows \in SUBSET Int /\ IsFiniteSet(rows)
  <2>1. IsFiniteSet(1 .. 2)
    BY CountsAreFinite
  <2> QED BY <1>1, <2>1, FS_Subset
<1>3. /\ missing \in Seq({selectedIds[i] : i \in rows}) /\ DOMAIN missing = 1 .. Len(missing) /\ Len(missing) \in Nat
      /\ \A i \in rows : \E k \in 1 .. Len(missing) : missing[k] = selectedIds[i]
  <2> HIDE DEF rows
  <2>1. /\ Cardinality(rows) \in Nat /\ missing \in Seq({selectedIds[i] : i \in rows}) /\ Len(missing) = Cardinality(rows)
        /\ DOMAIN missing = 1 .. Cardinality(rows)
        /\ \A i \in rows : \E k \in 1 .. Cardinality(rows) : missing[k] = selectedIds[i]
    BY <1>2, KeptLists
  <2> HIDE DEF missing
  <2> QED BY <2>1
<1>4. missing \in Seq(Id)
  <2>1. {selectedIds[i] : i \in rows} \subseteq Id
    BY <1>1
  <2> HIDE DEF missing, rows
  <2> QED BY <1>3, <2>1
<1>5. details' = details /\ IF missing = <<>> THEN compareRequests' = selectedIds /\ UNCHANGED compareJob
                            ELSE compareJob' = [ids |-> selectedIds, missing |-> missing] /\ UNCHANGED compareRequests
  BY DEF handleCompare
<1>6. \A i \in 1 .. 2 : selectedIds[i] \in details \/ i \in rows
  BY <1>1
<1> HIDE DEF missing, rows
<1>7. CASE missing = <<>>
  <2>1. \A i \in 1 .. 2 : selectedIds[i] \in details
    BY <1>3, <1>6, <1>7
  <2>2. compareRequests' = selectedIds /\ compareJob' = compareJob
    BY <1>5, <1>7
  <2> QED BY <1>1, <1>5, <2>1, <2>2 DEF CompareInv, JobInv, Two, ComparesTwoLoaded
<1>8. CASE missing # <<>>
  <2>1. Len(missing) >= 1
    BY <1>3, <1>4, <1>8
  <2>2. compareJob'.ids = selectedIds /\ compareJob'.missing = missing /\ compareRequests' = compareRequests
    BY <1>5, <1>8
  <2>3. \A i \in 1 .. 2 : selectedIds[i] \in details \/ \E j \in 1 .. Len(missing) : missing[j] = selectedIds[i]
    BY <1>3, <1>6
  <2>4. JobInv'
    BY <1>1, <1>4, <1>5, <2>1, <2>2, <2>3 DEF JobInv, Two
  <2> QED BY <1>5, <2>2, <2>4 DEF CompareInv, ComparesTwoLoaded
<1> QED BY <1>7, <1>8

LEMMA TailIs ==
  ASSUME NEW S, NEW s \in Seq(S), Len(s) >= 1
  PROVE  /\ Tail(s) \in Seq(S) /\ Len(Tail(s)) = Len(s) - 1
         /\ \A j \in 1 .. Len(s) - 1 : Tail(s)[j] = s[j + 1]
<1>1. s # <<>> /\ Len(s) \in Nat
  OBVIOUS
<1> QED BY <1>1

(* Each answer loads the first that was missing; with the last one both are *)
(* there.                                                                   *)
LEMMA PairFetched ==
  ASSUME CompareInv, CompareFetched
  PROVE  CompareInv'
<1> DEFINE ids == compareJob.ids
           missing == compareJob.missing
<1>1. /\ Two(ids) /\ missing \in Seq(Id) /\ Len(missing) >= 1 /\ Len(missing) \in Nat
      /\ \A i \in 1 .. 2 : ids[i] \in details \/ \E j \in 1 .. Len(missing) : missing[j] = ids[i]
  BY DEF CompareFetched, CompareInv, JobInv
<1>2. /\ details' = details \union {missing[1]}
      /\ IF Len(missing) = 1 THEN compareRequests' = ids /\ compareJob' = NoRequest
         ELSE compareJob' = [compareJob EXCEPT !.missing = Tail(missing)] /\ UNCHANGED compareRequests
  BY <1>1 DEF CompareFetched, LastMissing
<1>3. CASE Len(missing) = 1
  <2>1. \A i \in 1 .. 2 : ids[i] \in details'
    BY <1>1, <1>2, <1>3
  <2>2. compareRequests' = ids /\ compareJob' = NoRequest
    BY <1>2, <1>3
  <2> QED BY <1>1, <2>1, <2>2 DEF CompareInv, JobInv, Two, ComparesTwoLoaded
<1>4. CASE Len(missing) # 1
  <2>1. Tail(missing) \in Seq(Id) /\ Len(Tail(missing)) = Len(missing) - 1 /\ Len(missing) >= 2
        /\ \A j \in 1 .. Len(missing) - 1 : Tail(missing)[j] = missing[j + 1]
    <3> HIDE DEF missing
    <3>1. missing \in Seq(Id) /\ Len(missing) \in Nat /\ Len(missing) >= 1 /\ Len(missing) # 1
      BY <1>1, <1>4
    <3> QED BY <3>1, TailIs
  <2>2. \A i \in 1 .. 2 : ids[i] \in details' \/ \E j \in 1 .. Len(Tail(missing)) : Tail(missing)[j] = ids[i]
    <3> TAKE i \in 1 .. 2
    <3>1. CASE ids[i] \in details
      BY <1>2, <3>1
    <3>2. ASSUME NEW j \in 1 .. Len(missing), missing[j] = ids[i]
          PROVE  ids[i] \in details' \/ \E l \in 1 .. Len(Tail(missing)) : Tail(missing)[l] = ids[i]
      <4>1. CASE j = 1
        BY <1>2, <3>2, <4>1
      <4>2. CASE j # 1
        <5>1. j - 1 \in 1 .. Len(Tail(missing)) /\ Tail(missing)[j - 1] = missing[(j - 1) + 1]
          BY <1>1, <2>1, <4>2
        <5> QED BY <3>2, <5>1
      <4> QED BY <4>1, <4>2
    <3> QED BY <1>1, <3>1, <3>2
  <2>3. compareJob' = [compareJob EXCEPT !.missing = Tail(missing)] /\ compareRequests' = compareRequests
    BY <1>2, <1>4
  <2>4. compareJob' # NoRequest => compareJob'.ids = ids /\ compareJob'.missing = Tail(missing)
    BY <2>3
  <2>5. JobInv'
    <3> SUFFICES ASSUME compareJob' # NoRequest
                 PROVE  /\ Two(compareJob'.ids)
                        /\ compareJob'.missing \in Seq(Id) /\ Len(compareJob'.missing) >= 1
                        /\ \A i \in 1 .. 2 : \/ compareJob'.ids[i] \in details'
                                           \/ \E j \in 1 .. Len(compareJob'.missing) : compareJob'.missing[j] = compareJob'.ids[i]
      BY DEF JobInv, Two
    <3>1. compareJob'.ids = ids /\ compareJob'.missing = Tail(missing)
      BY <2>4
    <3> HIDE DEF ids, missing
    <3>2. Len(Tail(missing)) >= 1
      BY <1>1, <2>1
    <3> QED BY <1>1, <2>1, <2>2, <3>1, <3>2
  <2>6. \A i \in 1 .. 2 : compareRequests # NoRequest => compareRequests[i] \in details'
    BY <1>2 DEF CompareInv, ComparesTwoLoaded
  <2> QED BY <2>3, <2>5, <2>6 DEF CompareInv, ComparesTwoLoaded
<1> QED BY <1>3, <1>4

LEMMA CompareStep == RequestsInv /\ CompareInv /\ [RequestsNext]_requestVars => CompareInv'
<1> SUFFICES ASSUME RequestsInv, CompareInv, [RequestsNext]_requestVars PROVE CompareInv'
  OBVIOUS
<1>1. ASSUME UNCHANGED <<compareJob, compareRequests>>, details \subseteq details' PROVE CompareInv'
  BY <1>1 DEF CompareInv, JobInv, ComparesTwoLoaded
<1>2. ASSUME handleCompare \/ CompareFetched PROVE CompareInv'
  BY <1>2, PairAsked, PairFetched
<1>3. ASSUME CloseModal PROVE CompareInv'
  BY <1>3 DEF CloseModal, CompareInv, JobInv, ComparesTwoLoaded
<1>4. ASSUME CompareFails PROVE CompareInv'
  BY <1>4 DEF CompareFails, CompareInv, JobInv, ComparesTwoLoaded
<1>5. ASSUME NEW m, \/ SetModelFilter(m) \/ SetRequestQuery \/ ReadAnswer(m) \/ AnswerArrives(m)
                    \/ FetchFails(m) \/ LogRequest(m)
      PROVE  CompareInv'
  BY <1>1, <1>5 DEF SetModelFilter, SetRequestQuery, ReadAnswer, AnswerArrives, FetchFails, LogRequest, compare
<1>6. ASSUME NEW r, SelectRequestRow(r) \/ ToggleSelection(r) PROVE CompareInv'
  BY <1>1, <1>6 DEF SelectRequestRow, ToggleSelection, compare
<1>7. ASSUME toggleCompareMode \/ RefreshRequests \/ ToggleConfirm \/ LoadDetail \/ RefreshTimer PROVE CompareInv'
  BY <1>1, <1>7 DEF toggleCompareMode, RefreshRequests, ToggleConfirm, LoadDetail, RefreshTimer, compare
<1>8. ASSUME NEW b, handleClear \/ DeleteAnswered(b) \/ ClearFails PROVE CompareInv'
  BY <1>1, <1>8 DEF handleClear, DeleteAnswered, ClearFails, compare
<1>9. ASSUME UNCHANGED requestVars PROVE CompareInv'
  BY <1>1, <1>9 DEF requestVars, compare
<1> QED BY <1>2, <1>3, <1>4, <1>5, <1>6, <1>7, <1>8, <1>9 DEF RequestsNext, RequestUser, RequestAnswers

(* The modal opens only on two different requests that are both loaded,    *)
(* whatever was fetched, failed, toggled or cleared meanwhile               *)
(* (Requests.tsx 317-389).                                                  *)
THEOREM ComparisonCorrect == RequestsSpec => []ComparesTwoLoaded
<1>1. RequestsInit => CompareInv
  BY DEF RequestsInit, CompareInv, JobInv, ComparesTwoLoaded
<1>2. CompareInv => ComparesTwoLoaded
  BY DEF CompareInv
<1> QED BY RequestsTypesInitially, RequestsTypeStep, <1>1, <1>2, CompareStep, PTL DEF RequestsSpec

-----------------------------------------------------------------------------
(* The types of the settings.                                              *)
(* What is stored of the settings are values their controls offer, and a   *)
(* window's copy is complete.                                              *)
OfferedIn(s) == DOMAIN s \subseteq Setting /\ \A k \in DOMAIN s : s[k] \in Offered[k]
Complete(s) == DOMAIN s = Setting /\ \A k \in Setting : s[k] \in Offered[k]
AllComplete(f) == DOMAIN f = Window /\ \A w \in Window : Complete(f[w])

SettingsInv == OfferedIn(storedSettings) /\ confirmText \in DeleteWord /\ AllComplete(settings)

LEMMA DefaultsAreOffered == Complete(DEFAULT_SETTINGS)
<1>1. DOMAIN DEFAULT_SETTINGS = Setting
  BY DEF Setting
<1>2. DEFAULT_SETTINGS.autoRefreshEnabled \in Offered.autoRefreshEnabled
  BY DEF DEFAULT_SETTINGS, Offered
<1>3. DEFAULT_SETTINGS.autoRefreshInterval \in Offered.autoRefreshInterval
  BY DEF DEFAULT_SETTINGS, Offered
<1>4. DEFAULT_SETTINGS.notifyOnError \in Offered.notifyOnError
  BY DEF DEFAULT_SETTINGS, Offered
<1>5. DEFAULT_SETTINGS.notifyOnHighLatency \in Offered.notifyOnHighLatency
  BY DEF DEFAULT_SETTINGS, Offered
<1>6. DEFAULT_SETTINGS.highLatencyThreshold \in Offered.highLatencyThreshold
  BY DEF DEFAULT_SETTINGS, Offered
<1>7. DEFAULT_SETTINGS.dataRetentionDays \in Offered.dataRetentionDays
  BY DEF DEFAULT_SETTINGS, Offered
<1>8. Setting = {"autoRefreshEnabled", "autoRefreshInterval", "notifyOnError", "notifyOnHighLatency", "highLatencyThreshold", "dataRetentionDays"}
  BY DEF Setting, DEFAULT_SETTINGS
<1> QED BY <1>1, <1>2, <1>3, <1>4, <1>5, <1>6, <1>7, <1>8 DEF Complete

LEMMA SettingsAreComplete == ASSUME NEW s, OfferedIn(s) PROVE Complete(Settings(s))
<1>1. (DOMAIN s) \union Setting = Setting
  BY DEF OfferedIn
<1>2. Settings(s) = [k \in Setting |-> IF k \in DOMAIN s THEN s[k] ELSE DEFAULT_SETTINGS[k]]
  BY <1>1 DEF Settings
<1> QED BY <1>2, DefaultsAreOffered DEF OfferedIn, Complete

LEMMA NothingIsOffered == OfferedIn(<<>>)
BY DEF OfferedIn

LEMMA SettingsTypeStep == SettingsInv /\ [SettingsNext]_settingsVars => SettingsInv'
<1> SUFFICES ASSUME SettingsInv, [SettingsNext]_settingsVars PROVE SettingsInv'
  OBVIOUS
<1>1. ASSUME NEW w \in Window, NEW k \in Setting, NEW v \in Offered[k], updateSettings(w, k, v) PROVE SettingsInv'
  <2>1. settings' = [settings EXCEPT ![w][k] = v] /\ storedSettings' \in {settings'[w], storedSettings} /\ UNCHANGED modal
    BY <1>1 DEF updateSettings
  <2>2. AllComplete(settings')
    BY <2>1 DEF AllComplete, Complete, SettingsInv
  <2>3. OfferedIn(settings'[w])
    BY <2>2 DEF AllComplete, Complete, OfferedIn
  <2> QED BY <2>1, <2>2, <2>3 DEF SettingsInv, modal
<1>2. ASSUME NEW w \in Window, resetSettings(w) PROVE SettingsInv'
  BY <1>2, SettingsAreComplete, NothingIsOffered DEF resetSettings, modal, SettingsInv, AllComplete
<1>3. ASSUME NEW w \in Window, ReloadSettings(w) PROVE SettingsInv'
  BY <1>3, SettingsAreComplete DEF ReloadSettings, modal, SettingsInv, AllComplete
<1>4. ASSUME NEW w \in DeleteWord, TypeWord(w) PROVE SettingsInv'
  BY <1>4 DEF TypeWord, SettingsInv
<1>5. "" \in DeleteWord
  BY SettingsAssumption
<1>6. ASSUME handleClose PROVE SettingsInv'
  <2>1. confirmText' \in DeleteWord /\ UNCHANGED <<storedSettings, settings>>
    BY <1>5, <1>6, Zenon DEF handleClose
  <2> QED BY <2>1 DEF SettingsInv
<1>7. ASSUME NEW b \in BOOLEAN, Deleted(b) PROVE SettingsInv'
  <2>1. confirmText' \in DeleteWord /\ UNCHANGED <<storedSettings, settings>>
    BY <1>5, <1>7, Zenon DEF Deleted, TextAfter
  <2> QED BY <2>1 DEF SettingsInv
<1>8. ASSUME OpenModal \/ handleConfirm \/ DeleteFails \/ UNCHANGED settingsVars PROVE SettingsInv'
  BY <1>8 DEF OpenModal, handleConfirm, DeleteFails, settingsVars, modal, SettingsInv
<1> QED BY <1>1, <1>2, <1>3, <1>4, <1>6, <1>7, <1>8 DEF SettingsNext

LEMMA SettingsTypesInitially == SettingsInit => SettingsInv
<1> SUFFICES ASSUME SettingsInit PROVE SettingsInv
  OBVIOUS
<1>1. OfferedIn(storedSettings)
  BY SettingsAssumption, NothingIsOffered DEF SettingsInit, OfferedIn
<1>2. confirmText \in DeleteWord
  BY SettingsAssumption DEF SettingsInit
<1> QED BY <1>1, <1>2, SettingsAreComplete DEF SettingsInit, SettingsInv, AllComplete

LEMMA SettingsTypesAre == SettingsInv => SettingsTypeOK
BY DEF SettingsInv, SettingsTypeOK, AllComplete, Complete, OfferedIn

(* What is shown of a setting is what its control offers, in every window   *)
(* and also of settings stored before there were so many (useSettings.ts,   *)
(* Settings.tsx).                                                           *)
THEOREM SettingsTypesCorrect == SettingsSpec => []SettingsTypeOK
BY SettingsTypesInitially, SettingsTypesAre, SettingsTypeStep, PTL DEF SettingsSpec

-----------------------------------------------------------------------------
(* The types of the dates.                                                 *)
(* The presets, and the range of the viewer, which ends where it was made. *)
PresetsOK ==
  /\ presetRange \in Preset \union {"custom"} /\ v3preset \in {"24h", "7d", "30d"}
  /\ v3start \in Int /\ v3end \in Int /\ v3start < v3end /\ v3end <= now

LEMMA PresetsInitially == DatesInit => PresetsOK
BY DatesAssumption DEF DatesInit, PresetsOK, Preset, Third

LEMMA PresetsStep == DatesInv /\ PresetsOK /\ [DatesNext]_datesVars => PresetsOK'
<1> SUFFICES ASSUME DatesInv, PresetsOK, [DatesNext]_datesVars PROVE PresetsOK'
  OBVIOUS
<1>1. ASSUME NEW t, setSelectedDate(t) PROVE PresetsOK'
  BY <1>1 DEF setSelectedDate, Click, PresetAfter, Preset, PresetsOK, v3Dates
<1>2. ASSUME NEW p \in Preset, setPresetRange(p) PROVE PresetsOK'
  BY <1>2 DEF setPresetRange, Click, PresetsOK, v3Dates
<1>3. ASSUME Tick PROVE PresetsOK'
  BY <1>3 DEF Tick, DatesInv, PresetsOK, legacyDates, v3Dates
<1>4. ASSUME Rerender \/ LeaveParameter \/ UNCHANGED datesVars PROVE PresetsOK'
  BY <1>4 DEF Rerender, LeaveParameter, PresetsOK, datesVars, legacyDates, v3Dates
<1>5. ASSUME NEW u, LoadDates(u) PROVE PresetsOK'
  BY <1>5 DEF LoadDates, DatesInv, PresetsOK, Preset, Third
<1>6. ASSUME NEW p \in {"24h", "7d", "30d"}, setV3Preset(p) PROVE PresetsOK'
  BY <1>6 DEF setV3Preset, DatesInv, PresetsOK, Third, legacyDates
<1>7. "today" \in Preset
  BY DEF Preset
<1> QED BY <1>1, <1>2, <1>3, <1>4, <1>5, <1>6, <1>7 DEF DatesNext, goBack, goForward, goToToday, navigateWeek

(* Whatever the preset, the range asked for does not end before it begins. *)
LEMMA DatesAreTyped == DatesInv /\ WeekOfSelected /\ PresetsOK => DatesTypeOK
<1> SUFFICES ASSUME DatesInv, WeekOfSelected, PresetsOK PROVE DatesTypeOK
  OBVIOUS
<1>1. \A t \in Int : LocalDay(t) \in Int /\ weekStart(t) \in Int /\ weekEnd(t) = weekStart(t) + 6
  BY DatesAssumption DEF LocalDay, weekStart, weekEnd, Third
<1>2. currentWeekStart \in Int
  BY <1>1 DEF WeekOfSelected, DatesInv
<1>3. dateRange[1] <= dateRange[2]
  <2>1. \A a, b \in Int : <<a, b>>[1] = a /\ <<a, b>>[2] = b
    OBVIOUS
  <2> QED BY <1>1, <2>1 DEF dateRange, getDateRangeForPreset, DatesInv, PresetsOK, Preset
<1> QED BY <1>2, <1>3 DEF DatesTypeOK, DatesInv, PresetsOK

(* The dates are instants, the presets those of the pickers, and no range   *)
(* ends before it begins or after now (DateRangeContext.tsx 30-60,          *)
(* v3-date-range.tsx).                                                      *)
THEOREM DatesTypesCorrect == DatesSpec => []DatesTypeOK
<1>1. DatesInit => WeekOfSelected /\ PresetsOK
  BY DatesInitially, PresetsInitially
<1> QED BY <1>1, DatesInvariant, WeekStep, PresetsStep, DatesAreTyped, PTL DEF DatesSpec

-----------------------------------------------------------------------------
(* The types of the Claude configuration page.                             *)
(* While the page stands no section of CLAUDE.md was opened.               *)
ClaudeInv ==
  /\ claudeTab \in ClaudeTab /\ claudeFetch \in {"fetching", "fetched", "failed"}
  /\ claudeFiles \in ClaudeFiles /\ claudeCrashed \in BOOLEAN
  /\ toggled \subseteq Sections(claudeConfig, claudeTab)
  /\ claudeFetch = "fetched" => claudeConfig # NoAnswerYet
  /\ ~claudeCrashed => \A s \in toggled : s.title # "index"

LEMMA ClaudeStep == ClaudeInv /\ [ClaudeNext]_claudeVars => ClaudeInv'
<1> SUFFICES ASSUME ClaudeInv, [ClaudeNext]_claudeVars PROVE ClaudeInv'
  OBVIOUS
<1>1. ASSUME EditClaudeFiles PROVE ClaudeInv'
  BY <1>1 DEF EditClaudeFiles, ClaudeInv
<1>2. ASSUME ClaudeConfigArrives PROVE ClaudeInv'
  BY <1>2, ClaudeAssumption DEF ClaudeConfigArrives, ClaudeInv
<1>3. ASSUME ClaudeConfigFails \/ RefreshClaudeConfig PROVE ClaudeInv'
  BY <1>3 DEF ClaudeConfigFails, RefreshClaudeConfig, ClaudeInv
<1>4. ASSUME NEW tab \in ClaudeTab, setClaudeTab(tab) PROVE ClaudeInv'
  BY <1>4 DEF setClaudeTab, ClaudeInv
<1>5. ASSUME NEW s \in Sections(claudeConfig, claudeTab), ToggleSection(s) PROVE ClaudeInv'
  <2>1. s.title = "index" => (IsOpen(s) <=> s \in toggled)
    <3>1. s.title = "index" => s.title \notin OpenAtMount
      BY DEF OpenAtMount
    <3> QED BY <3>1 DEF IsOpen
  <2> QED BY <1>5, <2>1 DEF ToggleSection, ClaudeInv
<1>6. ASSUME ReloadClaudeConfig PROVE ClaudeInv'
  BY <1>6 DEF ReloadClaudeConfig, ClaudeInv, ClaudeTab
<1>7. ASSUME UNCHANGED claudeVars PROVE ClaudeInv'
  BY <1>7 DEF claudeVars, ClaudeInv
<1> QED BY <1>1, <1>2, <1>3, <1>4, <1>5, <1>6, <1>7 DEF ClaudeNext

LEMMA ClaudeTypesInitially == ClaudeInit => ClaudeInv
BY DEF ClaudeInit, ClaudeInv, ClaudeTab

LEMMA ClaudeTypesAre == ClaudeInv => ClaudeTypeOK
<1> SUFFICES ASSUME ClaudeInv PROVE ClaudeTypeOK
  OBVIOUS
<1>1. \A s \in Sections(claudeConfig, claudeTab) : s.title = "index" => (IsOpen(s) <=> s \in toggled)
  <2> SUFFICES ASSUME NEW s \in Sections(claudeConfig, claudeTab), s.title = "index" PROVE IsOpen(s) <=> s \in toggled
    OBVIOUS
  <2>1. s.title \notin OpenAtMount
    BY DEF OpenAtMount
  <2> QED BY <2>1 DEF IsOpen
<1>2. ~claudeCrashed => \A s \in Sections(claudeConfig, claudeTab) : s.title = "index" => ~IsOpen(s)
  BY <1>1 DEF ClaudeInv
<1> QED BY <1>2 DEF ClaudeInv, ClaudeTypeOK

(* The types; a page that stands shows no section of CLAUDE.md open        *)
(* (ClaudeConfig.tsx 43-68, 110-124).                                      *)
THEOREM ClaudeTypesCorrect == ClaudeSpec => []ClaudeTypeOK
BY ClaudeTypesInitially, ClaudeTypesAre, ClaudeStep, PTL DEF ClaudeSpec

-----------------------------------------------------------------------------
(* The dashboard, whatever page is mounted.                                *)

(* What the types of the page that is mounted rest on. *)
PageTypes ==
  /\ mounted = "shell" => ShellInv /\ ShellTypes
  /\ mounted = "requests" => RequestsInv
  /\ mounted = "settings" => SettingsInv
  /\ mounted = "dates" => DatesInv /\ WeekOfSelected /\ PresetsOK
  /\ mounted = "cockpit" => CockpitInv /\ CockpitTypes
  /\ mounted = "timeline" => TimelineTypes
  /\ mounted = "conversations" => ConversationsTyped
  /\ mounted = "explorer" => ExplorerTypes
  /\ mounted = "workshop" => WorkshopInv /\ WorkshopTypes
  /\ mounted = "hub" => HubTypes
  /\ mounted = "config" => ConfigTypes
  /\ mounted \in {"data", "find"} => DataTypes
  /\ mounted = "token" => TokenTypes
  /\ mounted = "message" => MessageTypes
  /\ mounted = "claude" => ClaudeInv
  /\ mounted = "mission" => MissionTypes

(* The page mounted is the one that takes a step, and it stays mounted. *)
LEMMA StepOfMounted ==
  ASSUME [MCNext]_MCVars
  PROVE  /\ mounted' = mounted
         /\ mounted = "shell" => [ShellNext]_shellVars
         /\ mounted = "requests" => [RequestsNext]_requestVars
         /\ mounted = "settings" => [SettingsNext]_settingsVars
         /\ mounted = "dates" => [DatesNext]_datesVars
         /\ mounted = "cockpit" => [CockpitNext]_cockpitVars
         /\ mounted = "timeline" => [TimelineNext]_timelineVars
         /\ mounted = "conversations" => [ConversationsNext]_conversationVars
         /\ mounted = "explorer" => [ExplorerNext]_explorerVars
         /\ mounted = "workshop" => [WorkshopNext]_workshopVars
         /\ mounted = "hub" => [HubNext]_hubVars
         /\ mounted = "config" => [ConfigNext]_configVars
         /\ mounted \in {"data", "find"} => [DataNext \/ FindNext]_dataVars
         /\ mounted = "token" => [TokenNext]_tokenVars
         /\ mounted = "message" => [MessageNext]_messageVars
         /\ mounted = "claude" => [ClaudeNext]_claudeVars
         /\ mounted = "mission" => [MissionNext]_missionVars
<1>1. CASE MCNext
  <2>1. mounted' = mounted
    BY <1>1 DEF MCNext
  <2>2. mounted = "shell" => ShellNext
    BY <1>1 DEF MCNext
  <2>3. mounted = "requests" => RequestsNext
    BY <1>1 DEF MCNext
  <2>4. mounted = "settings" => SettingsNext
    BY <1>1 DEF MCNext
  <2>5. mounted = "dates" => DatesNext
    BY <1>1 DEF MCNext
  <2>6. mounted = "cockpit" => CockpitNext
    BY <1>1 DEF MCNext
  <2>7. mounted = "timeline" => TimelineNext
    BY <1>1 DEF MCNext
  <2>8. mounted = "conversations" => ConversationsNext
    BY <1>1 DEF MCNext
  <2>9. mounted = "explorer" => ExplorerNext
    BY <1>1 DEF MCNext
  <2>10. mounted = "workshop" => WorkshopNext
    BY <1>1 DEF MCNext
  <2>11. mounted = "hub" => HubNext
    BY <1>1 DEF MCNext
  <2>12. mounted = "config" => ConfigNext
    BY <1>1 DEF MCNext
  <2>13. mounted \in {"data", "find"} => DataNext \/ FindNext
    BY <1>1 DEF MCNext
  <2>14. mounted = "token" => TokenNext
    BY <1>1 DEF MCNext
  <2>15. mounted = "message" => MessageNext
    BY <1>1 DEF MCNext
  <2>16. mounted = "claude" => ClaudeNext
    BY <1>1 DEF MCNext
  <2>17. mounted = "mission" => MissionNext
    BY <1>1 DEF MCNext
  <2> QED BY <2>1, <2>2, <2>3, <2>4, <2>5, <2>6, <2>7, <2>8, <2>9, <2>10, <2>11, <2>12, <2>13, <2>14, <2>15, <2>16, <2>17
<1>2. CASE UNCHANGED MCVars
  BY <1>2 DEF MCVars
<1> QED BY <1>1, <1>2

LEMMA PageTypesInitially == MCInit => PageTypes
<1> SUFFICES ASSUME MCInit PROVE PageTypes
  OBVIOUS
<1>1. /\ ShellInit /\ RequestsInit /\ SettingsInit /\ DatesInit /\ CockpitInit /\ TimelineInit /\ ConversationsInit /\ ExplorerInit
      /\ WorkshopInit /\ HubInit /\ ConfigInit /\ DataInit /\ TokenInit /\ MessageInit /\ ClaudeInit /\ MissionInit
  BY Zenon DEF MCInit
<1>2. ShellInv /\ ShellTypes
  BY <1>1, ShellInitially, ShellTypesInitially
<1>3. RequestsInv
  BY <1>1, RequestsTypesInitially
<1>4. SettingsInv
  BY <1>1, SettingsTypesInitially
<1>5. DatesInv /\ WeekOfSelected /\ PresetsOK
  BY <1>1, DatesInitially, PresetsInitially
<1>6. CockpitInv /\ CockpitTypes
  BY <1>1, CockpitInitially, CockpitTypesInitially
<1>7. TimelineTypes
  BY <1>1, TimelineTypesInitially
<1>8. ConversationsTyped
  BY <1>1, ConversationsTypesInitially
<1>9. ExplorerTypes
  BY <1>1, ExplorerTypesInitially
<1>10. WorkshopInv /\ WorkshopTypes
  BY <1>1, WorkshopInitially, WorkshopTypesInitially
<1>11. HubTypes
  BY <1>1, HubTypesInitially
<1>12. ConfigTypes
  BY <1>1, ConfigTypesInitially
<1>13. DataTypes
  BY <1>1, DataTypesInitially
<1>14. TokenTypes
  BY <1>1, TokenTypesInitially
<1>15. MessageTypes
  BY <1>1, MessageTypesInitially
<1>16. ClaudeInv
  BY <1>1, ClaudeTypesInitially
<1>17. MissionTypes
  BY <1>1, MissionTypesInitially
<1> QED BY <1>2, <1>3, <1>4, <1>5, <1>6, <1>7, <1>8, <1>9, <1>10, <1>11, <1>12, <1>13, <1>14, <1>15, <1>16, <1>17 DEF PageTypes

LEMMA PageTypesStep == PageTypes /\ [MCNext]_MCVars => PageTypes'
<1> SUFFICES ASSUME PageTypes, [MCNext]_MCVars PROVE PageTypes'
  OBVIOUS
<1>1. mounted' = mounted
  BY StepOfMounted
<1>2. mounted = "shell" => (ShellInv /\ ShellTypes)'
  BY StepOfMounted, ShellStep, ShellTypesStep DEF PageTypes
<1>3. mounted = "requests" => (RequestsInv)'
  BY StepOfMounted, RequestsTypeStep DEF PageTypes
<1>4. mounted = "settings" => (SettingsInv)'
  BY StepOfMounted, SettingsTypeStep DEF PageTypes
<1>5. mounted = "dates" => (DatesInv /\ WeekOfSelected /\ PresetsOK)'
  BY StepOfMounted, DatesStep, WeekStep, PresetsStep DEF PageTypes
<1>6. mounted = "cockpit" => (CockpitInv /\ CockpitTypes)'
  BY StepOfMounted, CockpitStep, CockpitTypesStep DEF PageTypes
<1>7. mounted = "timeline" => (TimelineTypes)'
  BY StepOfMounted, TimelineTypesStep DEF PageTypes
<1>8. mounted = "conversations" => (ConversationsTyped)'
  BY StepOfMounted, ConversationsTypeStep DEF PageTypes
<1>9. mounted = "explorer" => (ExplorerTypes)'
  BY StepOfMounted, ExplorerTypesStep DEF PageTypes
<1>10. mounted = "workshop" => (WorkshopInv /\ WorkshopTypes)'
  BY StepOfMounted, WorkshopStep, WorkshopTypesStep DEF PageTypes
<1>11. mounted = "hub" => (HubTypes)'
  BY StepOfMounted, HubTypesStep DEF PageTypes
<1>12. mounted = "config" => (ConfigTypes)'
  BY StepOfMounted, ConfigTypesStep DEF PageTypes
<1>13. mounted \in {"data", "find"} => (DataTypes)'
  BY StepOfMounted, DataTypesStep DEF PageTypes
<1>14. mounted = "token" => (TokenTypes)'
  BY StepOfMounted, TokenTypesStep DEF PageTypes
<1>15. mounted = "message" => (MessageTypes)'
  BY StepOfMounted, MessageTypesStep DEF PageTypes
<1>16. mounted = "claude" => (ClaudeInv)'
  BY StepOfMounted, ClaudeStep DEF PageTypes
<1>17. mounted = "mission" => (MissionTypes)'
  BY StepOfMounted, MissionTypesStep DEF PageTypes
<1> QED BY <1>1, <1>2, <1>3, <1>4, <1>5, <1>6, <1>7, <1>8, <1>9, <1>10, <1>11, <1>12, <1>13, <1>14, <1>15, <1>16, <1>17 DEF PageTypes

(* Whatever page is mounted and whatever happens on it, its state has its    *)
(* types and what they say of one part of the page and another: a row        *)
(* selected is one of the list, a count that of what is listed, a drawer or  *)
(* a filter names what there is, and no range of dates ends before it begins *)
(* (the pages under src/frontend/src).                                       *)
THEOREM PagesTypesCorrect == MCSpec => []PagesTypeOK
<1>1. PageTypes => PagesTypeOK
  <2>1. ShellInv /\ ShellTypes => ShellTypeOK
    BY ShellTypesAre
  <2>2. RequestsInv => RequestsTypeOK
    BY RequestsTypesAre
  <2>3. SettingsInv => SettingsTypeOK
    BY SettingsTypesAre
  <2>4. DatesInv /\ WeekOfSelected /\ PresetsOK => DatesTypeOK
    BY DatesAreTyped
  <2>5. CockpitInv /\ CockpitTypes => CockpitTypeOK
    BY CockpitTypesAre
  <2>6. TimelineTypes => TimelineTypeOK
    BY TimelineTypesAre
  <2>7. ConversationsTyped => ConversationsTypeOK
    BY ConversationsTypesAre
  <2>8. ExplorerTypes => ExplorerTypeOK
    BY ExplorerTypesAre
  <2>9. WorkshopInv /\ WorkshopTypes => WorkshopTypeOK
    BY WorkshopTypesAre
  <2>10. HubTypes => HubTypeOK
    BY HubTypesAre
  <2>11. ConfigTypes => ConfigTypeOK
    BY ConfigTypesAre
  <2>12. DataTypes => DataTypeOK
    BY DataTypesAre
  <2>13. TokenTypes => TokenTypeOK
    BY TokenTypesAre
  <2>14. MessageTypes => MessageTypeOK
    BY MessageTypesAre
  <2>15. ClaudeInv => ClaudeTypeOK
    BY ClaudeTypesAre
  <2>16. MissionTypes => MissionTypeOK
    BY MissionTypesAre
  <2> QED BY <2>1, <2>2, <2>3, <2>4, <2>5, <2>6, <2>7, <2>8, <2>9, <2>10, <2>11, <2>12, <2>13, <2>14, <2>15, <2>16 DEF PageTypes, PagesTypeOK
<1> QED BY <1>1, PageTypesInitially, PageTypesStep, PTL DEF MCSpec
=============================================================================
