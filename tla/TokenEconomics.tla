--------------------------- MODULE TokenEconomics ---------------------------
(***************************************************************************)
(* The token page of the legacy dashboard (pages/TokenEconomics.tsx) with  *)
(* its charts and its alerts.  The page asks for four things of the range  *)
(* of days in use, and works out each card, chart and alert by itself.     *)
(* Tokens are counted in thousands.                                        *)
(***************************************************************************)
EXTENDS Integers, Sequences, FiniteSets, Functions, Arrays

CONSTANTS TokenRange,      \* the ranges of days
          Daily,           \* [TokenRange -> sequence of [model -> tokens]], one function for each day
          ProjectTotals,   \* [TokenRange -> sequence of tokens, one for each project]
          TokenConversations, \* records with a project, by its place in the list, and tokens
          HasHourly,       \* the ranges with hourly figures
          SlicesShown,     \* projects that get a slice of their own
          AlertsShown,     \* alerts before "Show more"
          MaxTokenSteps

(* Tokens are numbers, and an answer holds finitely many.                   *)
ASSUME TokenAssumption ==
  /\ SlicesShown \in Nat /\ AlertsShown \in Nat
  /\ \A r \in TokenRange : /\ Daily[r] \in Seq(Range(Daily[r])) /\ (\A i \in DOMAIN Daily[r] : Counts(Daily[r][i]))
                            /\ Counts(ProjectTotals[r]) /\ DOMAIN ProjectTotals[r] \subseteq Nat
  /\ IsFiniteSet(TokenConversations)
  /\ \A c \in TokenConversations : c.tokens \in Nat /\ c.project \in Nat

Query == {"weekly", "hourly", "conversations", "projects"}

VARIABLES tokenRange,          \* the range of the date picker
          answers,             \* useQuery: [range -> [query -> "none", "pending", "data" or "error"]]
          pageShown,           \* "full", "alert" or "none": what the mounted page rendered first
          pageFailed,          \* ErrorBoundary: hasError
          timeView, viewMode,  \* DailyBurnChart
          showAll,             \* AnomalyAlerts
          tokenSteps

tokenVars == <<tokenRange, answers, pageShown, pageFailed, timeView, viewMode, showAll, tokenSteps>>

-----------------------------------------------------------------------------
(* Figures of a sequence of days, which the server takes from a map in any  *)
(* order: those of two weeks, which go by the order, are left out.          *)
TokensOf(day) == SumOf(day)
DayTokens(days) == [i \in DOMAIN days |-> TokensOf(days[i])]

metrics(days) ==
  LET tokens == DayTokens(days)
  IN  [total |-> SumOf(tokens),
       peak  |-> IF days = <<>> THEN 0 ELSE CHOOSE t \in Range(tokens) : \A u \in Range(tokens) : u <= t]

allModels(days) == UNION {DOMAIN days[i] : i \in DOMAIN days}
DaysWith(days, m) == {i \in DOMAIN days : m \in DOMAIN days[i]}
modelStats(days) ==
  [m \in allModels(days) |-> SumOf([i \in DaysWith(days, m) |-> days[i][m]])]

(* Days above the mean by more than twice the deviation: both sides are     *)
(* multiplied by the number of days, and the deviation is squared.          *)
AboveThreshold(days) ==
  LET tokens == DayTokens(days)
      n == Len(days)
      total == SumOf(tokens)
      squares == SumOf([j \in DOMAIN tokens |-> tokens[j] * tokens[j]])
      excess == [i \in DOMAIN days |-> n * tokens[i] - total]
  IN  {i \in DOMAIN days : excess[i] > 0 /\ excess[i] * excess[i] > 4 * (n * squares - total * total)}

(* DailyBurnChart: the days marked as anomalies.                            *)
ChartAnomalies(days) == AboveThreshold(days)

\* faulty variant: a spike is a day above twice the mean
SpikesOverTwice(days) == {i \in DOMAIN days : Len(days) * TokensOf(days[i]) > 2 * metrics(days).total}

(* AnomalyAlerts: spikes, then high days that are no spikes.                *)
Spikes(days) == AboveThreshold(days)

Severity(days) ==
  LET tokens == DayTokens(days)
      total == SumOf(tokens)
      spikes == Spikes(days)
  IN  [i \in DOMAIN days |->
         IF i \in spikes THEN IF Len(days) * tokens[i] > 3 * total THEN "high" ELSE "medium"
         ELSE IF tokens[i] > 100 THEN "high" ELSE "medium"]

(* The severe first, then the most recent.                                  *)
AlertsFirst(days) ==
  LET severity == Severity(days)
  IN  {p \in (DOMAIN days) \X (DOMAIN days) :
         IF severity[p[1]] # severity[p[2]] THEN severity[p[1]] = "high" ELSE p[1] > p[2]}

anomalies(days) == Ranked(Spikes(days) \union {i \in DOMAIN days : TokensOf(days[i]) > 50}, AlertsFirst(days))

visibleAnomalies(days) == IF showAll THEN anomalies(days) ELSE FirstOf(anomalies(days), AlertsShown)

(* The figures of the projects, by the projects' places in the answer.      *)
LargerFirst(projects) ==
  {p \in (DOMAIN projects) \X (DOMAIN projects) :
     projects[p[1]] > projects[p[2]] \/ (projects[p[1]] = projects[p[2]] /\ p[1] < p[2])}

(* ProjectBreakdownChart: the largest projects that hold two percent, and   *)
(* the rest together.                                                       *)
ChartSlices(projects) ==
  LET total == SumOf(projects)
      order == Ranked(DOMAIN projects, LargerFirst(projects))
      sorted == [k \in DOMAIN order |-> projects[order[k]]]
      Top == {k \in DOMAIN sorted : k <= SlicesShown /\ 50 * sorted[k] >= total}
  IN  [top |-> [k \in Top |-> sorted[k]],
       other |-> SumOf([k \in DOMAIN sorted \ Top |-> sorted[k]])]

(* fallbackProjectStats: what the conversations of each project add up to.  *)
ProjectsOf(conversations) == {c.project : c \in conversations}
TokensByProject(conversations) ==
  [p \in ProjectsOf(conversations) |-> SumOf([c \in {d \in conversations : d.project = p} |-> c.tokens])]

-----------------------------------------------------------------------------
(* What the page has.                                                       *)
Has(q, value) == answers[tokenRange][q] = value
isLoading == \E q \in Query : Has(q, "pending")
dailyStats == IF Has("weekly", "data") THEN Daily[tokenRange] ELSE <<>>
projectStats == IF Has("projects", "data") THEN ProjectTotals[tokenRange] ELSE <<>>
conversationsKnown == IF Has("conversations", "data") THEN TokenConversations ELSE {}

(* Without projects the conversations, whatever the range.                  *)
displayProjectStats == IF projectStats # <<>> THEN projectStats ELSE TokensByProject(conversationsKnown)

(* The early return, which comes before the hooks that work out the figures. *)
CriticalIn(as, r) == as[r]["weekly"] # "data" /\ \E q \in {"weekly", "conversations"} : as[r][q] = "error"

(* A query without data is asked again when an observer mounts or comes to  *)
(* its key, and loses its error.  The conversations have the same key for   *)
(* every range.                                                             *)
AskedOf(of, qs) == [q \in Query |-> IF q \in qs /\ of[q] # "data" THEN "pending" ELSE of[q]]

WithConversations(as, value) == [r \in TokenRange |-> [as[r] EXCEPT !["conversations"] = value]]

(* The charts are unmounted while anything loads; a page that renders other *)
(* hooks than it did at first throws, and the boundary shows "Page error".  *)
Render ==
  LET now == IF CriticalIn(answers', tokenRange') THEN "alert" ELSE "full"
  IN  /\ pageFailed' = (pageShown \notin {"none", now})
      /\ pageShown' = IF pageFailed' THEN "none" ELSE now

ResetCharts ==
  IF pageFailed' \/ \E q \in Query : answers'[tokenRange'][q] = "pending"
  THEN timeView' = "daily" /\ viewMode' = "stacked"
  ELSE UNCHANGED <<timeView, viewMode>>

TokenStep == tokenSteps < MaxTokenSteps /\ tokenSteps' = tokenSteps + 1

-----------------------------------------------------------------------------
TokenInit ==
  /\ tokenRange \in TokenRange
  /\ answers = [r \in TokenRange |-> [q \in Query |-> IF q = "conversations" \/ r = tokenRange THEN "pending" ELSE "none"]]
  /\ pageShown = "full" /\ pageFailed = FALSE
  /\ timeView = "daily" /\ viewMode = "stacked" /\ showAll = FALSE
  /\ tokenSteps = 0

(* The answer or the failure, after its retries, of a query of any range.   *)
QueryEnds(r, q, value) ==
  /\ TokenStep
  /\ answers[r][q] = "pending"
  /\ answers' = IF q = "conversations" THEN WithConversations(answers, value)
                                       ELSE [answers EXCEPT ![r][q] = value]
  /\ UNCHANGED tokenRange
  /\ IF pageFailed THEN UNCHANGED <<pageShown, pageFailed>> ELSE Render
  /\ ResetCharts
  /\ showAll' = (showAll /\ ~pageFailed')

(* The date picker is outside the boundary: it works on a failed page too.  *)
ChooseRange(r) ==
  /\ TokenStep
  /\ r # tokenRange
  /\ tokenRange' = r
  /\ IF pageFailed
     THEN UNCHANGED <<answers, pageShown, pageFailed>>
     ELSE /\ answers' = [answers EXCEPT ![r] = AskedOf(@, Query \ {"conversations"})]
          /\ Render
  /\ ResetCharts
  /\ showAll' = (showAll /\ ~pageFailed')

(* The Retry of the boundary mounts the page again.                         *)
RetryPage ==
  /\ TokenStep
  /\ pageFailed
  /\ LET asked == AskedOf(answers[tokenRange], Query)
     IN  answers' = [WithConversations(answers, asked["conversations"]) EXCEPT ![tokenRange] = asked]
  /\ pageFailed' = FALSE /\ pageShown' = "full"
  /\ timeView' = "daily" /\ viewMode' = "stacked" /\ showAll' = FALSE
  /\ UNCHANGED tokenRange

ChartsUp == pageShown = "full" /\ ~isLoading

SetTimeView(v) ==
  /\ TokenStep
  /\ ChartsUp
  /\ timeView' = v
  /\ UNCHANGED <<tokenRange, answers, pageShown, pageFailed, viewMode, showAll>>

(* Without hourly figures the hourly view has no such buttons.              *)
SetViewMode(v) ==
  /\ TokenStep
  /\ ChartsUp
  /\ timeView = "daily" \/ (Has("hourly", "data") /\ tokenRange \in HasHourly)
  /\ viewMode' = v
  /\ UNCHANGED <<tokenRange, answers, pageShown, pageFailed, timeView, showAll>>

ToggleShowAll ==
  /\ TokenStep
  /\ pageShown = "full"
  /\ Len(anomalies(dailyStats)) > AlertsShown
  /\ showAll' = ~showAll
  /\ UNCHANGED <<tokenRange, answers, pageShown, pageFailed, timeView, viewMode>>

TokenNext ==
  \/ \E r \in TokenRange, q \in Query, value \in {"data", "error"} : QueryEnds(r, q, value)
  \/ \E r \in TokenRange : ChooseRange(r)
  \/ RetryPage
  \/ \E v \in {"daily", "hourly"} : SetTimeView(v)
  \/ \E v \in {"stacked", "total"} : SetViewMode(v)
  \/ ToggleShowAll

TokenSpec == TokenInit /\ [][TokenNext]_tokenVars

-----------------------------------------------------------------------------
TokenTypeOK ==
  /\ tokenRange \in TokenRange
  /\ answers \in [TokenRange -> [Query -> {"none", "pending", "data", "error"}]]
  /\ pageShown \in {"full", "alert", "none"}
  /\ pageFailed \in BOOLEAN /\ showAll \in BOOLEAN
  /\ timeView \in {"daily", "hourly"} /\ viewMode \in {"stacked", "total"}
  /\ (showAll => visibleAnomalies(dailyStats) = anomalies(dailyStats))

(* The alerts, the charts and the cards each compute their figures on their *)
(* own, and they agree: a spike of the alerts is a day the chart marks and  *)
(* the other way round, the models add up to the Total Tokens card, no      *)
(* project's tokens are lost between the slices and "Other", and, when      *)
(* there are no projects, none of the conversations either                  *)
(* (TokenEconomics.tsx 146-234, ProjectBreakdownChart.tsx 43-96).           *)
FiguresAgree ==
  /\ Spikes(dailyStats) = ChartAnomalies(dailyStats)
  /\ SumOf(modelStats(dailyStats)) = metrics(dailyStats).total
  /\ LET slices == ChartSlices(displayProjectStats)
         shown == SumOf(slices.top) + slices.other
     IN  shown = IF projectStats # <<>> THEN SumOf(projectStats)
                 ELSE SumOf([c \in conversationsKnown |-> c.tokens])

(* TokenEconomics.tsx:120 "Handle critical errors": when the stats cannot   *)
(* be had the page says "Failed to load token data" and offers to ask       *)
(* again.  A page that was loading is past that: the early return skips     *)
(* hooks that ran before, React throws, and the boundary shows its message. *)
FailureIsExplained == CriticalIn(answers, tokenRange) => pageShown = "alert"
=============================================================================
