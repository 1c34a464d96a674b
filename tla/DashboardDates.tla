---------------------------- MODULE DashboardDates ----------------------------
(***************************************************************************)
(* The dates of the legacy dashboard (DateRangeContext.tsx, utils.ts) with *)
(* the picker in its header (GlobalDatePicker.tsx; DateNavigation.tsx does *)
(* the same for one chart), what is kept of them in the URL and in local   *)
(* storage, and the range of the viewer (v3-date-range.tsx).  The clock    *)
(* goes on between renders.  An instant is a number of thirds of a day of  *)
(* UTC since a Sunday; a day of the user begins Offset thirds earlier.     *)
(***************************************************************************)
EXTENDS Integers, FiniteSets

CONSTANTS Offset, NoDate, FirstInstant, MaxTicks, MaxClicks, MaxReloads

ASSUME DatesAssumption ==
  /\ Offset \in -1..1 /\ NoDate \notin Int
  /\ FirstInstant \in Nat /\ MaxTicks \in Nat /\ MaxClicks \in Nat /\ MaxReloads \in Nat

Third == 3
Preset == {"today", "week", "month"}

VARIABLES now,
          renderedAt,                   \* the instant of the last render
          selectedDate, presetRange, currentWeekStart,
          url, persisted,               \* ?date, a day of UTC; the instant in local storage
          v3preset, v3end, v3start,     \* of the viewer
          clicks, reloads

legacyDates == <<renderedAt, selectedDate, presetRange, currentWeekStart>>
v3Dates == <<v3preset, v3end, v3start>>
datesVars == <<now, legacyDates, url, persisted, v3Dates, clicks, reloads>>

(* Days of the user and of UTC; the Sunday of a day. *)
LocalDay(t) == (t + Offset) \div Third
UtcDay(t) == t \div Third
weekStart(t) == LocalDay(t) - (LocalDay(t) % 7)
weekEnd(t) == weekStart(t) + 6
isSameWeek(t, u) == weekStart(t) = weekStart(u)

(* getDateRangeForPreset: the first and the last day asked for, computed    *)
(* anew by every render.                                                    *)
getDateRangeForPreset(p, t, at) ==
  CASE p = "today"  -> <<LocalDay(at), LocalDay(at)>>
    [] p = "week"   -> <<weekStart(at), weekEnd(at)>>
    [] p = "month"  -> <<LocalDay(at) - 29, LocalDay(at)>>
    [] p = "custom" -> <<LocalDay(t), LocalDay(t)>>
dateRange == getDateRangeForPreset(presetRange, selectedDate, renderedAt)

isAtToday == LocalDay(selectedDate) >= LocalDay(renderedAt)

(* The date of the URL is midnight of UTC. *)
urlDate(u) == IF u # NoDate /\ u * Third <= now THEN u * Third ELSE NoDate

(* At most 7 full days old, and not in the future. *)
loadPersistedDate ==
  IF persisted # NoDate /\ (now - persisted) \div Third <= 7 /\ persisted <= now THEN persisted ELSE NoDate

(* The URL follows the selection, by its day of UTC. *)
UrlFor(p, t) == IF p = "custom" THEN UtcDay(t) ELSE NoDate

DatesInit ==
  /\ now = FirstInstant /\ renderedAt = now
  /\ selectedDate = now /\ presetRange = "today" /\ currentWeekStart = weekStart(now)
  /\ url = NoDate /\ persisted = NoDate
  /\ v3preset = "7d" /\ v3end = now /\ v3start = now - 7 * Third
  /\ clicks = 0 /\ reloads = 0

-----------------------------------------------------------------------------
Tick ==
  /\ now < FirstInstant + MaxTicks /\ now' = now + 1
  /\ UNCHANGED <<legacyDates, url, persisted, v3Dates, clicks, reloads>>

(* Something above the provider renders. *)
Rerender ==
  /\ renderedAt # now /\ renderedAt' = now
  /\ UNCHANGED <<now, selectedDate, presetRange, currentWeekStart, url, persisted, v3Dates, clicks, reloads>>

Click == clicks < MaxClicks /\ clicks' = clicks + 1 /\ UNCHANGED <<now, v3Dates, reloads>>

(* Faulty variant: the week is compared with the one of the clock. *)
WeekOfToday(t) == IF isSameWeek(now, t) THEN currentWeekStart ELSE weekStart(t)

(* The week's start is touched only by a move to another week. *)
WeekAfter(t) == IF isSameWeek(selectedDate, t) THEN currentWeekStart ELSE weekStart(t)

(* Another day means the preset "custom", and custom and today "today". *)
PresetAfter(t) ==
  IF LocalDay(t) # LocalDay(now) THEN "custom"
  ELSE IF presetRange = "custom" THEN "today" ELSE presetRange

setSelectedDate(t) ==
  /\ Click
  /\ selectedDate' = t /\ persisted' = t
  /\ presetRange' = PresetAfter(t)
  /\ currentWeekStart' = WeekAfter(t)
  /\ renderedAt' = now
  /\ url' = UrlFor(presetRange', t)

goBack == setSelectedDate(selectedDate - Third)

(* goForward returns at once, and its button is disabled, at today. *)
MayGoForward == ~isAtToday

goForward == MayGoForward /\ setSelectedDate(selectedDate + Third)

navigateWeek(days) ==
  /\ days > 0 => ~isAtToday
  /\ selectedDate + days * Third <= now
  /\ setSelectedDate(selectedDate + days * Third)

(* setPresetRange of the three buttons, and of goToToday after it has       *)
(* selected the date; the effect on the URL runs last.                      *)
setPresetRange(p) ==
  /\ Click
  /\ presetRange' = p /\ selectedDate' = now /\ persisted' = now
  /\ currentWeekStart' = weekStart(now)
  /\ renderedAt' = now
  /\ url' = UrlFor(p, now)

goToToday == ~isAtToday /\ setPresetRange("today")

(* Navigation inside the application leaves the parameter behind. *)
LeaveParameter ==
  /\ url # NoDate /\ url' = NoDate
  /\ UNCHANGED <<now, legacyDates, persisted, v3Dates, clicks, reloads>>

(* Faulty variant: a date of the URL that is yet to come is taken as well. *)
PageDateAny(u) == IF u # NoDate THEN u * Third ELSE loadPersistedDate

(* The URL before the storage. *)
PageDate(u) == IF urlDate(u) # NoDate THEN urlDate(u) ELSE loadPersistedDate

(* The page is loaded, with the URL it has or with one somebody sent; today *)
(* when neither it nor the storage holds a date.                            *)
LoadDates(u) ==
  /\ reloads < MaxReloads /\ reloads' = reloads + 1
  /\ selectedDate' = IF PageDate(u) # NoDate THEN PageDate(u) ELSE now
  /\ presetRange' = IF PageDate(u) # NoDate THEN "custom" ELSE "today"
  /\ currentWeekStart' = weekStart(selectedDate')
  /\ renderedAt' = now
  /\ url' = UrlFor(presetRange', selectedDate')
  /\ v3preset' = "7d" /\ v3end' = now /\ v3start' = now - 7 * Third
  /\ UNCHANGED <<now, persisted, clicks>>

(* computeRange of the viewer: at the load, and when the preset changes. *)
setV3Preset(p) ==
  /\ p # v3preset /\ v3preset' = p
  /\ v3end' = now
  /\ v3start' = now - Third * (CASE p = "24h" -> 1 [] p = "7d" -> 7 [] p = "30d" -> 30)
  /\ clicks < MaxClicks /\ clicks' = clicks + 1
  /\ UNCHANGED <<now, legacyDates, url, persisted, reloads>>

DatesNext ==
  \/ Tick \/ Rerender \/ LeaveParameter
  \/ goBack \/ goForward \/ goToToday
  \/ \E d \in {-7, 7} : navigateWeek(d)
  \/ \E p \in Preset : setPresetRange(p)
  \/ \E u \in {url} \union (UtcDay(now) - 1 .. UtcDay(now) + 1) : LoadDates(u)
  \/ \E p \in {"24h", "7d", "30d"} : setV3Preset(p)

DatesSpec == DatesInit /\ [][DatesNext]_datesVars

-----------------------------------------------------------------------------
(* Types of the variables. *)
DatesTypeOK ==
  /\ {now, renderedAt, selectedDate, currentWeekStart, v3end, v3start} \subseteq Int
  /\ presetRange \in Preset \union {"custom"} /\ v3preset \in {"24h", "7d", "30d"}
  /\ dateRange[1] <= dateRange[2] /\ renderedAt <= now /\ v3start < v3end /\ v3end <= now

(* No day to come is selected, whether by the arrows, a link or what was    *)
(* stored, and although an instant of today may be later than now           *)
(* (DateRangeContext.tsx 66-67, 98-100, 169-171, GlobalDatePicker.tsx 15).  *)
NoDayToCome == LocalDay(selectedDate) <= LocalDay(now)

(* The week that is refetched is the one of the selected date, although it  *)
(* is only touched when the date moves to another one                       *)
(* (DateRangeContext.tsx 115-118, 144-161).                                 *)
WeekOfSelected == currentWeekStart = weekStart(selectedDate)

=============================================================================
