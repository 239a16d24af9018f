-------------------------------- MODULE Cron --------------------------------
(***************************************************************************)
(* What a StartCalendarInterval means: the arithmetic of cronemu() and the *)
(* import of the dictionaries (core.c), for the list and its timer of      *)
(* module Calendar.  The calendar (how many minutes, hours, days and       *)
(* months there are) belongs to localtime() and mktime() and is a          *)
(* parameter.                                                              *)
(***************************************************************************)
EXTENDS Calendar, SequencesExt

CONSTANTS
  MinutesPerHour, HoursPerDay, DaysPerWeek,
  Years, Months,   \* numbered from 0
  MonthDays,       \* <<year, month>> -> its number of days
  FirstDay         \* <<year, month>> -> the days before it

\* The days of the calendar
LastMonth == <<Max(Years), Max(Months)>>
Days == FirstDay[LastMonth] + MonthDays[LastMonth]

ASSUME CronAssumption ==
  /\ \A n \in {MinutesPerHour, HoursPerDay, DaysPerWeek} : n \in Nat \ {0}
  /\ FirstDay[0, 0] = 0
  /\ \A y \in Years, m \in Months :
       LET n == IF m < Max(Months) THEN <<y, m + 1>> ELSE <<y + 1, 0>>
       IN  <<y, m>> # LastMonth => FirstDay[n] = FirstDay[y, m] + MonthDays[y, m]

Wild  == -1     \* a key the plist does not give: "wildcard"

-----------------------------------------------------------------------------
(* localtime(3) and mktime(3), without daylight saving time.               *)

MinutesPerDay == MinutesPerHour * HoursPerDay

\* Each day of the calendar as <<year, month, day of the month>>
Dates ==
  [n \in 0..(Days - 1) |->
     LET p == CHOOSE p \in Years \X Months : n - FirstDay[p] \in 0..(MonthDays[p] - 1)
     IN  <<p[1], p[2], n - FirstDay[p] + 1>>]

\* The broken-down time of each minute
BrokenDown ==
  [t \in 0..(Days * MinutesPerDay - 1) |->
     LET n == t \div MinutesPerDay
         r == t % MinutesPerDay
     IN  [year |-> Dates[n][1], mon |-> Dates[n][2], mday |-> Dates[n][3],
          wday |-> n % DaysPerWeek,
          hour |-> r \div MinutesPerHour, min |-> r % MinutesPerHour]]

localtime(t) == BrokenDown[t]

mktime(tm) ==
  (FirstDay[tm.year + tm.mon \div Cardinality(Months), tm.mon % Cardinality(Months)]
     + tm.mday - 1) * MinutesPerDay
  + tm.hour * MinutesPerHour + tm.min

\* What mktime() leaves in its argument
normal(tm) == localtime(mktime(tm))

-----------------------------------------------------------------------------
(* cronemu().  A tm is a result, Failed the return value false.            *)

Failed == [year |-> None]

cronemu_min(wtm, min) ==
  CASE min = Wild     -> wtm
    [] min < wtm.min /\ min # Wild -> Failed
    [] OTHER         -> [wtm EXCEPT !.min = min]

RECURSIVE cronemu_field(_, _, _), cron_year(_, _), cron_week(_, _)

\* Field f becomes v, and the smaller fields start again
from(wtm, f, v) ==
  [wtm EXCEPT ![f] = v,
              !.mon  = IF f = "year" THEN 0 ELSE IF f = "mon" THEN v ELSE @,
              !.mday = IF f \in {"year", "mon"} THEN 1 ELSE IF f = "mday" THEN v ELSE @,
              !.hour = IF f = "hour" THEN v ELSE 0,
              !.min  = 0]

\* (mutant) no look at what mktime() carried
carry_untested(wtm, f) == normal(from(wtm, f, wtm[f] + 1))

Carried(up, f, v) == IF up[f] # v THEN Failed ELSE up

\* One turn of a loop over field f: its next value, unless mktime() carries
\* into the larger field
carry(wtm, f) == Carried(normal(from(wtm, f, wtm[f] + 1)), f, wtm[f] + 1)

OrElse(r, tm) == IF r # Failed THEN r ELSE tm

\* cronemu_mon(), cronemu_mday() and cronemu_hour(), which are the same but
\* for their field and the function they call for the smaller one
Smaller == [mon |-> "mday", mday |-> "hour", hour |-> "min"]

cronemu_field(f, wtm, w) ==
  IF wtm = Failed THEN Failed
  ELSE IF f = "min" THEN cronemu_min(wtm, w.min)
  ELSE IF w[f] = Wild THEN
    OrElse(cronemu_field(Smaller[f], wtm, w), cronemu_field(f, carry(wtm, f), w))
  ELSE IF w[f] < wtm[f] THEN Failed
  ELSE cronemu_field(Smaller[f], IF w[f] > wtm[f] THEN from(wtm, f, w[f]) ELSE wtm, w)

\* The loop of cronemu(): year after year
cron_year(wtm, w) ==
  OrElse(cronemu_field("mon", wtm, w),
         cron_year(normal(from(wtm, "year", wtm.year + 1)), w))

\* The loop of cronemu_wday(): day after day
cron_week(wtm, w) ==
  OrElse(IF wtm.wday = w.wday % DaysPerWeek THEN cronemu_field("hour", wtm, w) ELSE Failed,
         cron_week(normal(from(wtm, "mday", wtm.mday + 1)), w))

\* Both start one minute from now, carrying nothing
next_minute(t) == [localtime(t) EXCEPT !.min = @ + 1]

cronemu(w, t)      == mktime(cron_year(next_minute(t), w))
cronemu_wday(w, t) == mktime(cron_week(next_minute(t), w))

\* calendarinterval_new_from_obj(): a dictionary of integers, Wild for a key
\* that is missing or negative; months count from 1, and month 0 is any month
LongestMonth == Max({MonthDays[y, m] : y \in Years, m \in Months})

acceptable(d) ==
  /\ d.min < MinutesPerHour /\ d.hour < HoursPerDay
  /\ d.mday # 0 /\ d.mday <= LongestMonth
  /\ d.wday <= DaysPerWeek /\ d.mon <= Cardinality(Months)

from_obj(d) == [d EXCEPT !.mon = IF @ = Wild THEN Wild ELSE @ - 1]

\* calendarinterval_setalarm(): when an interval fires next
later(w, t) ==
  IF w.wday = Wild THEN cronemu(w, t)
  ELSE IF w.mday = Wild THEN cronemu_wday(w, t)
  ELSE Min({cronemu(w, t), cronemu_wday(w, t)})

\* Those of a plist that are good
whens(dicts) ==
  LET good == SelectSeq(dicts, acceptable) IN [i \in DOMAIN good |-> from_obj(good[i])]

-----------------------------------------------------------------------------
(* Properties.                                                             *)

\* What the keys mean (crontab): every key that is given agrees with the time,
\* but a day of the month and a weekday are alternatives.
Matches(w, t) ==
  LET tm   == localtime(t)
      Day  == w.mday = tm.mday
      Week == w.wday % DaysPerWeek = tm.wday
  IN  /\ w.mon \in {Wild, tm.mon} /\ w.hour \in {Wild, tm.hour} /\ w.min \in {Wild, tm.min}
      /\ CASE w.mday = Wild /\ w.wday = Wild -> TRUE
           [] w.mday = Wild /\ w.wday # Wild -> Week
           [] w.mday # Wild /\ w.wday = Wild -> Day
           [] OTHER                        -> Day \/ Week

\* No minute that an interval asks for is passed over: whatever carries from
\* minutes to hours, days, months and years, cronemu() never returns a time
\* behind the first one that matches.
NeverSkips ==
  \A i \in DOMAIN list : \A t \in (now + 1)..(next[list[i]] - 1) :
    ~Matches(Interval(State, list[i]), t)

\* An interval that names its minute, a day every month has, and not both
\* month and weekday
Plain(w) ==
  /\ w.min # Wild /\ (w.mon = Wild \/ w.wday = Wild)
  /\ \A y \in Years, m \in Months : w.mday <= MonthDays[y, m]

\* A plain interval fires at a minute it asked for (the hand-made carries of
\* cronemu_hour, cronemu_mday and cronemu_mon).
FiresOnTime ==
  \A i \in DOMAIN list :
    LET w == Interval(State, list[i]) IN Plain(w) => Matches(w, next[list[i]])

\* cronemu() returns the first minute that the interval asks for.
NextTimeRight == NeverSkips /\ FiresOnTime
=============================================================================
