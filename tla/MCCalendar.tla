----------------------------- MODULE MCCalendar -----------------------------
(***************************************************************************)
(* Instances of Calendar for TLC: an hour of two minutes, a day of two     *)
(* hours, a week of three days, a year of two months.                      *)
(***************************************************************************)
EXTENDS Cron, TLC

CONSTANTS a, b

\* Months of three and two days, the second one day shorter every other year
TwoMonths ==
  [y \in 0..5, m \in 0..1 |-> IF m = 0 THEN 3 ELSE 1 + (y % 2)]

TwoMonthsFrom ==
  [y \in 0..5, m \in 0..1 |-> 4 * y + (y \div 2) + 3 * m]

Every == [mon |-> Wild, mday |-> Wild, hour |-> Wild, min |-> Wild, wday |-> Wild]

\* One job with any combination of keys
EveryDict ==
  [mon : {Wild, 1, 2}, mday : {Wild, 2, 3}, hour : {Wild, 0, 1},
   min : {Wild, 0, 1}, wday : {Wild, 0, 1}]

\* Two jobs, one with two intervals that may be due together; values at and
\* beyond their limits
Coinciding ==
  {<<[Every EXCEPT !.min = 0], [Every EXCEPT !.hour = 1, !.min = 0]>>,
   <<[Every EXCEPT !.min = 1, !.wday = 3, !.mon = 0], [Every EXCEPT !.mday = 2]>>,
   <<[Every EXCEPT !.min = 2], [Every EXCEPT !.mday = 0], [Every EXCEPT !.hour = 1]>>}

Shapes ==
  {(a :> <<d>>) @@ (b :> <<>>) : d \in EveryDict}
  \cup {(a :> <<[Every EXCEPT !.min = 0, !.mday = 1]>>) @@ (b :> p) : p \in Coinciding}
=============================================================================
