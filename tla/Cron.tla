--------------------------------- MODULE Cron ----------------------------------
(***************************************************************************)
(* Five-field cron expressions over a small calendar.  Time is a count of  *)
(* minutes; the calendar's constants say how many make an hour, a day and  *)
(* a month.  An expression gives each field a set of terms, {} for "*".    *)
(***************************************************************************)
EXTENDS Integers, FiniteSets, FiniteSetsExt

CONSTANTS
    MinutesPerHour, HoursPerDay, DaysPerMonth, MonthsPerYear, DaysPerWeek,
    Lookback    \* CRON_LOOKBACK_DAYS_MAX

ASSUME CalendarAssumption ==
    {MinutesPerHour, HoursPerDay, DaysPerMonth, MonthsPerYear, DaysPerWeek, Lookback}
        \subseteq Nat \ {0}

MinutesPerDay == MinutesPerHour * HoursPerDay
Day(t) == t \div MinutesPerDay

Fields == {"minute", "hour", "monthDay", "month", "weekDay"}
Least(f) == IF f \in {"monthDay", "month"} THEN 1 ELSE 0
Most(f) == CASE f = "minute"   -> MinutesPerHour - 1
             [] f = "hour"     -> HoursPerDay - 1
             [] f = "monthDay" -> DaysPerMonth
             [] f = "month"    -> MonthsPerYear
             [] f = "weekDay"  -> DaysPerWeek - 1
Values(f) == Least(f) .. Most(f)

\* What the clock and the calendar show at minute t.
Shows(t) ==
  [minute   |-> t % MinutesPerHour,
   hour     |-> (t \div MinutesPerHour) % HoursPerDay,
   monthDay |-> (Day(t) % DaysPerMonth) + 1,
   month    |-> ((Day(t) \div DaysPerMonth) % MonthsPerYear) + 1,
   weekDay  |-> Day(t) % DaysPerWeek]

-----------------------------------------------------------------------------
(* Parsing.                                                                 *)

At(n) == [kind |-> "at", from |-> n, to |-> n]
Span(m, n) == [kind |-> "span", from |-> m, to |-> n]
Every(n) == [kind |-> "every", from |-> n, to |-> n]

TermOk(f, term) ==
  IF term.kind = "every"
  THEN term.from \in 1 .. Most(f)
  ELSE {term.from, term.to} \subseteq Values(f) /\ term.from <= term.to
TermValues(f, term) ==
  IF term.kind = "every"
  THEN {v \in Values(f) : (v - Least(f)) % term.from = 0}
  ELSE term.from .. term.to

Parses(expr) == \A f \in Fields : \A term \in expr[f] : TermOk(f, term)
\* Bits and the restricted flag of each field.
Parsed(expr) ==
  [f \in Fields |->
     [values |-> IF expr[f] = {} THEN Values(f)
                 ELSE UNION {TermValues(f, term) : term \in expr[f]},
      restricted |-> expr[f] # {}]]

-----------------------------------------------------------------------------
(* Matching, and the backward search.                                       *)

Hits(c, f, t) == Shows(t)[f] \in c[f].values

\* Day of month and day of week: either, when both are restricted.
MatchesDay(c, t) ==
  /\ IF c.monthDay.restricted /\ c.weekDay.restricted
     THEN Hits(c, "monthDay", t) \/ Hits(c, "weekDay", t)
     ELSE Hits(c, "monthDay", t) /\ Hits(c, "weekDay", t)
  /\ Hits(c, "month", t)
Matches(c, t) == MatchesDay(c, t) /\ Hits(c, "minute", t) /\ Hits(c, "hour", t)

\* The matching minutes of day d in (floor, at].
MinutesOf(c, d, at, floor) ==
  {t \in d * MinutesPerDay .. (d + 1) * MinutesPerDay - 1 :
     floor < t /\ t <= at /\ Hits(c, "minute", t) /\ Hits(c, "hour", t)}

\* Days from the last to the floor's own, Lookback + 1 of them at most.
DaysBack(at, floor) == {d \in Day(floor) .. Day(at) : Day(at) - d <= Lookback}

Never == -1
LatestOccurrence(c, at, after) ==
  LET floor == Max({after, at - Lookback * MinutesPerDay})
      days  == {d \in DaysBack(at, floor) :
                  /\ MatchesDay(c, d * MinutesPerDay)
                  /\ MinutesOf(c, d, at, floor) # {}}
  IN IF days = {} THEN Never ELSE Max(MinutesOf(c, Max(days), at, floor))
================================================================================
