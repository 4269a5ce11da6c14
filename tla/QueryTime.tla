------------------------------ MODULE QueryTime ------------------------------
(* Time in a question (src/temporal.rs): the expressions found in its text    *)
(* and the day each of them stands for, seen from an anchor day.  Days are    *)
(* numbered from 1 January 2023, a Sunday; 0 is no date.  An expression is    *)
(*   Day(n)           yesterday, today, tomorrow          n \in -1 .. 1       *)
(*   Period(unit, n)  last, this, next week, month, year  n \in -1 .. 1       *)
(*   Weekend(n)       last, this, next weekend                                *)
(*   Apart(unit, n)   n units ago (n < 0) or from now                         *)
(*   Named(w, n)      last, this, next weekday w, Monday being 0              *)
(*   Other(unit, n)   what only the library "temps" reads, the longest run of *)
(*                    words: n days from today, in words that name the unit   *)
EXTENDS Integers, Sequences, FiniteSets

Units == {"day", "week", "month", "year"}

Day(n)          == [kind |-> "day", unit |-> "day", n |-> n]
Period(unit, n) == [kind |-> "period", unit |-> unit, n |-> n]
Weekend(n)      == [kind |-> "weekend", unit |-> "week", n |-> n]
Apart(unit, n)  == [kind |-> IF n < 0 THEN "ago" ELSE "future", unit |-> unit, n |-> n]
Named(w, n)     == [kind |-> "weekday", unit |-> "day", n |-> n, weekday |-> w]
Other(unit, n)  == [kind |-> "other", unit |-> unit, n |-> n]

\* Numbers are read up to ten, and nothing is no days ago.
Expressions ==
  {Day(n) : n \in -1 .. 1}
    \cup {Period(unit, n) : unit \in Units \ {"day"}, n \in -1 .. 1}
    \cup {Weekend(n) : n \in -1 .. 1}
    \cup {Apart(unit, n) : unit \in Units, n \in (-10 .. 10) \ {0}}
    \cup {Named(w, n) : w \in 0 .. 6, n \in -1 .. 1}
    \cup [kind : {"other"}, unit : Units, n : Int]

(* -------------------- the calendar (the library chrono) ------------------- *)

Leap(y) == y % 4 = 0 /\ (y % 100 # 0 \/ y % 400 = 0)
DaysBefore(y) == 365 * (y - 2023) + (y - 1) \div 4 - 2022 \div 4
                 - ((y - 1) \div 100 - 2022 \div 100) + ((y - 1) \div 400 - 2022 \div 400)

\* The days of year y before the month m.
DaysToMonth(y, m) ==
  <<0, 31, 59, 90, 120, 151, 181, 212, 243, 273, 304, 334, 365>>[m]
    + (IF m > 2 /\ Leap(y) THEN 1 ELSE 0)

Date(y, m, d) == DaysBefore(y) + DaysToMonth(y, m) + d

\* The date of a day: four hundred years have 146097 days.
Civil(date) ==
  LET guess == 2023 + (400 * (date - 1)) \div 146097
      y == CHOOSE y \in guess - 1 .. guess + 1 : DaysBefore(y) < date /\ date <= DaysBefore(y + 1)
      inYear == date - DaysBefore(y)
      m == CHOOSE m \in 1 .. 12 : DaysToMonth(y, m) < inYear /\ inYear <= DaysToMonth(y, m + 1)
  IN  [year |-> y, month |-> m, day |-> inYear - DaysToMonth(y, m)]

Year(date) == Civil(date).year
Month(date) == Civil(date).month
DayOfMonth(date) == Civil(date).day
Weekday(date) == (date + 5) % 7
WeekStart(date) == date - Weekday(date)     \* current_week_start

(* --------------------------- from phrase to date -------------------------- *)

LastDayOfMonth(y, m) == DaysToMonth(y, m + 1) - DaysToMonth(y, m)

\* A day the month does not have becomes its last one.
OnDay(y, m, base) ==
  LET last == LastDayOfMonth(y, m)
  IN  Date(y, m, IF DayOfMonth(base) < last THEN DayOfMonth(base) ELSE last)

MonthsOf(date) == 12 * Year(date) + Month(date) - 1

\* The day of the month is kept, into the next month if need be.
ShiftMonths_Unclipped(base, n) ==
  LET months == MonthsOf(base) + n
  IN  Date(months \div 12, (months % 12) + 1, DayOfMonth(base))

ShiftMonths(base, n) ==
  LET months == MonthsOf(base) + n
  IN  OnDay(months \div 12, (months % 12) + 1, base)

ShiftYears(base, n) == OnDay(Year(base) + n, Month(base), base)

Shift(base, unit, n) ==
  CASE unit = "day" -> base + n
    [] unit = "week" -> base + 7 * n
    [] unit = "month" -> ShiftMonths(base, n)
    [] unit = "year" -> ShiftYears(base, n)

\* resolve_weekday: "last" is the one before today, a week ago if that is today.
ResolveWeekday(base, w, n) ==
  LET back == (Weekday(base) - w) % 7
  IN  IF n >= 0 THEN WeekStart(base) + 7 * n + w
      ELSE base - (IF back = 0 THEN 7 ELSE back)

\* resolve_weekend: its Saturday; the Sunday is the day after.
ResolveWeekend(base, n) == WeekStart(base) + 7 * n + 5

WindowDays(unit) ==
  CASE unit = "day" -> 2 [] unit = "week" -> 7 [] unit = "month" -> 14 [] unit = "year" -> 30

\* The day an expression stands for.  What "temps" reads is as many days from
\* the anchor as it is from today.
DayOf(p, base) ==
  CASE p.kind = "weekday" -> ResolveWeekday(base, p.weekday, p.n)
    [] p.kind = "other" -> base + p.n
    [] OTHER -> Shift(base, p.unit, p.n)

\* The expressions that are looked for in this order, wherever they stand, and
\* the kinds that are looked for after them, the first of each.
FixedPhrases ==
  <<Day(0), Day(-1), Day(1),
    Period("week", -1), Period("week", 0), Period("week", 1),
    Period("month", -1), Period("month", 0), Period("month", 1),
    Period("year", -1), Period("year", 0), Period("year", 1)>>
LaterKinds == <<"ago", "future", "weekday", "other">>

\* Text is searched for "last week", which "last weekend" begins with.
SaidIn(phrases, phrase) ==
  \E i \in DOMAIN phrases :
    phrases[i] = phrase \/ (phrases[i].kind = "weekend" /\ phrase = Period("week", phrases[i].n))

OfKind(phrases, kind) == {i \in DOMAIN phrases : phrases[i].kind = kind}
Least(S) == CHOOSE i \in S : \A j \in S : i <= j

\* resolve_temporal_target.  A weekend is never reached: its week was found
\* before.
ResolveTarget(phrases, base) ==
  LET fixed == {i \in DOMAIN FixedPhrases : SaidIn(phrases, FixedPhrases[i])}
      kinds == {k \in DOMAIN LaterKinds : OfKind(phrases, LaterKinds[k]) # {}}
      p     == IF fixed # {} THEN FixedPhrases[Least(fixed)]
               ELSE phrases[Least(OfKind(phrases, LaterKinds[Least(kinds)]))]
  IN  IF fixed = {} /\ kinds = {} THEN [date |-> 0, window |-> 0]
      ELSE [date |-> DayOf(p, base), window |-> WindowDays(p.unit)]

(* ---------------------------- words for a date ---------------------------- *)

\* push_date_tokens
DateTokens(label, date) ==
  {<<"weekday", label, Weekday(date)>>, <<"month", label, Month(date)>>,
   <<"day", label, DayOfMonth(date)>>, <<"month and weekday", Month(date), Weekday(date)>>}

\* temporal_markers: a number of days, weeks, months or years ago.
MarkerTokens(phrases) ==
  IF \E i \in DOMAIN phrases : phrases[i].kind = "ago" /\ phrases[i].n < -1
  THEN {<<"relative temporal">>} ELSE {}

\* A weekend has two days.
SpokenDays(p, base) ==
  IF p.kind = "weekend" THEN {ResolveWeekend(base, p.n), ResolveWeekend(base, p.n) + 1}
  ELSE {DayOf(p, base)}

\* augment_query_with_temporal_context: words for the days of every expression
\* but those only "temps" reads.
AugmentTokens(phrases, base) ==
  LET said == {FixedPhrases[i] : i \in {j \in DOMAIN FixedPhrases : SaidIn(phrases, FixedPhrases[j])}}
              \cup {phrases[i] : i \in {j \in DOMAIN phrases : phrases[j].kind # "other"}}
  IN  MarkerTokens(phrases)
      \cup UNION {UNION {DateTokens(p, d) : d \in SpokenDays(p, base)} : p \in said}

\* extract_temporal_terms: words for the date of a document, and for what its
\* headings and text say: dates, days of a month, days of the week, times ago.
OfDocument == [kind |-> "date", unit |-> "day", n |-> 0]
TemporalTerms(timestamp, text) ==
  (IF timestamp = 0 THEN {}
   ELSE DateTokens(OfDocument, timestamp)
          \cup {<<"weekday", Weekday(timestamp)>>, <<"month", Month(timestamp)>>,
                <<"year", Year(timestamp)>>})
  \cup (UNION {DateTokens(OfDocument, d) : d \in text.dates})
  \cup (UNION {{<<"month", md[1]>>, <<"day", md[2]>>, <<"month and day", md[1], md[2]>>} :
                 md \in text.monthDays})
  \cup {<<"weekday", w>> : w \in text.weekdays} \cup MarkerTokens(text.phrases)
=============================================================================
