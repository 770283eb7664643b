---------------------------------- MODULE Times ----------------------------------
(***************************************************************************)
(* src/util/avTime.c: the order of dates, and durations added to them and  *)
(* taken away.  mktime and localtime are external; here a year has the     *)
(* months of MonthDays, and the clock is never changed.                    *)
(***************************************************************************)
EXTENDS Integers, Sequences, FiniteSets, SequencesExt

CONSTANTS MonthDays,    (* the days of each month: a sequence               *)
          HoursPerDay, MinutesPerHour, SecondsPerMinute,
          Years         (* bound: the years 0..Years-1 of the dates         *)

(* Every month has a day, and every day a second.                          *)
ASSUME CalendarIsCounted ==
    /\ MonthDays \in Seq(Nat \ {0}) /\ MonthDays # <<>>
    /\ HoursPerDay \in Nat \ {0} /\ MinutesPerHour \in Nat \ {0} /\ SecondsPerMinute \in Nat \ {0}
    /\ Years \in Nat

VARIABLES first, second (* two AvDateTime that were told apart              *)

timeVars == <<first, second>>

Months == Len(MonthDays)
Total(days) == FoldLeft(LAMBDA n, d : n + d, 0, days)
YearDays == Total(MonthDays)
TicksPerDay == HoursPerDay * MinutesPerHour * SecondsPerMinute

Dates ==
    {[year |-> y, month |-> m, day |-> d, hour |-> h, minute |-> n, second |-> s] :
        y \in 0..(Years - 1), m \in 1..Months, d \in 1..Max({MonthDays[m] : m \in 1..Months}),
        h \in 0..(HoursPerDay - 1), n \in 0..(MinutesPerHour - 1), s \in 0..(SecondsPerMinute - 1)}
IsDate(a) == a.day <= MonthDays[a.month]

(* mktime: a month out of range moves the year, what else is out of range  *)
(* the number.  Ticks are the seconds of a clock.                          *)
Ticks(h, n, s) == (h * MinutesPerHour + n) * SecondsPerMinute + s
Tick(a) == Ticks(a.hour, a.minute, a.second)
ToNumber(y, m, d, t) ==
    ((y + (m - 1) \div Months) * YearDays + Total(SubSeq(MonthDays, 1, (m - 1) % Months)) + d - 1) * TicksPerDay + t

(* localtime *)
FromNumber(n) ==
    LET days == n \div TicksPerDay
        inYear == days % YearDays
        clock == n % TicksPerDay
        month == CHOOSE m \in 1..Months :
                     Total(SubSeq(MonthDays, 1, m - 1)) <= inYear /\ inYear < Total(SubSeq(MonthDays, 1, m))
    IN  [year |-> days \div YearDays, month |-> month,
         day |-> inYear - Total(SubSeq(MonthDays, 1, month - 1)) + 1,
         hour |-> (clock \div SecondsPerMinute) \div MinutesPerHour,
         minute |-> (clock \div SecondsPerMinute) % MinutesPerHour,
         second |-> clock % SecondsPerMinute]

(* avTimeConvertToNumber, avTimeConvertFromNumber are these two.           *)
Number(a) == ToNumber(a.year, a.month, a.day, Tick(a))

(* avTimeAdd, avTimeSub: the month of a duration counts from 1.            *)
TimeAdd(a, b) ==
    FromNumber(ToNumber(a.year + b.year, a.month + b.month - 1, a.day + b.day,
                        Ticks(a.hour + b.hour, a.minute + b.minute, a.second + b.second)))
TimeSub(a, b) ==
    FromNumber(ToNumber(a.year - b.year, a.month - (b.month - 1), a.day - b.day,
                        Ticks(a.hour - b.hour, a.minute - b.minute, a.second - b.second)))

(* avTimeIsEqual compares all bytes of the two, with one that belongs to   *)
(* no field: equal dates differ when that byte does.                       *)
Differ(a, b, padding) == a # b \/ padding

(* avTimeIsBefore: any field that is less decides.                         *)
Fields == {"year", "month", "day", "hour", "minute", "second"}
IsBefore(a, b, padding) == Differ(a, b, padding) /\ \E f \in Fields : a[f] < b[f]

(* avTimeIsAfter *)
IsAfter(a, b, padding) == Differ(a, b, padding) /\ ~IsBefore(a, b, padding)

TimeInit == first \in {a \in Dates : IsDate(a)} /\ second \in {a \in Dates : IsDate(a)}

(* A date as a duration: no days are day 1 of a date.                      *)
Duration(a) == [a EXCEPT !.day = @ - 1]

TimeNext ==
    /\ \/ first' = FromNumber(Number(first))
       \/ first' = TimeAdd(first, Duration(second))
       \/ first' = TimeSub(first, Duration(second))
    /\ first'.year \in 0..(Years - 1)
    /\ UNCHANGED second

--------------------------------------------------------------------------------

(* An earlier date is always before a later one, and what is after is not *)
(* earlier; it is really later when the two have the same padding.  What   *)
(* is before need not be earlier: each of two dates can be before the      *)
(* other.                                                                  *)
OrderIsOneSided ==
    \A padding \in BOOLEAN :
        /\ Number(first) < Number(second) => IsBefore(first, second, padding)
        /\ IsAfter(first, second, padding) /\ ~(padding /\ first = second) => Number(first) > Number(second)

(* What was added can be taken away again when it is less than a month, or *)
(* only months and years, and the day exists in the month that is reached. *)
RoundTrips ==
    LET b == Duration(second)
        month == ((first.month + b.month - 2) % Months) + 1
    IN  /\ FromNumber(Number(first)) = first
        /\ \/ b.year = 0 /\ b.month = 1
           \/ b.day = 0 /\ Tick(b) = 0 /\ first.day <= MonthDays[month]
           => TimeSub(TimeAdd(first, b), b) = first

TimeSound == OrderIsOneSided /\ RoundTrips
================================================================================
