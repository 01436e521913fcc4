------------------------------ MODULE Calendar ------------------------------
(***************************************************************************)
(* Dates as serial numbers (engine/serial.rs) and the date functions        *)
(* (engine/functions/date.rs).                                              *)
(*                                                                          *)
(* A date is a year, a month and a day of the calendar there is; a day is   *)
(* also counted from the last one of 1899.  A serial is that count, shifted *)
(* by one behind February 1900, because 60 is the day before March 1900     *)
(* which there never was.  Times of day are whole seconds.                  *)
(***************************************************************************)
EXTENDS Integers, Sequences, FiniteSets, FiniteSetsExt

CONSTANTS
    LastYear,       \* bound: the calendar's years are 1899..LastYear
    LastSerial      \* the last serial there is (2958465, the end of 9999, in the code)

ASSUME BoundsAssumption == LastYear \in Nat /\ LastYear >= 1900 /\ LastSerial \in Nat

IsLeap(y) == (y % 4 = 0 /\ y % 100 # 0) \/ y % 400 = 0

LastDayOfMonth(y, m) ==
    CASE m \in {4, 6, 9, 11} -> 30
      [] m = 2 -> IF IsLeap(y) THEN 29 ELSE 28
      [] OTHER -> 31

(* Days before the year and, within it, before the month. *)
LeapsBefore(y) == (y - 1) \div 4 - (y - 1) \div 100 + (y - 1) \div 400
YearStart(y) == 365 * (y - 1900) + LeapsBefore(y) - LeapsBefore(1900)
DaysBefore == <<0, 31, 59, 90, 120, 151, 181, 212, 243, 273, 304, 334>>
MonthStart(y, m) == YearStart(y) + DaysBefore[m] + (IF m > 2 /\ IsLeap(y) THEN 1 ELSE 0)

(* The calendar goes on for a year behind the last serial, whose year has   *)
(* four digits.                                                             *)
ASSUME CalendarAssumption == LastSerial <= YearStart(LastYear) + 1 /\ LastSerial <= YearStart(10000) + 1

(* A date's count of days: that of 1 January 1900 is 1. *)
DayCount(date) == MonthStart(date.y, date.m) + date.d

Date(y, m, d) == [y |-> y, m |-> m, d |-> d]
NoDate == Date(0, 1, 0)

DateAt(count) ==
    IF count <= YearStart(1899) \/ count > YearStart(LastYear + 1) THEN NoDate
    ELSE LET y == 1898 + Cardinality({k \in 1899..LastYear : YearStart(k) < count})
             m == Cardinality({k \in 1..12 : MonthStart(y, k) < count})
         IN Date(y, m, count - MonthStart(y, m))

(* Sunday is 0.  The last day of 1899 was one. *)
Weekday(date) == DayCount(date) % 7

----------------------------------------------------------------------------
(* Serials.                                                                 *)

Phantom == 60
NoSerial == 0

(* Count 60 is 1 March 1900. *)
DateToSerial(date) ==
    LET count == DayCount(date)
        serial == IF count >= 60 THEN count + 1 ELSE count
    IN IF date # NoDate /\ serial \in 1..LastSerial THEN serial ELSE NoSerial

SerialToDate(serial) ==
    IF serial \notin 1..LastSerial \/ serial = Phantom THEN NoDate
    ELSE DateAt(IF serial > Phantom THEN serial - 1 ELSE serial)

(* YEAR, MONTH and DAY have an answer for the phantom day too. *)
SerialToParts(serial) == IF serial = Phantom THEN Date(1900, 2, 29) ELSE SerialToDate(serial)

(* The year and month so many months on. *)
MonthsOn(y, m, months) ==
    LET total == y * 12 + (m - 1) + months IN [y |-> total \div 12, m |-> (total % 12) + 1]

(* A date in the calendar's years. *)
InYears(y) == y \in 1899..LastYear

AddMonths(serial, months) ==
    LET start == SerialToDate(serial)
        to == MonthsOn(start.y, start.m, months)
    IN IF start = NoDate \/ ~InYears(to.y) THEN NoDate
       ELSE Date(to.y, to.m, Min({start.d, LastDayOfMonth(to.y, to.m)}))

EDate(serial, months) == DateToSerial(AddMonths(serial, months))
EoMonth(serial, months) ==
    LET to == AddMonths(serial, months) IN
    IF to = NoDate THEN NoSerial ELSE DateToSerial(Date(to.y, to.m, LastDayOfMonth(to.y, to.m)))

(* DATE: months and days roll over, and the phantom day is only reached by  *)
(* its name.                                                                *)
FullYear(y) == IF y < 1900 THEN y + 1900 ELSE y
DateFromParts(y, m, d) ==
    LET to == MonthsOn(FullYear(y), 1, m - 1) IN
    IF y \notin 0..9999 \/ ~InYears(to.y) THEN NoDate
    ELSE DateAt(DayCount(Date(to.y, to.m, 1)) + d - 1)
DateOf(y, m, d) ==
    IF Date(FullYear(y), m, d) = Date(1900, 2, 29) THEN Phantom
    ELSE DateToSerial(DateFromParts(y, m, d))

----------------------------------------------------------------------------
(* DATEDIF, of a start that is not after the end.                           *)

(* The day of the one month is earlier than that of the other. *)
EarlierInYear(a, b) == a.m < b.m \/ (a.m = b.m /\ a.d < b.d)

WholeYears(start, end) == end.y - start.y - (IF EarlierInYear(end, start) THEN 1 ELSE 0)

WholeMonths(start, end) ==
    (end.y - start.y) * 12 + end.m - start.m - (IF end.d < start.d THEN 1 ELSE 0)

AddYearsClamped(date, years) ==
    Date(date.y + years, date.m, Min({date.d, LastDayOfMonth(date.y + years, date.m)}))

(* "MD" borrows from the month before the end's, and can be negative. *)
DayRemainder(start, end) ==
    IF end.d >= start.d THEN end.d - start.d
    ELSE LET before == MonthsOn(end.y, end.m, -1) IN
         end.d + LastDayOfMonth(before.y, before.m) - start.d

DateDif(start, end, unit) ==
    CASE unit = "Y" -> WholeYears(start, end)
      [] unit = "M" -> WholeMonths(start, end)
      [] unit = "D" -> DayCount(end) - DayCount(start)
      [] unit = "MD" -> DayRemainder(start, end)
      [] unit = "YM" -> WholeMonths(start, end) - 12 * WholeYears(start, end)
      [] OTHER -> DayCount(end) - DayCount(AddYearsClamped(start, WholeYears(start, end)))

(* WEEKDAY counts from Sunday, from Monday, or from Monday and zero. *)
WeekdayNumber(date, type) ==
    CASE type = 1 -> Weekday(date) + 1
      [] type = 2 -> ((Weekday(date) + 6) % 7) + 1
      [] OTHER -> (Weekday(date) + 6) % 7

----------------------------------------------------------------------------
(* Working days.                                                            *)

(* Mutant: the phantom day is a Wednesday like any other. *)
IsWorkdayBySerial(serial) == serial >= 1 /\ (serial - 1) % 7 \notin {0, 6}

IsWorkday(serial) ==
    LET date == SerialToDate(serial) IN date # NoDate /\ Weekday(date) \in 1..5

IsWorked(serial, holidays) == IsWorkday(serial) /\ serial \notin holidays

(* Both ends count, and dates the other way round count down. *)
NetWorkdays(from, to, holidays) ==
    LET low == Min({from, to})
        high == Max({from, to})
    IN (IF from <= to THEN 1 ELSE -1) * Cardinality({s \in low..high : IsWorked(s, holidays)})

(* The day that is so many working days away; the start is never counted.   *)
(* There is no answer when the walk leaves the serials: a serial below the  *)
(* first is no date, and the code stops after four million days.            *)
Workday(start, days, holidays) ==
    LET step == IF days < 0 THEN -1 ELSE 1
        walk[d \in 0..(LastSerial + 1)] == [left \in Nat |->
            IF left = 0 THEN d
            ELSE IF d + step \notin 1..LastSerial THEN NoSerial
            ELSE walk[d + step][IF IsWorked(d + step, holidays) THEN left - 1 ELSE left]]
    IN walk[start][step * days]

----------------------------------------------------------------------------
(* Fractions of a year, as a quotient.                                      *)

(* The day counts that pretend that months have thirty days. *)
Thirty360(start, end, european) ==
    LET d1 == IF european THEN Min({start.d, 30}) ELSE IF start.d = 31 THEN 30 ELSE start.d
        d2 == IF european THEN Min({end.d, 30}) ELSE IF end.d = 31 /\ d1 >= 30 THEN 30 ELSE end.d
    IN 360 * (end.y - start.y) + 30 * (end.m - start.m) + d2 - d1

DaysInYears(first, last) == YearStart(last + 1) - YearStart(first)

(* The phantom day counts like any other; basis 1 divides by the average    *)
(* length of the years touched.                                             *)
YearFrac(from, to, basis) ==
    LET low == Min({from, to})
        high == Max({from, to})
        start == SerialToParts(low)
        end == SerialToParts(high)
        years == end.y - start.y + 1
    IN CASE basis = 0 -> <<Thirty360(start, end, FALSE), 360>>
         [] basis = 4 -> <<Thirty360(start, end, TRUE), 360>>
         [] basis = 2 -> <<high - low, 360>>
         [] basis = 3 -> <<high - low, 365>>
         [] OTHER -> <<(high - low) * years, DaysInYears(start.y, end.y)>>

----------------------------------------------------------------------------
(* Times of day, in seconds.                                                *)

SecondsPerDay == 86400
NoTime == -1

TimeOf(h, m, s) ==
    LET total == 3600 * h + 60 * m + s IN IF total < 0 THEN NoTime ELSE total % SecondsPerDay

(* HOUR, MINUTE and SECOND. *)
Hms(time) == <<time \div 3600, (time % 3600) \div 60, time % 60>>

(* TIMEVALUE of a clock with or without a half of the day. *)
TimeValue(h, m, s, half) ==
    LET hour == CASE half = "none" /\ h < 24 -> h
                  [] half = "AM" /\ h = 12 -> 0
                  [] half = "PM" /\ h = 12 -> 12
                  [] half = "PM" /\ h < 12 -> h + 12
                  [] half = "AM" /\ h < 12 -> h
                  [] OTHER -> NoTime
    IN IF m > 59 \/ s > 59 \/ hour = NoTime THEN NoTime ELSE 3600 * hour + 60 * m + s

----------------------------------------------------------------------------
(* What the functions say of one another.                                   *)

(* The phantom day is none, and neither is what is no serial. *)
IsDate(serial) == SerialToDate(serial) # NoDate

(* A serial is its date and the phantom day is its name. *)
SerialIsItsDate(serial) ==
    LET parts == SerialToParts(serial) IN
    parts # NoDate =>
        /\ DateOf(parts.y, parts.m, parts.d) = serial
        /\ IsDate(serial) => DateToSerial(SerialToDate(serial)) = serial

(* A month later is in the next month, the end of a month stays the end of  *)
(* one, and DATE reaches the first of that month too.                       *)
MonthsAgree(serial, months) ==
    LET date == SerialToDate(serial)
        to == EDate(serial, months)
        end == EoMonth(serial, months)
        first == DateOf(date.y, date.m + months, 1)
    IN IsDate(serial) /\ to # NoSerial /\ end # NoSerial /\ first # NoSerial =>
        /\ first <= to /\ to <= end
        /\ SerialToDate(first).m = SerialToDate(end).m
        /\ DateOf(date.y, date.m + months + 1, 0) = end
        /\ EoMonth(end, -months) = EoMonth(serial, 0)

(* The years and the months over, the months and the days they span.        *)
DifferencesAgree(from, to) ==
    LET start == SerialToDate(from)
        end == SerialToDate(to)
        years == DateDif(start, end, "Y")
        months == DateDif(start, end, "M")
        over == DateDif(start, end, "YM")
    IN IsDate(from) /\ IsDate(to) /\ from <= to =>
        /\ over \in 0..11 /\ months = 12 * years + over
        /\ EDate(from, months) <= to
        /\ EDate(from, months + 1) = NoSerial \/ EDate(from, months + 1) >= to
        /\ DateDif(start, end, "YD") \in 0..365
        /\ DateDif(start, end, "D") = to - from - (IF from < Phantom /\ to > Phantom THEN 1 ELSE 0)

(* The day so many working days away is a working day, and counting to it   *)
(* gives that many, one more when the start is one itself.                  *)
WorkdaysAgree(from, days, holidays) ==
    LET to == Workday(from, days, holidays)
        counted == NetWorkdays(from, to, holidays)
        itself == IF IsWorked(from, holidays) THEN 1 ELSE 0
    IN days # 0 /\ to # NoSerial =>
        /\ IsWorked(to, holidays)
        /\ WeekdayNumber(SerialToDate(to), 2) \in 1..5
        /\ counted = IF days > 0 THEN days + itself ELSE days - itself

(* A whole number of months between the same days is so many twelfths of a  *)
(* year of 360 days, and the counts of days and of thirties differ by the   *)
(* months' two days at most.                                                *)
FractionsAgree(from, to) ==
    LET start == SerialToParts(from)
        end == SerialToParts(to)
        months == 12 * (end.y - start.y) + end.m - start.m
        spare == 3 + 2 * months
    IN start # NoDate /\ end # NoDate /\ from <= to =>
        /\ start.d = end.d => \A basis \in {0, 4} : YearFrac(from, to, basis) = <<30 * months, 360>>
        /\ \A basis \in {0, 4} : YearFrac(from, to, basis)[1] - (to - from) \in -spare..spare
        /\ \A basis \in 0..4 : YearFrac(to, from, basis) = YearFrac(from, to, basis)
        /\ start.y = end.y => YearFrac(from, to, 1)[2] \in {365, 366}

(* A written time is the time of its parts, twelve hours on in the second   *)
(* half of the day.                                                         *)
TimesAgree(h, m, s, half) ==
    LET written == TimeValue(h, m, s, half)
        noon == IF half = "PM" /\ h < 12 THEN 12 ELSE IF half = "AM" /\ h = 12 THEN -12 ELSE 0
    IN /\ written # NoTime => /\ written = TimeOf(h + noon, m, s)
                               /\ Hms(written) = <<h + noon, m, s>>
       /\ LET parts == Hms(TimeOf(h, m, s)) IN TimeValue(parts[1], parts[2], parts[3], "none") = TimeOf(h, m, s)

=============================================================================
