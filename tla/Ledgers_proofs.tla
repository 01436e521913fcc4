----------------------------- MODULE Ledgers_proofs -----------------------------
(***************************************************************************)
(* What the trials rest on.  The calendar: what its functions say of one    *)
(* another, for any serials, months, days and holidays.  The planners: what *)
(* a policy makes of any plan and any table, and what the rules and the     *)
(* router do with any request.  And what the ledgers keep: the limiter's    *)
(* table, for any number of callers, requests and ticks; that of the        *)
(* routines, for any nights and any order of the miner's statements and     *)
(* users' answers; and a page's log, for any readings of its clock and any  *)
(* number of events.                                                        *)
(***************************************************************************)
EXTENDS Ledgers, Calendar, Planners, FiniteSetTheorems, WellFoundedInduction, TLAPS

----------------------------------------------------------------------------
(* Numbers.                                                                 *)

(* Of some numbers one is the least. *)
LEMMA LeastNumber ==
    ASSUME NEW S, S \subseteq Nat, S # {}
    PROVE  \E x \in S : \A y \in S : x <= y
<1> DEFINE R == {ss \in Nat \X Nat : ss[1] < ss[2]}
<1>1. IsWellFoundedOn(R, Nat)
  BY NatLessThanWellFounded DEF OpToRel
<1>2. \A x, y \in Nat : y < x => <<y, x>> \in R
  OBVIOUS
<1> HIDE DEF R
<1>3. PICK x \in S : \A y \in S : ~(<<y, x>> \in R)
  BY <1>1, WFMin
<1>4. \A y \in S : ~(y < x)
  BY <1>2, <1>3
<1>5. \A y \in S : x <= y
  BY <1>4
<1> QED
  BY <1>5

(* What is so at first and goes on from each place to the next is so up to  *)
(* the last.                                                                *)
LEMMA GoesOn ==
    ASSUME NEW lo \in Nat, NEW hi \in Nat, NEW S, lo \in S,
           \A k \in lo..(hi - 1) : k \in S => k + 1 \in S
    PROVE  lo..hi \subseteq S
<1> DEFINE Bad == {k \in lo..hi : k \notin S}
<1> SUFFICES ASSUME Bad # {} PROVE FALSE
  OBVIOUS
<1>1. Bad \subseteq Nat
  OBVIOUS
<1> HIDE DEF Bad
<1>2. PICK k \in Bad : \A j \in Bad : k <= j
  BY <1>1, LeastNumber
<1> USE DEF Bad
<1>3. k \in lo..hi /\ k # lo /\ k \notin S
  BY <1>2
<1>4. k - 1 \in lo..(hi - 1) /\ (k - 1) + 1 = k /\ k - 1 < k /\ k - 1 \in Int /\ k \in Int
  BY <1>3
<1>5. k - 1 \notin S
  BY <1>3, <1>4
<1>6. k - 1 \in Bad
  BY <1>3, <1>4, <1>5
<1>7. k <= k - 1
  <2> HIDE DEF Bad
  <2> QED
    BY <1>2, <1>6
<1> QED
  BY <1>4, <1>7

----------------------------------------------------------------------------
(* Dates.                                                                   *)

(* A month is numbered by the months before it since year 0: its year, its  *)
(* month of the year, the count of days before it and its length.           *)
YearOf(t) == t \div 12
MonthOf(t) == (t % 12) + 1
Begins(t) == MonthStart(YearOf(t), MonthOf(t))
Length(t) == LastDayOfMonth(YearOf(t), MonthOf(t))

(* A year has 365 days, or one more.                                        *)
LEMMA YearsHaveDays ==
    ASSUME NEW y \in Int
    PROVE  /\ YearStart(y) \in Int
           /\ YearStart(y + 1) = YearStart(y) + (IF IsLeap(y) THEN 366 ELSE 365)
<1> DEFINE f(n) == IF y % n = 0 THEN 1 ELSE 0
<1>1. y \div 4 = (y - 1) \div 4 + f(4) /\ (y - 1) \div 4 \in Int
  OBVIOUS
<1>2. y \div 100 = (y - 1) \div 100 + f(100) /\ (y - 1) \div 100 \in Int
  OBVIOUS
<1>3. y \div 400 = (y - 1) \div 400 + f(400) /\ (y - 1) \div 400 \in Int
  OBVIOUS
<1>4. LeapsBefore(1900) \in Int
  BY DEF LeapsBefore
<1>5. LeapsBefore(y) \in Int /\ LeapsBefore(y + 1) = LeapsBefore(y) + f(4) - f(100) + f(400)
  <2>1. (y + 1) - 1 = y
    OBVIOUS
  <2> QED
    BY <1>1, <1>2, <1>3, <2>1 DEF LeapsBefore
<1>6. f(4) - f(100) + f(400) = IF IsLeap(y) THEN 1 ELSE 0
  <2>1. (y % 400 = 0 => y % 100 = 0) /\ (y % 100 = 0 => y % 4 = 0)
    OBVIOUS
  <2> QED
    BY <2>1 DEF IsLeap
<1> HIDE DEF f
<1>7. LeapsBefore(y + 1) = LeapsBefore(y) + (IF IsLeap(y) THEN 1 ELSE 0)
  <2>1. f(4) \in Int /\ f(100) \in Int /\ f(400) \in Int
    BY DEF f
  <2> QED
    BY <1>5, <1>6, <2>1
<1>8. (y + 1) - 1900 = (y - 1900) + 1 /\ y - 1900 \in Int
  OBVIOUS
<1> QED
  BY <1>4, <1>5, <1>7, <1>8 DEF YearStart

(* The calendar's first years. *)
LEMMA FirstYears ==
    YearStart(1899) = -365 /\ YearStart(1900) = 0 /\ ~IsLeap(1900)
<1>1. YearStart(1900) = 0
  <2>1. LeapsBefore(1900) \in Int
    BY DEF LeapsBefore
  <2> QED
    BY <2>1 DEF YearStart
<1>2. ~IsLeap(1899) /\ ~IsLeap(1900)
  BY DEF IsLeap
<1>3. YearStart(1899) \in Int /\ YearStart(1900) = YearStart(1899) + 365
  BY <1>2, YearsHaveDays
<1> QED
  BY <1>1, <1>2, <1>3

(* A month of a year begins where the one before ends. *)
LEMMA MonthsOfAYear ==
    ASSUME NEW y \in Int, NEW m \in 1..12
    PROVE  /\ MonthStart(y, m) \in Int /\ MonthStart(y, 1) = YearStart(y)
           /\ LastDayOfMonth(y, m) \in 28..31
           /\ m < 12 => MonthStart(y, m + 1) = MonthStart(y, m) + LastDayOfMonth(y, m)
           /\ MonthStart(y, 12) + LastDayOfMonth(y, 12) = YearStart(y + 1)
<1>1. YearStart(y) \in Int /\ YearStart(y + 1) = YearStart(y) + (IF IsLeap(y) THEN 366 ELSE 365)
  BY YearsHaveDays
<1>2. /\ DaysBefore[1] = 0 /\ DaysBefore[2] = 31 /\ DaysBefore[3] = 59 /\ DaysBefore[4] = 90
      /\ DaysBefore[5] = 120 /\ DaysBefore[6] = 151 /\ DaysBefore[7] = 181 /\ DaysBefore[8] = 212
      /\ DaysBefore[9] = 243 /\ DaysBefore[10] = 273 /\ DaysBefore[11] = 304 /\ DaysBefore[12] = 334
  BY DEF DaysBefore
<1>3. \/ m = 1 \/ m = 2 \/ m = 3 \/ m = 4 \/ m = 5 \/ m = 6
      \/ m = 7 \/ m = 8 \/ m = 9 \/ m = 10 \/ m = 11 \/ m = 12
  OBVIOUS
<1>4. DaysBefore[m] \in Int
  BY <1>2, <1>3
<1>5. LastDayOfMonth(y, m) = IF m \in {4, 6, 9, 11} THEN 30 ELSE IF m = 2 THEN (IF IsLeap(y) THEN 29 ELSE 28) ELSE 31
  BY DEF LastDayOfMonth
<1>6. LastDayOfMonth(y, 12) = 31
  BY DEF LastDayOfMonth
<1>7. m < 12 => DaysBefore[m + 1] \in Int /\ DaysBefore[m + 1] =
        DaysBefore[m] + (IF m \in {4, 6, 9, 11} THEN 30 ELSE IF m = 2 THEN 28 ELSE 31)
  BY <1>2, <1>3
<1>8. MonthStart(y, m) \in Int
  BY <1>1, <1>4 DEF MonthStart
<1>9. MonthStart(y, 1) = YearStart(y)
  BY <1>1, <1>2 DEF MonthStart
<1>10. LastDayOfMonth(y, m) \in 28..31
  BY <1>5
<1>11. m < 12 => MonthStart(y, m + 1) = MonthStart(y, m) + LastDayOfMonth(y, m)
  BY <1>1, <1>3, <1>4, <1>5, <1>7 DEF MonthStart
<1>12. MonthStart(y, 12) + LastDayOfMonth(y, 12) = YearStart(y + 1)
  BY <1>1, <1>2, <1>6 DEF MonthStart
<1> QED
  BY <1>8, <1>9, <1>10, <1>11, <1>12

(* The number of a month, and its year and month. *)
LEMMA MonthNumber ==
    ASSUME NEW t \in Int
    PROVE  /\ YearOf(t) \in Int /\ MonthOf(t) \in 1..12
           /\ t = 12 * YearOf(t) + MonthOf(t) - 1
BY DEF YearOf, MonthOf

(* A month of a year has its year and its month back. *)
LEMMA NumberOfMonth ==
    ASSUME NEW y \in Int, NEW m \in 1..12
    PROVE  YearOf(12 * y + m - 1) = y /\ MonthOf(12 * y + m - 1) = m
BY DEF YearOf, MonthOf

(* Each month begins where the one before ends, and has 28 to 31 days. *)
LEMMA MonthsFollow ==
    ASSUME NEW t \in Int
    PROVE  /\ Begins(t) \in Int /\ Length(t) \in 28..31 /\ Begins(t + 1) = Begins(t) + Length(t)
<1> DEFINE y == YearOf(t)
           m == MonthOf(t)
<1>1. y \in Int /\ m \in 1..12 /\ t = 12 * y + m - 1
  BY MonthNumber
<1> HIDE DEF y, m
<1>2. Begins(t) = MonthStart(y, m) /\ Length(t) = LastDayOfMonth(y, m)
  BY DEF Begins, Length, y, m
<1>3. CASE m < 12
  <2>1. m + 1 \in 1..12 /\ t + 1 = 12 * y + (m + 1) - 1
    BY <1>1, <1>3
  <2>2. Begins(t + 1) = MonthStart(y, m + 1)
    BY <1>1, <2>1, NumberOfMonth DEF Begins
  <2> QED
    BY <1>1, <1>2, <1>3, <2>2, MonthsOfAYear
<1>4. CASE m = 12
  <2>1. t + 1 = 12 * (y + 1) + 1 - 1 /\ y + 1 \in Int
    BY <1>1, <1>4
  <2>2. Begins(t + 1) = MonthStart(y + 1, 1)
    BY <2>1, NumberOfMonth DEF Begins
  <2>3. MonthStart(y + 1, 1) = YearStart(y + 1)
    BY <2>1, MonthsOfAYear
  <2> QED
    BY <1>1, <1>2, <1>4, <2>2, <2>3, MonthsOfAYear
<1> QED
  BY <1>1, <1>3, <1>4

(* So many months are that many times 28 to 31 days. *)
LEMMA MonthsApart ==
    ASSUME NEW t \in Nat, NEW u \in Nat, t <= u
    PROVE  Begins(u) - Begins(t) \in (28 * (u - t))..(31 * (u - t))
<1> DEFINE S == {k \in t..u : Begins(k) - Begins(t) \in (28 * (k - t))..(31 * (k - t))}
<1>1. t \in S
  BY MonthsFollow
<1>2. ASSUME NEW k \in t..(u - 1), k \in S
      PROVE  k + 1 \in S
  <2>1. Begins(k) \in Int /\ Begins(t) \in Int /\ Length(k) \in 28..31 /\ Begins(k + 1) = Begins(k) + Length(k)
    BY MonthsFollow
  <2>2. Begins(k) - Begins(t) \in (28 * (k - t))..(31 * (k - t))
    BY <1>2
  <2>3. k + 1 \in t..u
    OBVIOUS
  <2> QED
    BY <2>1, <2>2, <2>3
<1> HIDE DEF S
<1>3. t..u \subseteq S
  BY <1>1, <1>2, GoesOn
<1> QED
  BY <1>3 DEF S

(* A day is in one month only. *)
LEMMA OneMonth ==
    ASSUME NEW t \in Nat, NEW u \in Nat, NEW d \in 1..Length(t), NEW e \in 1..Length(u)
    PROVE  Begins(t) + d <= Begins(u) + e <=> t < u \/ (t = u /\ d <= e)
<1>1. ASSUME NEW v \in Nat, NEW w \in Nat, v < w, NEW g \in 1..Length(v), NEW h \in 1..Length(w)
      PROVE  Begins(v) + g < Begins(w) + h
  <2>1. Begins(v) \in Int /\ Length(v) \in 28..31 /\ Begins(v + 1) = Begins(v) + Length(v) /\ Begins(w) \in Int
        /\ Length(w) \in 28..31
    BY MonthsFollow
  <2>2. Begins(w) - Begins(v + 1) \in (28 * (w - (v + 1)))..(31 * (w - (v + 1)))
    <3>1. v + 1 \in Nat /\ v + 1 <= w
      BY <1>1
    <3> QED
      BY <3>1, MonthsApart
  <2>3. Begins(w) >= Begins(v + 1)
    BY <1>1, <2>1, <2>2
  <2> QED
    BY <2>1, <2>3
<1>2. Begins(t) \in Int /\ Begins(u) \in Int /\ Length(t) \in 28..31 /\ Length(u) \in 28..31
  BY MonthsFollow
<1>3. CASE t < u
  BY <1>1, <1>2, <1>3
<1>4. CASE u < t
  <2>1. Begins(u) + e < Begins(t) + d
    BY <1>1, <1>4
  <2> QED
    BY <1>2, <1>4, <2>1
<1>5. CASE t = u
  BY <1>2, <1>5
<1> QED
  BY <1>3, <1>4, <1>5


(* Months begin in their order, and a day between the beginnings of two is  *)
(* in a month between them.                                                 *)
LEMMA MonthsAscend ==
    ASSUME NEW t \in Nat, NEW u \in Nat, t <= u
    PROVE  Begins(t) <= Begins(u)
<1>1. Begins(u) - Begins(t) \in (28 * (u - t))..(31 * (u - t)) /\ Begins(u) \in Int /\ Begins(t) \in Int
  BY MonthsApart, MonthsFollow
<1> QED
  BY <1>1

(* A count after the beginning of one month and not after that of another   *)
(* is a day of a month between them.                                        *)
LEMMA SomeMonth ==
    ASSUME NEW lo \in Nat, NEW hi \in Nat, NEW count \in Int, Begins(lo) < count, count <= Begins(hi)
    PROVE  \E t \in Nat : lo <= t /\ t < hi /\ Begins(t) < count /\ count <= Begins(t + 1)
<1> DEFINE S == {k \in Nat : k >= lo /\ count <= Begins(k)}
<1>1. hi >= lo
  <2> SUFFICES ASSUME hi < lo PROVE FALSE
    OBVIOUS
  <2>1. Begins(hi) <= Begins(lo) /\ Begins(hi) \in Int /\ Begins(lo) \in Int
    BY MonthsAscend, MonthsFollow
  <2> QED
    BY <2>1
<1>2. hi \in S /\ S \subseteq Nat
  BY <1>1
<1>3. PICK k \in S : \A j \in S : k <= j
  <2> HIDE DEF S
  <2> QED
    BY <1>2, LeastNumber
<1>4. k \in Nat /\ k >= lo /\ count <= Begins(k) /\ k <= hi
  BY <1>2, <1>3
<1>5. k # lo
  <2>1. Begins(lo) \in Int
    BY MonthsFollow
  <2> QED
    BY <1>4, <2>1
<1>6. k - 1 \in Nat /\ k - 1 >= lo /\ k - 1 < k /\ (k - 1) + 1 = k /\ k - 1 < hi
  BY <1>4, <1>5
<1>7. ~(count <= Begins(k - 1))
  <2> SUFFICES ASSUME count <= Begins(k - 1) PROVE FALSE
    OBVIOUS
  <2>1. k - 1 \in S
    BY <1>6
  <2>2. k <= k - 1
    BY <1>3, <2>1
  <2> QED
    BY <1>4, <2>2
<1>8. Begins(k - 1) < count
  <2>1. Begins(k - 1) \in Int
    BY <1>6, MonthsFollow
  <2> QED
    BY <1>7, <2>1
<1> QED
  BY <1>4, <1>6, <1>8

(* The first numbers of a range are counted. *)
LEMMA FirstAreCounted ==
    ASSUME NEW a \in Nat, NEW b \in Nat, a <= b + 1
    PROVE  Cardinality(a..b) = b - a + 1
<1>1. Cardinality(a..b) = IF a > b THEN 0 ELSE b - a + 1
  BY FS_Interval
<1> QED
  BY <1>1

(* The days of the calendar. *)
IsDay(date) ==
    /\ date = Date(date.y, date.m, date.d)
    /\ date.y \in 1899..LastYear /\ date.m \in 1..12 /\ date.d \in 1..LastDayOfMonth(date.y, date.m)

(* The number of a date's month. *)
IndexOf(date) == 12 * date.y + date.m - 1

(* A day has a month and a place in it. *)
LEMMA DayIsPlaced ==
    ASSUME NEW date, IsDay(date)
    PROVE  /\ IndexOf(date) \in Nat /\ YearOf(IndexOf(date)) = date.y /\ MonthOf(IndexOf(date)) = date.m
           /\ date.y \in Nat /\ date.m \in 1..12 /\ date.d \in 1..Length(IndexOf(date)) /\ date.d \in 1..31
           /\ DayCount(date) = Begins(IndexOf(date)) + date.d
           /\ DayCount(date) \in Int /\ Begins(IndexOf(date)) \in Int /\ Length(IndexOf(date)) \in 28..31
<1>1. date.y \in Nat /\ date.m \in 1..12
  BY BoundsAssumption DEF IsDay
<1>2. IndexOf(date) \in Nat /\ YearOf(IndexOf(date)) = date.y /\ MonthOf(IndexOf(date)) = date.m
  <2> DEFINE y == date.y
             m == date.m
  <2>1. y \in Nat /\ y \in Int /\ m \in 1..12 /\ IndexOf(date) = 12 * y + m - 1
    BY <1>1 DEF IndexOf
  <2> HIDE DEF y, m
  <2>2. YearOf(12 * y + m - 1) = y /\ MonthOf(12 * y + m - 1) = m
    BY <2>1, NumberOfMonth
  <2>3. 12 * y + m - 1 \in Nat
    BY <2>1
  <2> QED
    BY <2>1, <2>2, <2>3 DEF y, m
<1>3. date.d \in 1..Length(IndexOf(date))
  BY <1>2 DEF Length, IsDay
<1>4. Begins(IndexOf(date)) \in Int /\ Length(IndexOf(date)) \in 28..31
  BY <1>2, MonthsFollow
<1>5. DayCount(date) = Begins(IndexOf(date)) + date.d
  BY <1>2 DEF Begins, DayCount
<1>6. date.d \in Int /\ date.d \in 1..31
  BY <1>3, <1>4
<1> QED
  BY <1>1, <1>2, <1>3, <1>4, <1>5, <1>6

(* A day of a month in the calendar's years. *)
LEMMA PlacedIsDay ==
    ASSUME NEW t \in Nat, InYears(YearOf(t)), NEW d \in 1..Length(t)
    PROVE  /\ IsDay(Date(YearOf(t), MonthOf(t), d)) /\ IndexOf(Date(YearOf(t), MonthOf(t), d)) = t
           /\ Date(YearOf(t), MonthOf(t), d).d = d
<1> DEFINE date == Date(YearOf(t), MonthOf(t), d)
<1>1. date.y = YearOf(t) /\ date.m = MonthOf(t) /\ date.d = d
  BY DEF Date
<1>2. MonthOf(t) \in 1..12 /\ t = 12 * YearOf(t) + MonthOf(t) - 1
  BY MonthNumber
<1> HIDE DEF date
<1>3. IndexOf(date) = t
  BY <1>1, <1>2 DEF IndexOf
<1>4. IsDay(date)
  <2>1. date = Date(date.y, date.m, date.d)
    BY <1>1 DEF date
  <2> QED
    BY <1>1, <1>2, <2>1 DEF IsDay, InYears, Length
<1> QED
  BY <1>1, <1>3, <1>4 DEF date

(* Days are in the order of their counts, and no two have the same. *)
LEMMA DaysInOrder ==
    ASSUME NEW a, IsDay(a), NEW b, IsDay(b)
    PROVE  /\ DayCount(a) <= DayCount(b) <=> IndexOf(a) < IndexOf(b) \/ (IndexOf(a) = IndexOf(b) /\ a.d <= b.d)
           /\ DayCount(a) = DayCount(b) => a = b
<1>1. DayCount(a) = Begins(IndexOf(a)) + a.d /\ DayCount(b) = Begins(IndexOf(b)) + b.d
  BY DayIsPlaced
<1>2. /\ IndexOf(a) \in Nat /\ IndexOf(b) \in Nat
      /\ a.d \in 1..Length(IndexOf(a)) /\ b.d \in 1..Length(IndexOf(b))
      /\ a.d \in Int /\ b.d \in Int /\ DayCount(a) \in Int /\ DayCount(b) \in Int
  <2>1. a.d \in 1..31 /\ b.d \in 1..31
    BY DayIsPlaced
  <2> QED
    BY <2>1, DayIsPlaced
<1>3. DayCount(a) <= DayCount(b) <=> IndexOf(a) < IndexOf(b) \/ (IndexOf(a) = IndexOf(b) /\ a.d <= b.d)
  BY <1>1, <1>2, OneMonth
<1>4. DayCount(b) <= DayCount(a) <=> IndexOf(b) < IndexOf(a) \/ (IndexOf(b) = IndexOf(a) /\ b.d <= a.d)
  BY <1>1, <1>2, OneMonth
<1>5. ASSUME DayCount(a) = DayCount(b) PROVE a = b
  <2>1. IndexOf(a) = IndexOf(b) /\ a.d = b.d
    BY <1>2, <1>3, <1>4, <1>5
  <2>2. a.y = b.y /\ a.m = b.m
    BY <2>1, DayIsPlaced
  <2> QED
    BY <2>1, <2>2 DEF IsDay
<1> QED
  BY <1>3, <1>5

(* A year begins with its first month. *)
LEMMA YearBegins ==
    ASSUME NEW y \in Nat
    PROVE  12 * y \in Nat /\ Begins(12 * y) = YearStart(y)
<1>1. YearOf(12 * y) = y /\ MonthOf(12 * y) = 1
  BY DEF YearOf, MonthOf
<1> QED
  BY <1>1, MonthsOfAYear DEF Begins

(* The day of a count is the day that has it. *)
LEMMA DayOfCount ==
    ASSUME NEW count \in Int, YearStart(1899) < count, count <= YearStart(LastYear + 1)
    PROVE  IsDay(DateAt(count)) /\ DayCount(DateAt(count)) = count
<1>1. LastYear \in Nat /\ LastYear >= 1900
  BY BoundsAssumption
<1>2. \A y \in Nat : Begins(12 * y) = YearStart(y)
  BY YearBegins
<1>3. PICK t \in Nat : 12 * 1899 <= t /\ t < 12 * (LastYear + 1) /\ Begins(t) < count /\ count <= Begins(t + 1)
  <2>1. 12 * 1899 \in Nat /\ 12 * (LastYear + 1) \in Nat /\ LastYear + 1 \in Nat
    BY <1>1
  <2>2. Begins(12 * 1899) < count /\ count <= Begins(12 * (LastYear + 1))
    BY <1>2, <2>1
  <2> HIDE <1>2
  <2> DEFINE lo == 12 * 1899
             hi == 12 * (LastYear + 1)
  <2>3. lo \in Nat /\ hi \in Nat /\ Begins(lo) < count /\ count <= Begins(hi)
    BY <2>1, <2>2
  <2> HIDE DEF lo, hi
  <2>4. \E t \in Nat : lo <= t /\ t < hi /\ Begins(t) < count /\ count <= Begins(t + 1)
    BY <2>3, SomeMonth
  <2> QED
    BY <2>4 DEF lo, hi
<1> DEFINE y == YearOf(t)
           m == MonthOf(t)
<1>4. y \in 1899..LastYear /\ m \in 1..12 /\ t = 12 * y + m - 1 /\ y \in Nat
  <2>1. y \in Int /\ m \in 1..12 /\ t = 12 * y + m - 1
    BY MonthNumber
  <2> HIDE DEF y, m
  <2> QED
    BY <1>1, <1>3, <2>1
<1>5. Begins(t) = MonthStart(y, m) /\ Length(t) = LastDayOfMonth(y, m)
  BY DEF Begins, Length
<1> HIDE DEF y, m
<1>6. Begins(t) \in Int /\ Begins(t + 1) \in Int /\ Begins(t + 1) = Begins(t) + Length(t) /\ Length(t) \in 28..31
  BY MonthsFollow
<1> DEFINE Years == {k \in 1899..LastYear : YearStart(k) < count}
           Months == {k \in 1..12 : MonthStart(y, k) < count}
<1>7. Years = 1899..y
  <2>1. ASSUME NEW k \in 1899..LastYear PROVE YearStart(k) < count <=> k <= y
    <3>1. k \in Nat /\ 12 * k \in Nat /\ YearStart(k) = Begins(12 * k) /\ Begins(12 * k) \in Int
      <4>1. k \in Nat /\ 12 * k \in Nat
        BY <1>1
      <4> QED
        BY <1>2, <4>1, MonthsFollow
    <3>2. k <= y => 12 * k <= t
      BY <1>4, <3>1
    <3>3. ~(k <= y) => t + 1 <= 12 * k
      BY <1>4, <3>1
    <3>4. k <= y => Begins(12 * k) <= Begins(t)
      BY <3>1, <3>2, MonthsAscend
    <3>5. ~(k <= y) => Begins(t + 1) <= Begins(12 * k)
      <4>1. t + 1 \in Nat
        OBVIOUS
      <4> QED
        BY <3>1, <3>3, <4>1, MonthsAscend
    <3> QED
      BY <1>3, <1>6, <3>1, <3>4, <3>5
  <2> QED
    BY <1>1, <1>4, <2>1
<1>8. Months = 1..m
  <2>1. ASSUME NEW k \in 1..12 PROVE MonthStart(y, k) < count <=> k <= m
    <3> DEFINE u == 12 * y + k - 1
    <3>1. MonthStart(y, k) = Begins(u)
      <4>1. y \in Int
        BY <1>4
      <4>2. YearOf(12 * y + k - 1) = y /\ MonthOf(12 * y + k - 1) = k
        BY <4>1 DEF YearOf, MonthOf
      <4> QED
        BY <4>2 DEF Begins
    <3>2. u \in Nat /\ (k <= m => u <= t) /\ (~(k <= m) => t + 1 <= u)
      BY <1>4
    <3> HIDE DEF u
    <3>3. Begins(u) \in Int
      BY <3>2, MonthsFollow
    <3>4. k <= m => Begins(u) <= Begins(t)
      BY <3>2, MonthsAscend
    <3>5. ~(k <= m) => Begins(t + 1) <= Begins(u)
      <4>1. t + 1 \in Nat
        OBVIOUS
      <4> QED
        BY <3>2, <4>1, MonthsAscend
    <3> QED
      BY <1>3, <1>6, <3>1, <3>3, <3>4, <3>5
  <2> QED
    BY <1>4, <2>1
<1> HIDE DEF Years, Months
<1>9. 1898 + Cardinality(Years) = y
  <2>1. Cardinality(1899..y) = y - 1899 + 1
    BY <1>4, FirstAreCounted
  <2> QED
    BY <1>4, <1>7, <2>1
<1>10. Cardinality(Months) = m
  <2>1. m \in Nat /\ Cardinality(1..m) = m - 1 + 1
    BY <1>4, FirstAreCounted
  <2> QED
    BY <1>4, <1>8, <2>1
<1>11. DateAt(count) = Date(y, m, count - MonthStart(y, m))
  <2>1. YearStart(1899) \in Int /\ YearStart(LastYear + 1) \in Int
    <3>1. LastYear + 1 \in Int /\ 1899 \in Int
      BY <1>1
    <3> QED
      BY <3>1, YearsHaveDays
  <2>2. ~(count <= YearStart(1899)) /\ ~(count > YearStart(LastYear + 1))
    BY <2>1
  <2> QED
    BY <1>9, <1>10, <2>2 DEF DateAt, Years, Months
<1>12. count - Begins(t) \in 1..Length(t)
  BY <1>3, <1>6
<1>13. IsDay(DateAt(count)) /\ IndexOf(DateAt(count)) = t /\ DateAt(count).d = count - Begins(t)
  <2>1. InYears(YearOf(t))
    BY <1>4 DEF InYears, y
  <2> QED
    BY <1>5, <1>11, <1>12, <2>1, PlacedIsDay DEF y, m
<1>14. DayCount(DateAt(count)) = Begins(t) + (count - Begins(t))
  BY <1>13, DayIsPlaced
<1> QED
  BY <1>6, <1>13, <1>14


(* The day of a day's count is the day. *)
LEMMA DayOfItsCount ==
    ASSUME NEW date, IsDay(date)
    PROVE  DateAt(DayCount(date)) = date
<1> DEFINE t == IndexOf(date)
           count == DayCount(date)
           y == LastYear + 1
<1>1. /\ t \in Nat /\ YearOf(t) = date.y /\ count = Begins(t) + date.d /\ date.d \in 1..Length(t)
      /\ Begins(t) \in Int /\ Length(t) \in 28..31 /\ count \in Int
  BY DayIsPlaced
<1>2. LastYear \in Nat /\ LastYear >= 1900 /\ y \in Nat /\ y = LastYear + 1
  BY BoundsAssumption
<1>3. date.y \in 1899..LastYear
  BY DEF IsDay
<1> HIDE DEF t, count, y
<1>4. t >= 12 * 1899 /\ t + 1 <= 12 * y /\ 12 * y \in Nat /\ t + 1 \in Nat
  BY <1>1, <1>2, <1>3 DEF YearOf
<1>5. Begins(12 * 1899) = YearStart(1899) /\ Begins(12 * y) = YearStart(y)
  BY <1>2, YearBegins
<1>6. Begins(12 * 1899) <= Begins(t)
  <2> DEFINE lo == 12 * 1899
  <2>1. lo \in Nat /\ lo <= t
    BY <1>1, <1>4
  <2> HIDE DEF lo
  <2>2. Begins(lo) <= Begins(t)
    BY <1>1, <2>1, MonthsAscend
  <2> QED
    BY <2>2 DEF lo
<1>7. Begins(t + 1) <= Begins(12 * y)
  <2> DEFINE hi == 12 * y
  <2>1. hi \in Nat /\ t + 1 <= hi
    BY <1>4
  <2> HIDE DEF hi
  <2>2. Begins(t + 1) <= Begins(hi)
    BY <1>4, <2>1, MonthsAscend
  <2> QED
    BY <2>2 DEF hi
<1>8. YearStart(1899) \in Int /\ YearStart(y) \in Int /\ Begins(t + 1) = Begins(t) + Length(t)
  <2>1. y \in Int /\ 1899 \in Int /\ t \in Int
    BY <1>1, <1>2
  <2> QED
    BY <2>1, YearsHaveDays, MonthsFollow
<1>9. YearStart(1899) < count /\ count <= YearStart(y)
  <2>1. YearStart(1899) <= Begins(t) /\ Begins(t + 1) <= YearStart(y)
    BY <1>5, <1>6, <1>7
  <2>2. date.d \in Int /\ date.d >= 1 /\ date.d <= Length(t)
    BY <1>1
  <2> QED
    BY <1>1, <1>8, <2>1, <2>2
<1>10. IsDay(DateAt(count)) /\ DayCount(DateAt(count)) = count
  BY <1>1, <1>9, DayOfCount DEF y
<1> QED
  BY <1>10, DaysInOrder DEF count

----------------------------------------------------------------------------
(* Serials.                                                                 *)

(* The phantom day is between the counts 59 and 60. *)
SerialOf(count) == IF count >= 60 THEN count + 1 ELSE count

(* The years a date may be written in. *)
IsFourDigits(y) == y \in Nat /\ y >= 1900 /\ y <= 9999

(* A day's serial, if it has one. *)
LEMMA SerialOfDay ==
    ASSUME NEW date, IsDay(date)
    PROVE  DateToSerial(date) = IF SerialOf(DayCount(date)) \in 1..LastSerial THEN SerialOf(DayCount(date)) ELSE 0
<1>1. date.y \in 1899..LastYear
  BY DEF IsDay
<1>2. NoDate.y = 0
  BY DEF NoDate, Date
<1>3. date # NoDate
  BY <1>1, <1>2
<1> QED
  BY <1>3 DEF DateToSerial, NoSerial, SerialOf

(* The day of a serial. *)
LEMMA DayOfSerial ==
    ASSUME NEW serial \in 1..LastSerial, serial # 60
    PROVE  /\ IsDay(SerialToDate(serial)) /\ SerialToDate(serial) # NoDate /\ IsFourDigits(SerialToDate(serial).y)
           /\ DayCount(SerialToDate(serial)) = (IF serial > 60 THEN serial - 1 ELSE serial)
           /\ SerialOf(DayCount(SerialToDate(serial))) = serial /\ DateToSerial(SerialToDate(serial)) = serial
<1> DEFINE date == SerialToDate(serial)
           count == IF serial > 60 THEN serial - 1 ELSE serial
<1>1. LastSerial \in Nat /\ LastYear \in Nat /\ LastYear >= 1900 /\ serial \in Nat /\ serial >= 1 /\ serial <= LastSerial
  BY BoundsAssumption
<1>2. date = DateAt(count)
  BY DEF SerialToDate, Phantom
<1>3. count \in Int /\ count >= 1 /\ count <= serial /\ SerialOf(count) = serial
  BY <1>1 DEF SerialOf
<1>4. /\ YearStart(1899) = -365 /\ YearStart(1900) = 0
      /\ YearStart(LastYear) \in Int /\ YearStart(LastYear + 1) >= YearStart(LastYear) + 365
      /\ YearStart(10000) \in Int /\ YearStart(10000) >= 366
      /\ YearStart(LastYear + 1) \in Int
  <2>1. YearStart(LastYear) \in Int /\ YearStart(LastYear + 1) >= YearStart(LastYear) + 365 /\ YearStart(LastYear + 1) \in Int
    <3>1. LastYear \in Int /\ LastYear + 1 \in Int
      BY <1>1
    <3> QED
      BY <3>1, YearsHaveDays
  <2>2. YearStart(10000) \in Int /\ YearStart(10000) >= 366
    BY DEF YearStart, LeapsBefore
  <2> QED
    BY <2>1, <2>2, FirstYears
<1>5. count <= YearStart(LastYear + 1) /\ count <= YearStart(10000)
  <2>1. LastSerial <= YearStart(LastYear) + 1 /\ LastSerial <= YearStart(10000) + 1
    BY CalendarAssumption
  <2>2. YearStart(LastYear) >= 0
    <3>1. 12 * 1900 \in Nat /\ 12 * LastYear \in Nat /\ 12 * 1900 <= 12 * LastYear
      BY <1>1
    <3> DEFINE lo == 12 * 1900
               hi == 12 * LastYear
    <3>2. lo \in Nat /\ hi \in Nat /\ lo <= hi
      BY <3>1
    <3> HIDE DEF lo, hi
    <3>3. Begins(lo) <= Begins(hi)
      BY <3>2, MonthsAscend
    <3>4. Begins(lo) = YearStart(1900) /\ Begins(hi) = YearStart(LastYear)
      BY <1>1, YearBegins DEF lo, hi
    <3> QED
      BY <1>4, <3>3, <3>4
  <2>3. count <= 60 \/ count <= LastSerial - 1
    BY <1>1
  <2> HIDE DEF count
  <2> QED
    BY <1>1, <1>3, <1>4, <2>1, <2>2, <2>3
<1> HIDE DEF count, date
<1>6. IsDay(date) /\ DayCount(date) = count
  <2>1. YearStart(1899) < count
    BY <1>3, <1>4
  <2> QED
    BY <1>2, <1>3, <1>5, <2>1, DayOfCount
<1>7. DateToSerial(date) = serial
  BY <1>3, <1>6, SerialOfDay
<1>8. IsFourDigits(date.y)
  <2> DEFINE t == IndexOf(date)
  <2>1. t \in Nat /\ YearOf(t) = date.y /\ date.y \in Nat /\ count = Begins(t) + date.d /\ date.d \in 1..Length(t)
        /\ Begins(t) \in Int /\ Length(t) \in 28..31
    BY <1>6, DayIsPlaced
  <2>2. t \in Int /\ t + 1 \in Nat /\ Begins(t + 1) = Begins(t) + Length(t)
    BY <2>1, MonthsFollow
  <2> HIDE DEF t
  <2> DEFINE lo == 12 * 1900
             hi == 12 * 10000
  <2>3. lo \in Nat /\ hi \in Nat /\ Begins(lo) = 0 /\ Begins(hi) = YearStart(10000)
    BY <1>4, YearBegins
  <2>4. ~(t + 1 <= lo)
    <3> SUFFICES ASSUME t + 1 <= lo PROVE FALSE
      OBVIOUS
    <3> HIDE DEF lo, hi
    <3>1. Begins(t + 1) <= 0
      BY <2>2, <2>3, MonthsAscend
    <3> QED
      BY <1>3, <2>1, <2>2, <3>1
  <2>5. ~(hi <= t)
    <3> SUFFICES ASSUME hi <= t PROVE FALSE
      OBVIOUS
    <3> HIDE DEF lo, hi
    <3>1. Begins(hi) <= Begins(t)
      BY <2>1, <2>3, MonthsAscend
    <3> QED
      BY <1>3, <1>4, <1>5, <2>1, <2>3, <3>1
  <2>6. t >= 22800 /\ t < 120000
    BY <2>1, <2>4, <2>5
  <2> HIDE DEF lo, hi
  <2>7. IsFourDigits(YearOf(t))
    BY <2>2, <2>6 DEF YearOf, IsFourDigits
  <2> QED
    BY <2>1, <2>7
<1>9. date # NoDate
  <2>1. NoDate.y = 0
    BY DEF NoDate, Date
  <2>2. date.y # 0
    BY <1>8 DEF IsFourDigits
  <2> QED
    BY <2>1, <2>2
<1> QED
  BY <1>3, <1>6, <1>7, <1>8, <1>9 DEF count, date

(* The serials with a day are those there are, but for one. *)
LEMMA SerialsOfDays ==
    ASSUME NEW serial
    PROVE  IsDate(serial) <=> serial \in 1..LastSerial /\ serial # 60
<1>1. serial \in 1..LastSerial /\ serial # 60 => SerialToDate(serial) # NoDate
  BY DayOfSerial
<1> QED
  BY <1>1 DEF IsDate, SerialToDate, Phantom

(* The day of a day's serial is the day. *)
LEMMA DayOfItsSerial ==
    ASSUME NEW date, IsDay(date), DateToSerial(date) # 0
    PROVE  /\ DateToSerial(date) = SerialOf(DayCount(date))
           /\ DateToSerial(date) \in 1..LastSerial /\ DateToSerial(date) # 60
           /\ SerialToDate(DateToSerial(date)) = date
<1> DEFINE serial == DateToSerial(date)
           count == DayCount(date)
<1>1. serial = SerialOf(count) /\ serial \in 1..LastSerial
  BY SerialOfDay
<1>2. count \in Int
  BY DayIsPlaced
<1>3. serial # 60 /\ count = IF serial > 60 THEN serial - 1 ELSE serial
  <2> HIDE DEF serial, count
  <2> QED
    BY <1>1, <1>2, BoundsAssumption DEF SerialOf
<1>4. SerialToDate(serial) = DateAt(count)
  <2> HIDE DEF serial, count
  <2> QED
    BY <1>1, <1>3 DEF SerialToDate, Phantom
<1> QED
  BY <1>1, <1>3, <1>4, DayOfItsCount

(* Serials are in the order of their days. *)
LEMMA SerialsInOrder ==
    ASSUME NEW a, IsDay(a), NEW b, IsDay(b), DateToSerial(b) # 0, DayCount(a) <= DayCount(b)
    PROVE  DateToSerial(a) <= DateToSerial(b)
<1>1. DayCount(a) \in Int /\ DayCount(b) \in Int
  BY DayIsPlaced
<1>2. DateToSerial(b) = SerialOf(DayCount(b)) /\ DateToSerial(b) \in 1..LastSerial
  BY DayOfItsSerial
<1>3. DateToSerial(a) = SerialOf(DayCount(a)) \/ DateToSerial(a) = 0
  BY SerialOfDay
<1>4. SerialOf(DayCount(a)) <= SerialOf(DayCount(b))
  BY <1>1 DEF SerialOf
<1>5. DateToSerial(b) >= 0
  BY <1>2, BoundsAssumption
<1> QED
  BY <1>2, <1>3, <1>4, <1>5

(* Serials that are days are in the order of their days. *)
LEMMA DaysOfSerialsInOrder ==
    ASSUME NEW a \in 1..LastSerial, a # 60, NEW b \in 1..LastSerial, b # 60
    PROVE  a <= b <=> DayCount(SerialToDate(a)) <= DayCount(SerialToDate(b))
<1>1. /\ DayCount(SerialToDate(a)) = IF a > 60 THEN a - 1 ELSE a
      /\ DayCount(SerialToDate(b)) = IF b > 60 THEN b - 1 ELSE b
  BY DayOfSerial
<1>2. a \in Int /\ b \in Int
  OBVIOUS
<1> QED
  BY <1>1, <1>2

(* The month so many months on. *)
LEMMA MonthsOnIs ==
    ASSUME NEW y, NEW m, NEW months
    PROVE  LET t == y * 12 + (m - 1) + months IN
           MonthsOn(y, m, months).y = YearOf(t) /\ MonthsOn(y, m, months).m = MonthOf(t)
BY DEF MonthsOn, YearOf, MonthOf

(* DATE counts months from the year's first and days from the month's.      *)
LEMMA DateOfParts ==
    ASSUME NEW y, IsFourDigits(y), NEW m, m \in Int, NEW d, d \in Int,
           NEW t, t \in Nat, t = 12 * y + m - 1, InYears(YearOf(t))
    PROVE  FullYear(y) = y /\ DateFromParts(y, m, d) = DateAt(Begins(t) + d)
<1>1. FullYear(y) = y
  BY DEF FullYear, IsFourDigits
<1>2. y * 12 + (1 - 1) + (m - 1) = t
  BY DEF IsFourDigits
<1>3. MonthsOn(y, 1, m - 1).y = YearOf(t) /\ MonthsOn(y, 1, m - 1).m = MonthOf(t)
  BY <1>2, MonthsOnIs
<1>4. DayCount(Date(YearOf(t), MonthOf(t), 1)) = Begins(t) + 1 /\ Begins(t) \in Int
  BY MonthsFollow DEF DayCount, Date, Begins
<1>5. Begins(t) + 1 + d - 1 = Begins(t) + d
  BY <1>4
<1>6. y \in 0..9999
  BY DEF IsFourDigits
<1>7. DateFromParts(y, m, d) = DateAt(Begins(t) + 1 + d - 1)
  BY <1>1, <1>3, <1>4, <1>6 DEF DateFromParts
<1> QED
  BY <1>1, <1>5, <1>7

(* A serial is its date and the phantom day is its name: DATE, YEAR, MONTH  *)
(* and DAY undo each other.                                                 *)
LEMMA SerialsAreTheirDates ==
    ASSUME NEW serial
    PROVE  SerialIsItsDate(serial)
<1>1. CASE serial = 60
  <2>1. SerialToParts(serial) = Date(1900, 2, 29)
    BY <1>1 DEF SerialToParts, Phantom
  <2>2. DateOf(1900, 2, 29) = 60
    BY DEF DateOf, FullYear, Phantom
  <2>3. ~IsDate(serial)
    BY <1>1, SerialsOfDays
  <2>4. SerialToParts(serial).y = 1900 /\ SerialToParts(serial).m = 2 /\ SerialToParts(serial).d = 29
    BY <2>1 DEF Date
  <2> QED
    BY <1>1, <2>2, <2>3, <2>4 DEF SerialIsItsDate
<1>2. CASE serial # 60 /\ serial \notin 1..LastSerial
  BY <1>2 DEF SerialIsItsDate, SerialToParts, SerialToDate, Phantom
<1>3. CASE serial # 60 /\ serial \in 1..LastSerial
  <2> DEFINE date == SerialToDate(serial)
             t == IndexOf(date)
  <2>1. IsDay(date) /\ IsFourDigits(date.y) /\ DateToSerial(date) = serial
    BY <1>3, DayOfSerial
  <2>2. SerialToParts(serial) = date
    BY <1>3 DEF SerialToParts, Phantom
  <2> HIDE DEF date
  <2>3. /\ t \in Nat /\ YearOf(t) = date.y /\ date.m \in 1..12 /\ date.d \in 1..31 /\ DayCount(date) = Begins(t) + date.d
        /\ date.d \in 1..LastDayOfMonth(date.y, date.m)
    BY <2>1, DayIsPlaced DEF IsDay
  <2>4. t = 12 * date.y + date.m - 1 /\ InYears(YearOf(t))
    BY <2>1, <2>3 DEF IndexOf, IsDay, InYears
  <2> HIDE DEF t
  <2>5. FullYear(date.y) = date.y /\ DateFromParts(date.y, date.m, date.d) = DateAt(Begins(t) + date.d)
    <3> DEFINE y == date.y
               m == date.m
               d == date.d
    <3>1. IsFourDigits(y) /\ m \in Int /\ d \in Int /\ t \in Nat /\ t = 12 * y + m - 1 /\ InYears(YearOf(t))
      BY <2>1, <2>3, <2>4
    <3> HIDE DEF y, m, d
    <3>2. FullYear(y) = y /\ DateFromParts(y, m, d) = DateAt(Begins(t) + d)
      BY <3>1, DateOfParts
    <3> QED
      BY <3>2 DEF y, m, d
  <2>6. DateFromParts(date.y, date.m, date.d) = date
    BY <2>1, <2>3, <2>5, DayOfItsCount
  <2>7. Date(date.y, date.m, date.d) # Date(1900, 2, 29)
    <3> SUFFICES ASSUME Date(date.y, date.m, date.d) = Date(1900, 2, 29) PROVE FALSE
      OBVIOUS
    <3>1. date.y = 1900 /\ date.m = 2 /\ date.d = 29
      BY DEF Date
    <3>2. LastDayOfMonth(1900, 2) = 28
      BY FirstYears DEF LastDayOfMonth
    <3> QED
      BY <2>3, <3>1, <3>2
  <2>8. DateOf(date.y, date.m, date.d) = serial
    BY <2>1, <2>5, <2>6, <2>7 DEF DateOf
  <2> QED
    BY <2>1, <2>2, <2>8 DEF SerialIsItsDate, date
<1> QED
  BY <1>1, <1>2, <1>3

----------------------------------------------------------------------------
(* Differences.                                                             *)

(* The lesser and the greater of two. *)
LEMMA LesserAndGreater ==
    ASSUME NEW a \in Int, NEW b \in Int
    PROVE  Min({a, b}) = (IF a <= b THEN a ELSE b) /\ Max({a, b}) = (IF a <= b THEN b ELSE a)
<1>1. Min({a, b}) = IF a <= b THEN a ELSE b
  <2> DEFINE low == IF a <= b THEN a ELSE b
  <2>1. low \in {a, b} /\ \A y \in {a, b} : low <= y
    OBVIOUS
  <2>2. \A x \in {a, b} : (\A y \in {a, b} : x <= y) => x = low
    OBVIOUS
  <2> HIDE DEF low
  <2>3. Min({a, b}) \in {a, b} /\ \A y \in {a, b} : Min({a, b}) <= y
    BY <2>1 DEF Min
  <2> QED
    BY <2>2, <2>3 DEF low
<1>2. Max({a, b}) = IF a <= b THEN b ELSE a
  <2> DEFINE high == IF a <= b THEN b ELSE a
  <2>1. high \in {a, b} /\ \A y \in {a, b} : high >= y
    OBVIOUS
  <2>2. \A x \in {a, b} : (\A y \in {a, b} : x >= y) => x = high
    OBVIOUS
  <2> HIDE DEF high
  <2>3. Max({a, b}) \in {a, b} /\ \A y \in {a, b} : Max({a, b}) >= y
    BY <2>1 DEF Max
  <2> QED
    BY <2>2, <2>3 DEF high
<1> QED
  BY <1>1, <1>2

(* The same month of the next year is a year away. *)
LEMMA YearOn ==
    ASSUME NEW t \in Nat
    PROVE  /\ Begins(t + 12) - Begins(t) \in {365, 366}
           /\ MonthOf(t) = 2 /\ ~IsLeap(YearOf(t)) => Begins(t + 12) - Begins(t) = 365
<1> DEFINE y == YearOf(t)
           m == MonthOf(t)
<1>1. y \in Int /\ y + 1 \in Int /\ m \in 1..12 /\ t = 12 * y + m - 1
  BY MonthNumber
<1>2. YearOf(t + 12) = y + 1 /\ MonthOf(t + 12) = m
  BY DEF YearOf, MonthOf
<1> HIDE DEF y, m
<1>3. Begins(t) = MonthStart(y, m) /\ Begins(t + 12) = MonthStart(y + 1, m)
  BY <1>2 DEF Begins, y, m
<1>4. /\ YearStart(y) \in Int /\ YearStart(y + 1) \in Int
      /\ YearStart(y + 1) = YearStart(y) + (IF IsLeap(y) THEN 366 ELSE 365)
  BY <1>1, YearsHaveDays
<1>5. DaysBefore[m] \in Int
  BY <1>1 DEF DaysBefore
<1>6. m <= 2 => Begins(t + 12) - Begins(t) = IF IsLeap(y) THEN 366 ELSE 365
  BY <1>1, <1>3, <1>4, <1>5 DEF MonthStart
<1>7. m > 2 => Begins(t + 12) - Begins(t) = IF IsLeap(y + 1) THEN 366 ELSE 365
  BY <1>1, <1>3, <1>4, <1>5 DEF MonthStart
<1> QED
  BY <1>1, <1>6, <1>7 DEF y, m

(* A day so many months on is in the month so many on, on the same day or   *)
(* the last.                                                                *)
LEMMA MonthAdded ==
    ASSUME NEW serial \in 1..LastSerial, serial # 60, NEW months \in Int,
           NEW t, t = IndexOf(SerialToDate(serial)) + months,
           NEW d, d = SerialToDate(serial).d,
           NEW to, to = AddMonths(serial, months)
    PROVE  /\ ~InYears(YearOf(t)) => to = NoDate
           /\ InYears(YearOf(t)) =>
                t \in Nat /\ IsDay(to) /\ to # NoDate /\ IndexOf(to) = t /\ to.d = IF d <= Length(t) THEN d ELSE Length(t)
<1> DEFINE date == SerialToDate(serial)
<1>1. IsDay(date) /\ date # NoDate
  BY DayOfSerial
<1> HIDE DEF date
<1>2. IndexOf(date) \in Nat /\ date.y \in Nat /\ date.m \in 1..12 /\ date.d \in 1..31
  BY <1>1, DayIsPlaced
<1>3. date.y * 12 + (date.m - 1) + months = t /\ t \in Int /\ d = date.d
  BY <1>2 DEF IndexOf, date
<1>4. MonthsOn(date.y, date.m, months).y = YearOf(t) /\ MonthsOn(date.y, date.m, months).m = MonthOf(t)
  BY <1>3, MonthsOnIs
<1>5. to = IF ~InYears(YearOf(t)) THEN NoDate ELSE Date(YearOf(t), MonthOf(t), Min({d, Length(t)}))
  BY <1>1, <1>3, <1>4 DEF AddMonths, date, Length
<1>6. ASSUME InYears(YearOf(t))
      PROVE  t \in Nat /\ IsDay(to) /\ to # NoDate /\ IndexOf(to) = t /\ to.d = IF d <= Length(t) THEN d ELSE Length(t)
  <2>1. t \in Nat
    BY <1>3, <1>6, BoundsAssumption DEF InYears, YearOf
  <2>2. Length(t) \in 28..31 /\ d \in 1..31
    BY <1>2, <1>3, <2>1, MonthsFollow
  <2> DEFINE e == IF d <= Length(t) THEN d ELSE Length(t)
  <2>3. Min({d, Length(t)}) = e /\ e \in 1..Length(t)
    <3>1. d \in Int /\ Length(t) \in Int
      BY <2>2
    <3>2. Min({d, Length(t)}) = e
      BY <3>1, LesserAndGreater
    <3> QED
      BY <2>2, <3>2
  <2> HIDE DEF e
  <2>4. to = Date(YearOf(t), MonthOf(t), e)
    BY <1>5, <1>6, <2>3
  <2>5. IsDay(to) /\ IndexOf(to) = t /\ to.d = e
    BY <1>6, <2>1, <2>3, <2>4, PlacedIsDay
  <2>6. to # NoDate
    <3>1. to.y \in 1899..LastYear /\ NoDate.y = 0
      BY <2>5 DEF IsDay, NoDate, Date
    <3> QED
      BY <3>1
  <2> QED
    BY <2>1, <2>5, <2>6 DEF e
<1> QED
  BY <1>5, <1>6

(* What is no date has no serial. *)
LEMMA NoDateHasNoSerial == DateToSerial(NoDate) = 0
BY DEF DateToSerial, NoSerial

(* The months from a day to a later one, and the years among them. *)
LEMMA MonthsBetween ==
    ASSUME NEW a, IsDay(a), NEW b, IsDay(b), DayCount(a) <= DayCount(b),
           NEW n, n = IndexOf(b) - IndexOf(a), NEW borrowed, borrowed = IF b.d < a.d THEN 1 ELSE 0
    PROVE  /\ n \in Nat /\ borrowed \in {0, 1} /\ (n = 0 => borrowed = 0)
           /\ WholeMonths(a, b) = n - borrowed /\ WholeYears(a, b) \in Nat
           /\ n - borrowed - 12 * WholeYears(a, b) \in 0..11
<1>1. /\ a.y \in Int /\ a.m \in 1..12 /\ a.d \in Int /\ b.y \in Int /\ b.m \in 1..12 /\ b.d \in Int
      /\ IndexOf(a) \in Nat /\ IndexOf(b) \in Nat
  <2>1. a.d \in 1..31 /\ b.d \in 1..31
    BY DayIsPlaced
  <2> QED
    BY <2>1, DayIsPlaced
<1>2. IndexOf(a) < IndexOf(b) \/ (IndexOf(a) = IndexOf(b) /\ a.d <= b.d)
  BY DaysInOrder
<1>3. n = 12 * (b.y - a.y) + (b.m - a.m) /\ n \in Nat /\ (n = 0 => borrowed = 0) /\ borrowed \in {0, 1}
  <2> DEFINE ay == a.y
             am == a.m
             ad == a.d
             bi == b.y
             bm == b.m
             bd == b.d
  <2>1. /\ ay \in Int /\ am \in 1..12 /\ ad \in Int /\ bi \in Int /\ bm \in 1..12 /\ bd \in Int
        /\ IndexOf(a) = 12 * ay + am - 1 /\ IndexOf(b) = 12 * bi + bm - 1
        /\ borrowed = IF bd < ad THEN 1 ELSE 0
        /\ IndexOf(a) < IndexOf(b) \/ (IndexOf(a) = IndexOf(b) /\ ad <= bd)
        /\ IndexOf(a) \in Nat /\ IndexOf(b) \in Nat
    BY <1>1, <1>2 DEF IndexOf
  <2> HIDE DEF ay, am, ad, bi, bm, bd
  <2>2. n \in Nat /\ (n = 0 => borrowed = 0) /\ borrowed \in {0, 1}
    BY <2>1
  <2>3. n = 12 * (bi - ay) + (bm - am)
    BY <2>1
  <2> QED
    BY <2>2, <2>3 DEF ay, am, bi, bm
<1>4. WholeMonths(a, b) = n - borrowed
  BY <1>1, <1>3 DEF WholeMonths
<1> DEFINE less == IF EarlierInYear(b, a) THEN 1 ELSE 0
           dm == b.m - a.m
           dy == b.y - a.y
<1>5. less = (IF dm < 0 \/ (dm = 0 /\ borrowed = 1) THEN 1 ELSE 0) /\ dm \in -11..11 /\ dy \in Int
  BY <1>1 DEF EarlierInYear
<1>6. WholeYears(a, b) = dy - less
  BY DEF WholeYears
<1>7. n = 12 * dy + dm
  BY <1>3
<1> HIDE DEF less, dm, dy
<1>8. n - borrowed - 12 * (dy - less) \in 0..11 /\ dy - less \in Nat
  BY <1>3, <1>5, <1>7
<1> QED
  BY <1>3, <1>4, <1>6, <1>8

(* Its anniversary before a later day is less than a year before it, though *)
(* a 29 February be put a day early.                                        *)
LEMMA LessThanAYear ==
    ASSUME NEW a, IsDay(a), NEW b, IsDay(b), DayCount(a) <= DayCount(b)
    PROVE  DayCount(b) - DayCount(AddYearsClamped(a, WholeYears(a, b))) \in 0..365
<1> DEFINE years == WholeYears(a, b)
           t == IndexOf(a)
           u == IndexOf(b)
           n == u - t
           borrowed == IF b.d < a.d THEN 1 ELSE 0
           w == t + 12 * years
           d == IF a.d <= Length(w) THEN a.d ELSE Length(w)
           to == AddYearsClamped(a, years)
<1> SUFFICES DayCount(b) - DayCount(to) \in Int /\ DayCount(b) - DayCount(to) >= 0
             /\ DayCount(b) - DayCount(to) <= 365
  OBVIOUS
<1>1. n \in Nat /\ borrowed \in {0, 1} /\ years \in Nat /\ n - borrowed - 12 * years \in 0..11 /\ (n = 0 => borrowed = 0)
  BY MonthsBetween
<1>2. /\ t \in Nat /\ YearOf(t) = a.y /\ MonthOf(t) = a.m /\ a.y \in Nat /\ a.m \in 1..12 /\ a.d \in 1..31
      /\ a.d \in 1..Length(t) /\ Length(t) \in 28..31 /\ t = 12 * a.y + a.m - 1
  BY DayIsPlaced DEF IndexOf
<1>3. /\ u \in Nat /\ b.d \in 1..Length(u) /\ b.d \in 1..31 /\ Length(u) \in 28..31
      /\ DayCount(b) = Begins(u) + b.d /\ Begins(u) \in Int
  BY DayIsPlaced
<1> HIDE DEF years, t, u
<1>4. w \in Nat /\ YearOf(w) = a.y + years /\ MonthOf(w) = a.m
  <2> DEFINE y == a.y + years
             m == a.m
  <2>1. y \in Int /\ m \in 1..12 /\ w = 12 * y + m - 1 /\ w \in Nat
    BY <1>1, <1>2
  <2> HIDE DEF y, m, w
  <2>2. YearOf(w) = y /\ MonthOf(w) = m
    BY <2>1, NumberOfMonth
  <2> QED
    BY <2>1, <2>2 DEF y, m
<1> HIDE DEF w
<1>5. Length(w) \in 28..31 /\ Begins(w) \in Int
  BY <1>4, MonthsFollow
<1>6. d \in 1..31 /\ d \in 1..Length(w) /\ Min({a.d, Length(w)}) = d
  <2>1. a.d \in Int /\ Length(w) \in Int
    BY <1>2, <1>5
  <2>2. Min({a.d, Length(w)}) = d
    BY <2>1, LesserAndGreater
  <2> QED
    BY <1>2, <1>5, <2>2
<1> HIDE DEF d
<1>7. DayCount(to) = Begins(w) + d
  <2>1. to = Date(YearOf(w), MonthOf(w), d)
    BY <1>4, <1>6 DEF AddYearsClamped, Length
  <2> HIDE DEF to
  <2>2. to.y = YearOf(w) /\ to.m = MonthOf(w) /\ to.d = d
    BY <2>1 DEF Date
  <2> QED
    BY <2>2 DEF DayCount, Begins
<1>8. u - w = (n - borrowed - 12 * years) + borrowed
  <2> HIDE DEF borrowed
  <2> QED
    BY <1>1, <1>2, <1>3 DEF w
<1>9. u - w \in 0..12 /\ (u = w => borrowed = 0) /\ (u - w = 12 => borrowed = 1)
  <2> HIDE DEF n, borrowed
  <2> QED
    BY <1>1, <1>3, <1>4, <1>8
<1> HIDE DEF n, to
<1>10. Begins(w) + d <= Begins(u) + b.d
  <2>1. w < u \/ (w = u /\ d <= b.d)
    <3>1. w = u => a.d <= b.d
      BY <1>2, <1>3, <1>9
    <3>2. d <= a.d
      BY <1>2, <1>5 DEF d
    <3> QED
      BY <1>2, <1>3, <1>4, <1>6, <1>9, <3>1, <3>2
  <2> QED
    BY <1>3, <1>4, <1>6, <2>1, OneMonth
<1>11. Begins(w + 12) - Begins(w) \in {365, 366} /\ Begins(w + 12) \in Int
  BY <1>4, YearOn, MonthsFollow
<1>12. CASE u - w = 12
  <2>1. w + 12 = u /\ b.d < a.d
    BY <1>3, <1>4, <1>9, <1>12
  <2>2. CASE a.d <= Length(w)
    <3>1. d = a.d
      BY <2>2 DEF d
    <3>2. Begins(u) - Begins(w) <= 366
      BY <1>11, <2>1
    <3>3. b.d \in Int /\ d \in Int /\ b.d <= d - 1
      BY <1>2, <1>3, <2>1, <3>1
    <3>4. Begins(u) \in Int /\ Begins(w) \in Int /\ DayCount(b) = Begins(u) + b.d
      BY <1>3, <1>5
    <3> QED
      BY <1>7, <1>10, <3>2, <3>3, <3>4
  <2>3. CASE ~(a.d <= Length(w))
    <3>1. Length(w) # Length(t)
      BY <1>2, <1>5, <2>3
    <3>2. MonthOf(w) = MonthOf(t)
      BY <1>2, <1>4
    <3>3. MonthOf(w) = 2 /\ Length(w) \in {28, 29} /\ Length(t) \in {28, 29}
      BY <3>1, <3>2 DEF Length, LastDayOfMonth
    <3>4. Length(w) = 28 /\ a.d = 29
      BY <1>2, <2>3, <3>1, <3>3
    <3>5. ~IsLeap(YearOf(w))
      BY <3>3, <3>4 DEF Length, LastDayOfMonth
    <3>6. Begins(w + 12) - Begins(w) = 365
      BY <1>4, <3>3, <3>5, YearOn
    <3>7. d = 28
      BY <2>3, <3>4 DEF d
    <3> QED
      BY <1>3, <1>5, <1>7, <1>10, <1>11, <2>1, <3>4, <3>6, <3>7
  <2> QED
    BY <2>2, <2>3
<1>13. CASE u - w # 12
  <2>1. u + 1 <= w + 12 /\ u + 1 \in Nat /\ w + 12 \in Nat
    BY <1>3, <1>4, <1>9, <1>13
  <2>2. Begins(u + 1) <= Begins(w + 12)
    <3> DEFINE v == w + 12
    <3>1. v \in Nat /\ u + 1 <= v
      BY <2>1
    <3> HIDE DEF v
    <3>2. Begins(u + 1) <= Begins(v)
      BY <2>1, <3>1, MonthsAscend
    <3> QED
      BY <3>2 DEF v
  <2>3. Begins(u + 1) = Begins(u) + Length(u)
    BY <1>3, MonthsFollow
  <2>4. Begins(u) + Length(u) - Begins(w) <= 366 /\ Length(u) \in Int
    BY <1>3, <1>5, <1>11, <2>2, <2>3
  <2>5. b.d \in Int /\ d \in Int /\ b.d <= Length(u) /\ d >= 1
    BY <1>3, <1>6
  <2>6. Begins(u) \in Int /\ Begins(w) \in Int /\ DayCount(b) = Begins(u) + b.d
    BY <1>3, <1>5
  <2> QED
    BY <1>7, <1>10, <2>4, <2>5, <2>6
<1> QED
  BY <1>12, <1>13

(* The years and the months over, the months and the days between two       *)
(* serials: DATEDIF counts what EDATE adds.                                 *)
LEMMA DifferencesAlwaysAgree ==
    ASSUME NEW from, NEW to
    PROVE  DifferencesAgree(from, to)
<1> DEFINE a == SerialToDate(from)
           b == SerialToDate(to)
           t == IndexOf(a)
           u == IndexOf(b)
           n == u - t
           borrowed == IF b.d < a.d THEN 1 ELSE 0
           months == DateDif(a, b, "M")
           years == DateDif(a, b, "Y")
<1> SUFFICES ASSUME IsDate(from), IsDate(to), from <= to
             PROVE  /\ DateDif(a, b, "YM") \in 0..11 /\ months = 12 * years + DateDif(a, b, "YM")
                    /\ EDate(from, months) <= to
                    /\ EDate(from, months + 1) = NoSerial \/ EDate(from, months + 1) >= to
                    /\ DateDif(a, b, "YD") \in 0..365
                    /\ DateDif(a, b, "D") = to - from - (IF from < Phantom /\ to > Phantom THEN 1 ELSE 0)
  BY DEF DifferencesAgree
<1>1. from \in 1..LastSerial /\ from # 60 /\ to \in 1..LastSerial /\ to # 60
  BY SerialsOfDays
<1>2. /\ IsDay(a) /\ IsDay(b) /\ DateToSerial(b) = to
      /\ DayCount(a) = (IF from > 60 THEN from - 1 ELSE from)
      /\ DayCount(b) = (IF to > 60 THEN to - 1 ELSE to)
  BY <1>1, DayOfSerial
<1>3. DayCount(a) <= DayCount(b)
  BY <1>1, DaysOfSerialsInOrder
<1>4. months = WholeMonths(a, b) /\ years = WholeYears(a, b)
  BY DEF DateDif
<1>5. DateDif(a, b, "YM") = WholeMonths(a, b) - 12 * WholeYears(a, b)
  BY DEF DateDif
<1>6. /\ n \in Nat /\ borrowed \in {0, 1} /\ months = n - borrowed /\ years \in Nat
      /\ n - borrowed - 12 * years \in 0..11
  <2>1. WholeMonths(a, b) = n - borrowed /\ WholeYears(a, b) \in Nat /\ n \in Nat /\ borrowed \in {0, 1}
        /\ n - borrowed - 12 * WholeYears(a, b) \in 0..11
    <3> HIDE DEF a, b
    <3> QED
      BY <1>2, <1>3, MonthsBetween
  <2> QED
    BY <1>4, <2>1
<1>7. from \in Int /\ to \in Int /\ to >= 1
  BY <1>1
<1> HIDE DEF months, years, a, b
<1>8. DateDif(a, b, "YM") \in 0..11 /\ months = 12 * years + DateDif(a, b, "YM")
  BY <1>4, <1>5, <1>6
<1>9. t \in Nat /\ u \in Nat /\ a.d \in 1..31 /\ b.d \in 1..31 /\ b.d \in 1..Length(u) /\ Length(u) \in 28..31
  BY <1>2, DayIsPlaced
<1>10. EDate(from, months) <= to
  <2> DEFINE x == AddMonths(from, months)
             v == t + months
  <2>1. EDate(from, months) = DateToSerial(x)
    BY DEF EDate
  <2>2. /\ ~InYears(YearOf(v)) => x = NoDate
        /\ InYears(YearOf(v)) => v \in Nat /\ IsDay(x) /\ IndexOf(x) = v /\ x.d = IF a.d <= Length(v) THEN a.d ELSE Length(v)
    <3>1. months \in Int
      BY <1>6
    <3> QED
      BY <1>1, <3>1, MonthAdded DEF a
  <2> HIDE DEF x
  <2>3. CASE ~InYears(YearOf(v))
    BY <1>7, <2>1, <2>2, <2>3, NoDateHasNoSerial
  <2>4. CASE InYears(YearOf(v))
    <3>1. IsDay(x) /\ IndexOf(x) = v /\ x.d = IF a.d <= Length(v) THEN a.d ELSE Length(v)
      BY <2>2, <2>4
    <3>2. v = u - borrowed
      BY <1>6, <1>9
    <3>3. x.d <= a.d
      <4>1. Length(v) \in 28..31
        BY <2>2, <2>4, MonthsFollow
      <4> QED
        BY <1>9, <3>1, <4>1
    <3>4. x.d \in 1..31
      BY <3>1, DayIsPlaced
    <3>5. v < u \/ (v = u /\ x.d <= b.d)
      <4>1. borrowed = 1 \/ (borrowed = 0 /\ a.d <= b.d)
        BY <1>9
      <4> HIDE DEF borrowed, v
      <4>2. borrowed = 1 => v < u
        BY <1>9, <3>2
      <4>3. borrowed = 0 => v = u
        BY <1>9, <3>2
      <4>4. a.d <= b.d => x.d <= b.d
        BY <1>9, <3>3, <3>4
      <4> QED
        BY <4>1, <4>2, <4>3, <4>4
    <3>6. DayCount(x) <= DayCount(b)
      BY <1>2, <3>1, <3>5, DaysInOrder
    <3>7. DateToSerial(b) # 0
      BY <1>2, <1>7
    <3> QED
      BY <1>2, <2>1, <3>1, <3>6, <3>7, SerialsInOrder
  <2> QED
    BY <2>3, <2>4
<1>11. EDate(from, months + 1) = NoSerial \/ EDate(from, months + 1) >= to
  <2> DEFINE x == AddMonths(from, months + 1)
             v == t + (months + 1)
  <2>1. EDate(from, months + 1) = DateToSerial(x)
    BY DEF EDate
  <2>2. /\ ~InYears(YearOf(v)) => x = NoDate
        /\ InYears(YearOf(v)) => v \in Nat /\ IsDay(x) /\ IndexOf(x) = v /\ x.d = IF a.d <= Length(v) THEN a.d ELSE Length(v)
    <3>1. months + 1 \in Int
      BY <1>6
    <3> QED
      BY <1>1, <3>1, MonthAdded DEF a
  <2> HIDE DEF x
  <2>3. CASE ~InYears(YearOf(v))
    BY <2>1, <2>2, <2>3, NoDateHasNoSerial DEF NoSerial
  <2>4. CASE InYears(YearOf(v))
    <3>1. IsDay(x) /\ IndexOf(x) = v /\ x.d = IF a.d <= Length(v) THEN a.d ELSE Length(v)
      BY <2>2, <2>4
    <3>2. v = u + 1 - borrowed
      BY <1>6, <1>9
    <3>3. borrowed = 1 => v = u /\ b.d <= x.d
      <4>1. borrowed = 1 => v = u /\ b.d < a.d
        BY <1>6, <1>9, <3>2
      <4> QED
        BY <1>9, <3>1, <4>1
    <3>4. u < v \/ (u = v /\ b.d <= x.d)
      BY <1>6, <1>9, <3>2, <3>3
    <3>5. DayCount(b) <= DayCount(x)
      BY <1>2, <3>1, <3>4, DaysInOrder
    <3>6. DateToSerial(x) = 0 \/ DateToSerial(b) <= DateToSerial(x)
      BY <1>2, <3>1, <3>5, SerialsInOrder
    <3>7. DateToSerial(x) \in Int
      BY <3>1, DayOfItsSerial
    <3> QED
      BY <1>2, <1>7, <2>1, <3>6, <3>7 DEF NoSerial
  <2> QED
    BY <2>3, <2>4
<1>12. DateDif(a, b, "YD") \in 0..365
  <2>1. DateDif(a, b, "YD") = DayCount(b) - DayCount(AddYearsClamped(a, WholeYears(a, b)))
    BY DEF DateDif
  <2> QED
    BY <1>2, <1>3, <2>1, LessThanAYear
<1>13. DateDif(a, b, "D") = to - from - (IF from < Phantom /\ to > Phantom THEN 1 ELSE 0)
  <2>1. DateDif(a, b, "D") = DayCount(b) - DayCount(a)
    BY DEF DateDif
  <2> QED
    BY <1>1, <1>2, <1>7, <2>1 DEF Phantom
<1> QED
  BY <1>8, <1>10, <1>11, <1>12, <1>13

----------------------------------------------------------------------------
(* Fractions of a year.                                                     *)

(* The parts of a serial count its days, the phantom day with them. *)
LEMMA PartsArePlaced ==
    ASSUME NEW serial, SerialToParts(serial) # NoDate,
           NEW date, date = SerialToParts(serial), NEW t, t = IndexOf(date)
    PROVE  /\ serial \in Int /\ t \in Nat /\ date.y \in Int /\ date.m \in 1..12 /\ date.d \in 1..31
           /\ Begins(t) + date.d = (IF serial > 60 THEN serial - 1 ELSE serial)
           /\ IF serial = 60 THEN t = 22801 /\ date.d = 29 /\ Begins(t + 1) = 59 ELSE date.d <= Length(t)
<1>1. CASE serial = 60
  <2>1. date = Date(1900, 2, 29)
    BY <1>1 DEF SerialToParts, Phantom
  <2>2. date.y = 1900 /\ date.m = 2 /\ date.d = 29
    BY <2>1 DEF Date
  <2>3. t = 22801
    BY <2>2 DEF IndexOf
  <2>4. YearOf(22801) = 1900 /\ MonthOf(22801) = 2
    BY DEF YearOf, MonthOf
  <2>5. Begins(22801) = 31
    BY <2>4, FirstYears DEF Begins, MonthStart, DaysBefore
  <2>6. Length(22801) = 28
    BY <2>4, FirstYears DEF Length, LastDayOfMonth
  <2>7. Begins(22801 + 1) = Begins(22801) + Length(22801)
    BY MonthsFollow
  <2>8. Begins(t + 1) = 59
    BY <2>3, <2>5, <2>6, <2>7
  <2> QED
    BY <1>1, <2>2, <2>3, <2>5, <2>8
<1>2. CASE serial # 60
  <2>1. date = SerialToDate(serial)
    BY <1>2 DEF SerialToParts, Phantom
  <2>2. serial \in 1..LastSerial
    <3>1. IsDate(serial)
      BY <2>1 DEF IsDate
    <3> QED
      BY <3>1, SerialsOfDays
  <2>3. IsDay(date) /\ DayCount(date) = IF serial > 60 THEN serial - 1 ELSE serial
    BY <1>2, <2>1, <2>2, DayOfSerial
  <2>4. t \in Nat /\ date.y \in Nat /\ date.m \in 1..12 /\ date.d \in 1..31 /\ date.d \in 1..Length(t)
        /\ DayCount(date) = Begins(t) + date.d
    BY <2>3, DayIsPlaced
  <2> QED
    BY <1>2, <2>2, <2>3, <2>4
<1> QED
  BY <1>1, <1>2

(* A later serial is in no earlier month. *)
LEMMA PartsInOrder ==
    ASSUME NEW from, SerialToParts(from) # NoDate, NEW to, SerialToParts(to) # NoDate, from <= to
    PROVE  IndexOf(SerialToParts(from)) <= IndexOf(SerialToParts(to))
<1> DEFINE t == IndexOf(SerialToParts(from))
           u == IndexOf(SerialToParts(to))
           d == SerialToParts(from).d
           e == SerialToParts(to).d
<1>1. /\ from \in Int /\ t \in Nat /\ d \in 1..31
      /\ Begins(t) + d = (IF from > 60 THEN from - 1 ELSE from)
      /\ IF from = 60 THEN t = 22801 /\ d = 29 /\ Begins(t + 1) = 59 ELSE d <= Length(t)
  BY PartsArePlaced
<1>2. /\ to \in Int /\ u \in Nat /\ e \in 1..31
      /\ Begins(u) + e = (IF to > 60 THEN to - 1 ELSE to)
      /\ IF to = 60 THEN u = 22801 /\ e = 29 /\ Begins(u + 1) = 59 ELSE e <= Length(u)
  BY PartsArePlaced
<1> SUFFICES ASSUME u < t PROVE FALSE
  BY <1>1, <1>2
<1> HIDE DEF t, u, d, e
<1>3. Begins(u + 1) <= Begins(t) /\ Begins(u + 1) = Begins(u) + Length(u) /\ Begins(u) \in Int /\ Begins(t) \in Int
      /\ Length(u) \in 28..31
  <2>1. u + 1 \in Nat /\ u + 1 <= t
    BY <1>1, <1>2
  <2> QED
    BY <1>1, <1>2, <2>1, MonthsAscend, MonthsFollow
<1>4. d \in Int /\ d >= 1 /\ e \in Int
  BY <1>1, <1>2
<1>5. CASE to = 60
  <2>1. from < 60
    BY <1>1, <1>2, <1>5
  <2> QED
    BY <1>1, <1>2, <1>3, <1>4, <1>5, <2>1
<1>6. CASE to # 60
  <2>1. Begins(u) + e < Begins(t) + d
    BY <1>2, <1>3, <1>4, <1>6
  <2> QED
    BY <1>1, <1>2, <1>6, <2>1
<1> QED
  BY <1>5, <1>6

(* A month cut to thirty days where the day it ends on depends on the first. *)
American(a, b) ==
    LET d1 == IF a.d = 31 THEN 30 ELSE a.d
    IN 360 * (b.y - a.y) + 30 * (b.m - a.m) + (IF b.d = 31 /\ d1 >= 30 THEN 30 ELSE b.d) - d1

(* And whatever the other day is. *)
European(a, b) == 360 * (b.y - a.y) + 30 * (b.m - a.m) + Min({b.d, 30}) - Min({a.d, 30})

(* Months of thirty days are off by no more than the day they are cut to.   *)
LEMMA ThirtiesAreClose ==
    ASSUME NEW a, a.y \in Int, a.m \in Int, a.d \in 1..31, NEW b, b.y \in Int, b.m \in Int, b.d \in 1..31,
           NEW thirties \in {American(a, b), European(a, b)}
    PROVE  LET over == thirties - 30 * (IndexOf(b) - IndexOf(a)) IN
           /\ thirties \in Int /\ over \in Int
           /\ over - (b.d - a.d) \in {-1, 0, 1} /\ (a.d = b.d => over = 0)
<1> DEFINE over == thirties - 30 * (IndexOf(b) - IndexOf(a))
           ay == a.y
           am == a.m
           ad == a.d
           by == b.y
           bm == b.m
           bd == b.d
           d1 == IF ad = 31 THEN 30 ELSE ad
           d2 == IF bd = 31 /\ d1 >= 30 THEN 30 ELSE bd
           d3 == IF bd = 31 THEN 30 ELSE bd
           months == 12 * (by - ay) + bm - am
<1>1. ay \in Int /\ am \in Int /\ ad \in 1..31 /\ by \in Int /\ bm \in Int /\ bd \in 1..31
  OBVIOUS
<1>2. American(a, b) = 360 * (by - ay) + 30 * (bm - am) + d2 - d1
  BY DEF American
<1>3. IndexOf(a) = 12 * ay + am - 1 /\ IndexOf(b) = 12 * by + bm - 1
  BY DEF IndexOf
<1>4. European(a, b) = 360 * (by - ay) + 30 * (bm - am) + d3 - d1
  <2>1. ad \in Int /\ bd \in Int /\ 30 \in Int
    BY <1>1
  <2>2. Min({ad, 30}) = (IF ad <= 30 THEN ad ELSE 30) /\ Min({bd, 30}) = (IF bd <= 30 THEN bd ELSE 30)
    <3> HIDE DEF ad, bd
    <3> QED
      BY <2>1, LesserAndGreater
  <2>3. Min({ad, 30}) = d1 /\ Min({bd, 30}) = d3
    BY <1>1, <2>2
  <2> HIDE DEF d1, d3
  <2> QED
    BY <2>3 DEF European
<1> HIDE DEF ay, am, ad, by, bm, bd
<1>5. 360 * (by - ay) + 30 * (bm - am) = 30 * months /\ IndexOf(b) - IndexOf(a) = months /\ months \in Int
  BY <1>1, <1>3
<1>6. d1 \in Int /\ d2 \in Int /\ d3 \in Int /\ ad \in Int /\ bd \in Int
  BY <1>1
<1>7. (d1 = ad \/ d1 = ad - 1) /\ (d2 = bd \/ d2 = bd - 1) /\ (d3 = bd \/ d3 = bd - 1) /\ (ad = bd => d1 = d2 /\ d1 = d3)
  BY <1>1
<1> HIDE DEF d1, d2, d3, months
<1>8. American(a, b) = 30 * months + (d2 - d1) /\ European(a, b) = 30 * months + (d3 - d1)
  BY <1>2, <1>4, <1>5, <1>6
<1>9. over = d2 - d1 \/ over = d3 - d1
  <2>1. thirties = 30 * months + (d2 - d1) \/ thirties = 30 * months + (d3 - d1)
    BY <1>8
  <2> QED
    BY <1>5, <1>6, <2>1
<1>10. thirties \in Int
  BY <1>5, <1>6, <1>8
<1> HIDE DEF over
<1>11. over \in Int /\ over - (bd - ad) \in {-1, 0, 1} /\ (ad = bd => over = 0)
  BY <1>6, <1>7, <1>9
<1> QED
  BY <1>10, <1>11 DEF ad, bd, over

(* A fraction of a year by each basis, either way round. *)
LEMMA FractionIs ==
    ASSUME NEW from \in Int, NEW to \in Int, from <= to
    PROVE  /\ YearFrac(from, to, 0) = <<American(SerialToParts(from), SerialToParts(to)), 360>>
           /\ YearFrac(from, to, 4) = <<European(SerialToParts(from), SerialToParts(to)), 360>>
           /\ YearFrac(from, to, 1)[2] = DaysInYears(SerialToParts(from).y, SerialToParts(to).y)
           /\ \A basis \in 0..4 : YearFrac(to, from, basis) = YearFrac(from, to, basis)
<1>1. Min({from, to}) = from /\ Max({from, to}) = to
  BY LesserAndGreater
<1>2. Min({to, from}) = from /\ Max({to, from}) = to
  BY LesserAndGreater
<1>3. YearFrac(from, to, 0) = <<American(SerialToParts(from), SerialToParts(to)), 360>>
  BY <1>1 DEF YearFrac, Thirty360, American
<1>4. YearFrac(from, to, 4) = <<European(SerialToParts(from), SerialToParts(to)), 360>>
  <2> DEFINE a == SerialToParts(Min({from, to}))
             b == SerialToParts(Max({from, to}))
             d1 == Min({a.d, 30})
             d2 == Min({b.d, 30})
  <2>1. Thirty360(a, b, TRUE) = 360 * (b.y - a.y) + 30 * (b.m - a.m) + d2 - d1
    BY DEF Thirty360
  <2>2. Thirty360(a, b, TRUE) = European(a, b)
    BY <2>1 DEF European
  <2>3. YearFrac(from, to, 4) = <<Thirty360(a, b, TRUE), 360>>
    <3> DEFINE american == Thirty360(a, b, FALSE)
               european == Thirty360(a, b, TRUE)
               high == Max({from, to})
               low == Min({from, to})
               years == b.y - a.y + 1
               days == DaysInYears(a.y, b.y)
    <3>1. YearFrac(from, to, 4) =
            CASE 4 = 0 -> <<american, 360>>
              [] 4 = 4 -> <<european, 360>>
              [] 4 = 2 -> <<high - low, 360>>
              [] 4 = 3 -> <<high - low, 365>>
              [] OTHER -> <<(high - low) * years, days>>
      BY Zenon DEF YearFrac
    <3> HIDE DEF american, european, high, low, years, days
    <3>2. YearFrac(from, to, 4) = <<european, 360>>
      BY <3>1
    <3> QED
      BY <3>2 DEF european
  <2> QED
    BY <1>1, <2>2, <2>3
<1>5. YearFrac(from, to, 1)[2] = DaysInYears(SerialToParts(from).y, SerialToParts(to).y)
  BY <1>1 DEF YearFrac
<1>6. \A basis \in 0..4 : YearFrac(to, from, basis) = YearFrac(from, to, basis)
  BY <1>1, <1>2 DEF YearFrac
<1> QED
  BY <1>3, <1>4, <1>5, <1>6

(* Fractions of a year agree with the days and the months they are of. *)
LEMMA FractionsAlwaysAgree ==
    ASSUME NEW from, NEW to
    PROVE  FractionsAgree(from, to)
<1> DEFINE a == SerialToParts(from)
           b == SerialToParts(to)
           months == 12 * (b.y - a.y) + b.m - a.m
           spare == 3 + 2 * months
<1> SUFFICES ASSUME a # NoDate, b # NoDate, from <= to
             PROVE  /\ a.d = b.d => \A basis \in {0, 4} : YearFrac(from, to, basis) = <<30 * months, 360>>
                    /\ \A basis \in {0, 4} : YearFrac(from, to, basis)[1] - (to - from) \in -spare..spare
                    /\ \A basis \in 0..4 : YearFrac(to, from, basis) = YearFrac(from, to, basis)
                    /\ a.y = b.y => YearFrac(from, to, 1)[2] \in {365, 366}
  BY DEF FractionsAgree
<1> DEFINE t == IndexOf(a)
           u == IndexOf(b)
<1>1. /\ from \in Int /\ t \in Nat /\ a.y \in Int /\ a.m \in 1..12 /\ a.d \in 1..31
      /\ Begins(t) + a.d = (IF from > 60 THEN from - 1 ELSE from)
  BY PartsArePlaced
<1>2. /\ to \in Int /\ u \in Nat /\ b.y \in Int /\ b.m \in 1..12 /\ b.d \in 1..31
      /\ Begins(u) + b.d = (IF to > 60 THEN to - 1 ELSE to)
  BY PartsArePlaced
<1>3. t <= u
  BY PartsInOrder
<1>4. /\ YearFrac(from, to, 0) = <<American(a, b), 360>>
      /\ YearFrac(from, to, 4) = <<European(a, b), 360>>
      /\ YearFrac(from, to, 1)[2] = DaysInYears(a.y, b.y)
      /\ \A basis \in 0..4 : YearFrac(to, from, basis) = YearFrac(from, to, basis)
  BY <1>1, <1>2, FractionIs
<1>5. months = u - t /\ months \in Nat
  <2> DEFINE ay == a.y
             am == a.m
             bi == b.y
             bm == b.m
  <2>1. ay \in Int /\ am \in Int /\ bi \in Int /\ bm \in Int /\ t = 12 * ay + am - 1 /\ u = 12 * bi + bm - 1
    BY <1>1, <1>2 DEF IndexOf
  <2>2. months = 12 * (bi - ay) + bm - am
    OBVIOUS
  <2> HIDE DEF ay, am, bi, bm, t, u, months
  <2> QED
    BY <1>1, <1>2, <1>3, <2>1, <2>2
<1> HIDE DEF a, b, months, t, u
<1>6. Begins(u) - Begins(t) \in (28 * (u - t))..(31 * (u - t)) /\ Begins(t) \in Int /\ Begins(u) \in Int
  <2>1. t \in Nat /\ u \in Nat /\ t \in Int /\ u \in Int
    BY <1>1, <1>2
  <2>2. Begins(u) - Begins(t) \in (28 * (u - t))..(31 * (u - t))
    BY <1>3, <2>1, MonthsApart
  <2>3. Begins(t) \in Int /\ Begins(u) \in Int
    BY <2>1, MonthsFollow
  <2> QED
    BY <2>2, <2>3
<1>7. ASSUME NEW thirties \in {American(a, b), European(a, b)}
      PROVE  /\ a.d = b.d => thirties = 30 * months
             /\ thirties - (to - from) \in -spare..spare
  <2> DEFINE over == thirties - 30 * (u - t)
  <2>1. /\ over \in Int /\ thirties \in Int
        /\ over - (b.d - a.d) \in {-1, 0, 1} /\ (a.d = b.d => over = 0)
    <3>1. a.m \in Int /\ b.m \in Int /\ a.y \in Int /\ b.y \in Int /\ a.d \in 1..31 /\ b.d \in 1..31
      BY <1>1, <1>2
    <3>2. t = IndexOf(a) /\ u = IndexOf(b)
      BY DEF t, u
    <3> HIDE DEF over
    <3>3. LET more == thirties - 30 * (IndexOf(b) - IndexOf(a)) IN
          /\ thirties \in Int /\ more \in Int
          /\ more - (b.d - a.d) \in {-1, 0, 1} /\ (a.d = b.d => more = 0)
      BY <3>1, ThirtiesAreClose
    <3> QED
      BY <3>2, <3>3 DEF over
  <2>6. thirties = 30 * months + over
    <3>1. t \in Int /\ u \in Int
      BY <1>1, <1>2
    <3> QED
      BY <1>5, <2>1, <3>1
  <2> HIDE DEF over
  <2> DEFINE days == Begins(u) - Begins(t)
  <2>2. days \in Int /\ days >= 28 * months /\ days <= 31 * months /\ a.d \in Int /\ b.d \in Int
    BY <1>1, <1>2, <1>5, <1>6
  <2>3. to - from - days - (b.d - a.d) \in {0, 1}
    BY <1>1, <1>2, <1>6, <2>2
  <2> HIDE DEF days
  <2>4. a.d = b.d => thirties = 30 * months
    BY <1>5, <2>1, <2>6
  <2>5. thirties - (to - from) \in -spare..spare
    <3> DEFINE apart == b.d - a.d
    <3>1. thirties = 30 * months + over /\ over \in Int /\ apart \in Int /\ over <= apart + 1 /\ over >= apart - 1
          /\ to - from >= days + apart /\ to - from <= days + apart + 1
      BY <1>1, <1>2, <1>5, <2>1, <2>2, <2>3, <2>6
    <3> HIDE DEF apart
    <3>2. from \in Int /\ to \in Int /\ months \in Int /\ days \in Int /\ days >= 28 * months /\ days <= 31 * months
          /\ months >= 0
      BY <1>1, <1>2, <1>5, <2>2
    <3>3. thirties - (to - from) <= 3 + 2 * months /\ thirties - (to - from) >= -(3 + 2 * months)
      BY <3>1, <3>2
    <3> QED
      BY <3>1, <3>2, <3>3
  <2> QED
    BY <2>4, <2>5
<1>8. a.y = b.y => YearFrac(from, to, 1)[2] \in {365, 366}
  <2> SUFFICES ASSUME a.y = b.y PROVE YearFrac(from, to, 1)[2] \in {365, 366}
    OBVIOUS
  <2>1. YearFrac(from, to, 1)[2] = DaysInYears(a.y, a.y)
    BY <1>4
  <2>2. YearStart(a.y) \in Int /\ YearStart(a.y + 1) = YearStart(a.y) + (IF IsLeap(a.y) THEN 366 ELSE 365)
    BY <1>1, YearsHaveDays
  <2> QED
    BY <2>1, <2>2 DEF DaysInYears
<1>9. a.d = b.d => \A basis \in {0, 4} : YearFrac(from, to, basis) = <<30 * months, 360>>
  BY <1>4, <1>7
<1>10. \A basis \in {0, 4} : YearFrac(from, to, basis)[1] - (to - from) \in -spare..spare
  BY <1>4, <1>7
<1> QED
  BY <1>4, <1>8, <1>9, <1>10

----------------------------------------------------------------------------
(* Times of day.                                                            *)

(* The parts of a time of day are those it is made of. *)
LEMMA PartsOfATime ==
    ASSUME NEW h \in Nat, h < 24, NEW m \in Nat, m < 60, NEW s \in Nat, s < 60,
           NEW total, total = 3600 * h + 60 * m + s
    PROVE  Hms(total) = <<h, m, s>> /\ TimeOf(h, m, s) = total
<1>1. total \div 3600 = h
  OBVIOUS
<1>2. total % 3600 = 60 * m + s /\ (60 * m + s) \div 60 = m
  OBVIOUS
<1>3. total % 60 = s
  OBVIOUS
<1>4. ~(total < 0) /\ total % 86400 = total
  OBVIOUS
<1> QED
  BY <1>1, <1>2, <1>3, <1>4 DEF Hms, TimeOf, SecondsPerDay

(* A written time is the time of its parts, whatever they are. *)
LEMMA TimesAlwaysAgree ==
    ASSUME NEW h \in Nat, NEW m \in Nat, NEW s \in Nat, NEW half \in {"none", "AM", "PM"}
    PROVE  TimesAgree(h, m, s, half)
<1> DEFINE written == TimeValue(h, m, s, half)
           noon == IF half = "PM" /\ h < 12 THEN 12 ELSE IF half = "AM" /\ h = 12 THEN -12 ELSE 0
           hour == IF (half = "none" /\ h < 24) \/ (half # "none" /\ h <= 12) THEN h + noon ELSE -1
           time == TimeOf(h, m, s)
<1>1. written = IF m > 59 \/ s > 59 \/ hour = -1 THEN -1 ELSE 3600 * hour + 60 * m + s
  <2>1. CASE half = "none"
    BY <2>1 DEF TimeValue, NoTime
  <2>2. CASE half = "AM"
    BY <2>2 DEF TimeValue, NoTime
  <2>3. CASE half = "PM"
    BY <2>3 DEF TimeValue, NoTime
  <2> QED
    BY <2>1, <2>2, <2>3
<1>2. hour = -1 \/ (hour = h + noon /\ hour \in Nat /\ hour < 24)
  OBVIOUS
<1> HIDE DEF hour
<1>3. ASSUME written # NoTime
      PROVE  written = TimeOf(h + noon, m, s) /\ Hms(written) = <<h + noon, m, s>>
  <2>1. m < 60 /\ s < 60 /\ hour # -1
    BY <1>1, <1>3 DEF NoTime
  <2>2. hour = h + noon /\ hour \in Nat /\ hour < 24
    BY <1>2, <2>1
  <2> HIDE DEF noon
  <2>3. written = 3600 * hour + 60 * m + s
    BY <1>1, <2>1
  <2> HIDE DEF written, hour
  <2>4. Hms(written) = <<hour, m, s>> /\ TimeOf(hour, m, s) = written
    <3>1. hour \in Nat /\ hour < 24 /\ m < 60 /\ s < 60
      BY <2>1, <2>2
    <3> QED
      BY <2>3, <3>1, PartsOfATime
  <2> QED
    BY <2>2, <2>3, <2>4
<1>4. TimeValue(Hms(time)[1], Hms(time)[2], Hms(time)[3], "none") = time
  <2>1. time \in Nat /\ time < 86400
    <3> DEFINE total == 3600 * h + 60 * m + s
    <3>1. total \in Nat /\ time = total % 86400
      BY DEF TimeOf, SecondsPerDay
    <3> HIDE DEF total, time
    <3>2. total % 86400 \in Nat /\ total % 86400 < 86400
      BY <3>1
    <3> QED
      BY <3>1, <3>2
  <2> DEFINE a == time \div 3600
             b == (time % 3600) \div 60
             c == time % 60
  <2>2. Hms(time)[1] = a /\ Hms(time)[2] = b /\ Hms(time)[3] = c
    BY DEF Hms
  <2> HIDE DEF time
  <2>3. /\ a \in Nat /\ a < 24 /\ b \in Nat /\ b < 60 /\ c \in Nat /\ c < 60
        /\ time = 3600 * a + 60 * b + c
    <3> DEFINE rest == time % 3600
    <3>1. a \in Nat /\ a < 24 /\ rest \in Nat /\ rest < 3600 /\ time = 3600 * a + rest
      BY <2>1
    <3>2. c = rest % 60
      BY <2>1
    <3> HIDE DEF rest, a, c
    <3>3. b \in Nat /\ b < 60 /\ rest = 60 * b + c /\ c \in Nat /\ c < 60
      <4>1. b = rest \div 60
        BY DEF rest
      <4> HIDE DEF b
      <4> QED
        BY <3>1, <3>2, <4>1
    <3> QED
      BY <3>1, <3>3
  <2> HIDE DEF a, b, c
  <2>4. TimeValue(a, b, c, "none") = 3600 * a + 60 * b + c
    BY <2>3 DEF TimeValue, NoTime
  <2> QED
    BY <2>2, <2>3, <2>4
<1> QED
  BY <1>3, <1>4 DEF TimesAgree

----------------------------------------------------------------------------
(* Months.                                                                  *)

(* The month behind a day's serial is one of the calendar.                  *)
LEMMA MonthBehind ==
    ASSUME NEW date, IsDay(date), DateToSerial(date) # 0, date.d = Length(IndexOf(date))
    PROVE  /\ IndexOf(date) + 1 \in Nat /\ InYears(YearOf(IndexOf(date) + 1))
           /\ DateAt(Begins(IndexOf(date) + 1)) = date
<1> DEFINE t == IndexOf(date)
           count == DayCount(date)
           hi == 12 * LastYear
<1>1. LastYear \in Nat /\ LastYear >= 1900 /\ LastSerial \in Nat
  BY BoundsAssumption
<1>2. t \in Nat /\ YearOf(t) = date.y /\ date.y \in 1899..LastYear /\ count = Begins(t) + date.d
  BY DayIsPlaced DEF IsDay
<1>3. t \in Int /\ t + 1 \in Nat /\ Begins(t + 1) = Begins(t) + Length(t) /\ Begins(t + 1) \in Int
  BY <1>2, MonthsFollow
<1>4. count = Begins(t + 1)
  BY <1>2, <1>3
<1>5. SerialOf(count) \in 1..LastSerial
  BY DayOfItsSerial
<1> HIDE DEF t, count, hi
<1>6. YearStart(LastYear) = Begins(hi) /\ hi \in Nat /\ Begins(hi) \in Int
  BY <1>1, YearBegins, MonthsFollow DEF hi
<1>7. t < hi
  <2> SUFFICES ASSUME hi <= t PROVE FALSE
    BY <1>2, <1>6
  <2>1. hi + 2 <= t + 2 /\ hi + 2 \in Nat /\ hi + 1 \in Nat /\ hi + 1 <= t + 1 /\ hi \in Int /\ hi + 1 \in Int
    BY <1>2, <1>3, <1>6
  <2>2. Begins(hi + 1) <= Begins(t + 1) /\ Begins(hi + 1) = Begins(hi) + Length(hi) /\ Length(hi) \in 28..31
    <3> DEFINE v == hi + 1
    <3>1. v \in Nat /\ v <= t + 1
      BY <2>1
    <3> HIDE DEF v
    <3>2. Begins(v) <= Begins(t + 1)
      BY <1>3, <3>1, MonthsAscend
    <3>3. Begins(hi + 1) = Begins(hi) + Length(hi) /\ Length(hi) \in 28..31
      BY <2>1, MonthsFollow
    <3> QED
      BY <3>2, <3>3 DEF v
  <2>3. count > Begins(hi) + 1
    BY <1>3, <1>4, <1>6, <2>2
  <2>4. SerialOf(count) <= LastSerial /\ SerialOf(count) >= count
    BY <1>1, <1>3, <1>4, <1>5 DEF SerialOf
  <2>5. LastSerial <= Begins(hi) + 1
    BY <1>6, CalendarAssumption
  <2> QED
    BY <1>1, <1>3, <1>4, <1>5, <1>6, <2>3, <2>4, <2>5
<1>8. InYears(YearOf(t + 1))
  <2>1. t + 1 <= 12 * LastYear
    BY <1>2, <1>6, <1>7 DEF hi
  <2>2. t >= 12 * 1899
    BY <1>2, <1>1 DEF YearOf
  <2>3. YearOf(t + 1) \in Int /\ YearOf(t + 1) >= 1899 /\ YearOf(t + 1) <= LastYear
    BY <1>1, <1>2, <2>1, <2>2 DEF YearOf
  <2> QED
    BY <1>1, <2>3 DEF InYears
<1>9. DateAt(count) = date
  BY DayOfItsCount DEF count
<1> QED
  BY <1>3, <1>4, <1>8, <1>9 DEF t

(* The end of the month so many on.                                         *)
LEMMA EndOfMonth ==
    ASSUME NEW serial \in 1..LastSerial, serial # 60, NEW months \in Int,
           NEW t, t = IndexOf(SerialToDate(serial)) + months, InYears(YearOf(t)),
           NEW end, end = Date(YearOf(t), MonthOf(t), Length(t))
    PROVE  IsDay(end) /\ IndexOf(end) = t /\ end.d = Length(t) /\ EoMonth(serial, months) = DateToSerial(end)
<1> DEFINE to == AddMonths(serial, months)
<1>1. t \in Nat /\ IsDay(to) /\ to # NoDate /\ IndexOf(to) = t
  BY MonthAdded
<1>2. to.y = YearOf(t) /\ to.m = MonthOf(t)
  BY <1>1, DayIsPlaced
<1>3. EoMonth(serial, months) = DateToSerial(end)
  BY <1>1, <1>2 DEF EoMonth, Length
<1>4. Length(t) \in 1..Length(t)
  BY <1>1, MonthsFollow
<1>5. IsDay(end) /\ IndexOf(end) = t /\ end.d = Length(t)
  BY <1>1, <1>4, PlacedIsDay
<1> QED
  BY <1>3, <1>5

(* EDATE, EOMONTH and DATE reach the same months. *)
LEMMA MonthsAlwaysAgree ==
    ASSUME NEW serial, NEW months \in Int
    PROVE  MonthsAgree(serial, months)
<1> DEFINE date == SerialToDate(serial)
           to == EDate(serial, months)
           end == EoMonth(serial, months)
           first == DateOf(date.y, date.m + months, 1)
<1> SUFFICES ASSUME IsDate(serial), to # NoSerial, end # NoSerial, first # NoSerial
             PROVE  /\ first <= to /\ to <= end
                    /\ SerialToDate(first).m = SerialToDate(end).m
                    /\ DateOf(date.y, date.m + months + 1, 0) = end
                    /\ EoMonth(end, -months) = EoMonth(serial, 0)
  BY DEF MonthsAgree
<1> DEFINE s == IndexOf(date)
           t == s + months
           x == AddMonths(serial, months)
           y == Date(YearOf(t), MonthOf(t), Length(t))
           z == Date(YearOf(t), MonthOf(t), 1)
<1>1. serial \in 1..LastSerial /\ serial # 60
  BY SerialsOfDays
<1>2. IsDay(date) /\ IsFourDigits(date.y)
  BY <1>1, DayOfSerial
<1>3. to = DateToSerial(x)
  BY DEF EDate
<1>4. /\ ~InYears(YearOf(t)) => x = NoDate
      /\ InYears(YearOf(t)) =>
            t \in Nat /\ IsDay(x) /\ IndexOf(x) = t
  BY <1>1, MonthAdded
<1>5. InYears(YearOf(t))
  BY <1>3, <1>4, NoDateHasNoSerial DEF NoSerial
<1>6. t \in Nat /\ IsDay(x) /\ IndexOf(x) = t
  BY <1>4, <1>5
<1>7. IsDay(y) /\ IndexOf(y) = t /\ y.d = Length(t) /\ end = DateToSerial(y)
  BY <1>1, <1>5, EndOfMonth
<1>8. IsDay(z) /\ IndexOf(z) = t /\ z.d = 1
  <2>1. 1 \in 1..Length(t)
    BY <1>6, MonthsFollow
  <2> QED
    BY <1>5, <1>6, <2>1, PlacedIsDay
<1>9. s \in Nat /\ s = 12 * date.y + date.m - 1 /\ date.y \in Nat /\ date.m \in 1..12 /\ YearOf(s) = date.y
  BY <1>2, DayIsPlaced DEF IndexOf
<1> HIDE DEF date, to, end, first, x, y, z
<1>10. first = DateToSerial(z)
  <2> DEFINE ay == date.y
             am == date.m + months
  <2>1. IsFourDigits(ay) /\ am \in Int /\ 1 \in Int /\ t = 12 * ay + am - 1
    BY <1>2, <1>9
  <2> HIDE DEF ay, am
  <2>2. FullYear(ay) = ay /\ DateFromParts(ay, am, 1) = DateAt(Begins(t) + 1)
    <3>1. t \in Nat /\ InYears(YearOf(t))
      BY <1>5, <1>6
    <3> HIDE DEF t
    <3> QED
      BY <2>1, <3>1, DateOfParts
  <2>3. DayCount(z) = Begins(t) + 1
    BY <1>8, DayIsPlaced
  <2>4. DateAt(Begins(t) + 1) = z
    BY <1>8, <2>3, DayOfItsCount
  <2>5. Date(ay, am, 1) # Date(1900, 2, 29)
    <3>1. Date(ay, am, 1).d = 1 /\ Date(1900, 2, 29).d = 29
      BY DEF Date
    <3> QED
      BY <3>1
  <2>6. DateOf(ay, am, 1) = DateToSerial(z)
    BY <2>2, <2>4, <2>5 DEF DateOf
  <2> QED
    BY <2>6 DEF first, ay, am
<1>11. to # 0 /\ end # 0 /\ first # 0
  BY DEF NoSerial
<1>12. x.d \in 1..31 /\ x.d <= Length(t) /\ Length(t) \in 28..31
  <2>1. x.d \in 1..31 /\ x.d \in 1..Length(t) /\ Length(t) \in 28..31
    BY <1>6, DayIsPlaced
  <2> QED
    BY <2>1
<1>13. first <= to
  <2>1. DayCount(z) <= DayCount(x)
    BY <1>6, <1>8, <1>12, DaysInOrder
  <2> QED
    BY <1>3, <1>6, <1>8, <1>10, <1>11, <2>1, SerialsInOrder
<1>14. to <= end
  <2>1. DayCount(x) <= DayCount(y)
    BY <1>6, <1>7, <1>12, DaysInOrder
  <2> QED
    BY <1>3, <1>6, <1>7, <1>11, <2>1, SerialsInOrder
<1>15. SerialToDate(end) = y /\ end \in 1..LastSerial /\ end # 60 /\ SerialToDate(first) = z
  BY <1>7, <1>8, <1>10, <1>11, DayOfItsSerial
<1>16. SerialToDate(first).m = SerialToDate(end).m
  <2>1. y.m = MonthOf(t) /\ z.m = MonthOf(t)
    BY <1>7, <1>8, DayIsPlaced
  <2> QED
    BY <1>15, <2>1
<1>17. DateOf(date.y, date.m + months + 1, 0) = end
  <2> DEFINE ay == date.y
             am == date.m + months + 1
             v == t + 1
  <2>1. v \in Nat /\ InYears(YearOf(v)) /\ DateAt(Begins(v)) = y
    BY <1>7, <1>11, MonthBehind
  <2>2. IsFourDigits(ay) /\ am \in Int /\ 0 \in Int /\ v = 12 * ay + am - 1
    BY <1>2, <1>9
  <2> HIDE DEF ay, am, v
  <2>3. FullYear(ay) = ay /\ DateFromParts(ay, am, 0) = DateAt(Begins(v) + 0)
    BY <2>1, <2>2, DateOfParts
  <2>4. Begins(v) + 0 = Begins(v)
    BY <2>1, MonthsFollow
  <2>5. Date(ay, am, 0) # Date(1900, 2, 29)
    <3>1. Date(ay, am, 0).d = 0 /\ Date(1900, 2, 29).d = 29
      BY DEF Date
    <3> QED
      BY <3>1
  <2>6. DateOf(ay, am, 0) = DateToSerial(y)
    BY <2>1, <2>3, <2>4, <2>5 DEF DateOf
  <2> QED
    BY <1>7, <2>6 DEF ay, am
<1>18. EoMonth(end, -months) = EoMonth(serial, 0)
  <2> DEFINE back == Date(YearOf(s), MonthOf(s), Length(s))
  <2>1. InYears(YearOf(s))
    BY <1>2, <1>9 DEF IsDay, InYears
  <2>2. s = IndexOf(SerialToDate(serial)) + 0
    BY <1>9 DEF date
  <2>3. s = IndexOf(SerialToDate(end)) + (-months) /\ -months \in Int /\ 0 \in Int
    BY <1>7, <1>9, <1>15
  <2> HIDE DEF s
  <2>4. EoMonth(serial, 0) = DateToSerial(back)
    BY <1>1, <2>1, <2>2, <2>3, EndOfMonth
  <2>5. EoMonth(end, -months) = DateToSerial(back)
    <3> DEFINE n == -months
    <3>1. n \in Int /\ s = IndexOf(SerialToDate(end)) + n
      BY <2>3
    <3> HIDE DEF n
    <3>2. EoMonth(end, n) = DateToSerial(back)
      BY <1>15, <2>1, <3>1, EndOfMonth
    <3> QED
      BY <3>2 DEF n
  <2> QED
    BY <2>4, <2>5
<1> QED
  BY <1>13, <1>14, <1>16, <1>17, <1>18 DEF first, end

----------------------------------------------------------------------------
(* Working days.                                                            *)

(* One step of a walk: to the next day, with one day less to go if it is a  *)
(* working day.                                                             *)
Stepped(walk, d, left, step, holidays) ==
    IF left = 0 THEN d
    ELSE IF d + step \notin 1..LastSerial THEN 0
    ELSE walk[d + step][IF IsWorked(d + step, holidays) THEN left - 1 ELSE left]

(* A walk takes one step after the other from every day. *)
IsWalk(walk, step, holidays) ==
    walk = [d \in 0..(LastSerial + 1) |-> [left \in Nat |-> Stepped(walk, d, left, step, holidays)]]

(* The days a walk can go on. *)
Room(d, step) == IF step = 1 THEN LastSerial + 1 - d ELSE d

(* A step leaves one day less to go on. *)
LEMMA LessRoom ==
    ASSUME NEW step \in {1, -1}, NEW d \in 0..(LastSerial + 1)
    PROVE  /\ Room(d, step) \in 0..(LastSerial + 1)
           /\ d + step \in 1..LastSerial =>
                d + step \in 0..(LastSerial + 1) /\ Room(d, step) >= 1 /\ Room(d + step, step) = Room(d, step) - 1
BY BoundsAssumption DEF Room

(* There is a walk to take. *)
LEMMA WalkExists ==
    ASSUME NEW step \in {1, -1}, NEW holidays
    PROVE  \E walk : IsWalk(walk, step, holidays)
<1> DEFINE Days == 0..(LastSerial + 1)
           Rec(g, m) == /\ g = [d \in Days |-> [left \in Nat |-> g[d][left]]]
                        /\ \A d \in Days, left \in Nat : Room(d, step) <= m => g[d][left] = Stepped(g, d, left, step, holidays)
           Good == {m \in Nat : \E g : Rec(g, m)}
<1>1. LastSerial \in Nat
  BY BoundsAssumption
<1>2. 0 \in Good
  <2> DEFINE g == [d \in Days |-> [left \in Nat |-> IF left = 0 THEN d ELSE 0]]
  <2>1. g = [d \in Days |-> [left \in Nat |-> g[d][left]]]
    OBVIOUS
  <2>2. ASSUME NEW d \in Days, NEW left \in Nat, Room(d, step) <= 0
        PROVE  g[d][left] = Stepped(g, d, left, step, holidays)
    <3>1. d + step \notin 1..LastSerial
      BY <1>1, <2>2, LessRoom
    <3>2. g[d][left] = IF left = 0 THEN d ELSE 0
      OBVIOUS
    <3> HIDE DEF g
    <3> QED
      BY <3>1, <3>2 DEF Stepped
  <2> HIDE DEF g
  <2>3. Rec(g, 0)
    BY <2>1, <2>2
  <2> QED
    BY <2>3
<1>3. ASSUME NEW m \in Nat, m \in Good
      PROVE  m + 1 \in Good
  <2>1. PICK g : Rec(g, m)
    BY <1>3
  <2> DEFINE h == [d \in Days |-> [left \in Nat |->
                    IF Room(d, step) = m + 1 THEN Stepped(g, d, left, step, holidays) ELSE g[d][left]]]
  <2>2. h = [d \in Days |-> [left \in Nat |-> h[d][left]]]
    OBVIOUS
  <2>3. \A d \in Days, left \in Nat :
            h[d][left] = IF Room(d, step) = m + 1 THEN Stepped(g, d, left, step, holidays) ELSE g[d][left]
    OBVIOUS
  <2> HIDE DEF h
  <2>4. ASSUME NEW d \in Days, NEW left \in Nat, Room(d, step) <= m + 1
        PROVE  h[d][left] = Stepped(h, d, left, step, holidays)
    <3>1. Stepped(h, d, left, step, holidays) = Stepped(g, d, left, step, holidays)
      <4>1. CASE left = 0 \/ d + step \notin 1..LastSerial
        BY <4>1 DEF Stepped
      <4>2. CASE left # 0 /\ d + step \in 1..LastSerial
        <5> DEFINE e == d + step
                   less == IF IsWorked(e, holidays) THEN left - 1 ELSE left
        <5>1. e \in Days /\ Room(d, step) >= 1 /\ Room(e, step) = Room(d, step) - 1 /\ Room(d, step) \in 0..(LastSerial + 1)
          BY <4>2, LessRoom
        <5>2. less \in Nat
          BY <4>2
        <5>3. Stepped(h, d, left, step, holidays) = h[e][less] /\ Stepped(g, d, left, step, holidays) = g[e][less]
          BY <4>2 DEF Stepped
        <5> HIDE DEF e, less, Days
        <5>4. h[e][less] = IF Room(e, step) = m + 1 THEN Stepped(g, e, less, step, holidays) ELSE g[e][less]
          BY <2>3, <5>1, <5>2
        <5>5. Room(e, step) # m + 1
          <6>1. Room(d, step) \in Int
            BY <1>1, <5>1
          <6> QED
            BY <2>4, <5>1, <6>1
        <5> QED
          BY <5>3, <5>4, <5>5
      <4> QED
        BY <4>1, <4>2
    <3>2. h[d][left] = IF Room(d, step) = m + 1 THEN Stepped(g, d, left, step, holidays) ELSE g[d][left]
      BY <2>3
    <3>3. Room(d, step) <= m => g[d][left] = Stepped(g, d, left, step, holidays)
      BY <2>1
    <3>4. Room(d, step) \in Int
      BY <1>1, LessRoom
    <3> QED
      BY <2>4, <3>1, <3>2, <3>3, <3>4
  <2>5. Rec(h, m + 1)
    <3> HIDE DEF Days
    <3> QED
      BY <2>2, <2>4
  <2>6. \E x : Rec(x, m + 1)
    BY <2>5
  <2>7. m + 1 \in Nat
    OBVIOUS
  <2> HIDE DEF Rec
  <2> QED
    BY <2>6, <2>7
<1> DEFINE last == LastSerial + 1
<1>4. last \in Good
  <2>1. last \in Nat /\ 0 \in Nat
    BY <1>1
  <2> HIDE DEF Good, last
  <2>2. \A k \in 0..(last - 1) : k \in Good => k + 1 \in Good
    <3>1. \A k \in 0..(last - 1) : k \in Nat
      BY <2>1
    <3> QED
      BY <1>3, <3>1
  <2>3. 0..last \subseteq Good
    BY <1>2, <2>1, <2>2, GoesOn
  <2> QED
    BY <2>1, <2>3
<1>5. PICK walk : Rec(walk, last)
  BY <1>4
<1>6. \A d \in Days, left \in Nat : walk[d][left] = Stepped(walk, d, left, step, holidays)
  <2>1. \A d \in Days : Room(d, step) <= last
    BY <1>1, LessRoom
  <2> QED
    BY <1>5, <2>1
<1>7. walk = [d \in Days |-> [left \in Nat |-> Stepped(walk, d, left, step, holidays)]]
  <2>1. walk = [d \in Days |-> [left \in Nat |-> walk[d][left]]]
    BY <1>5
  <2> HIDE DEF Days
  <2> QED
    BY <1>6, <2>1
<1> QED
  BY <1>7 DEF IsWalk

(* WORKDAY takes one. *)
LEMMA WorkdayWalks ==
    ASSUME NEW from, NEW days \in Int, NEW holidays, NEW step, step = IF days < 0 THEN -1 ELSE 1
    PROVE  \E walk : IsWalk(walk, step, holidays) /\ Workday(from, days, holidays) = walk[from][step * days]
<1> DEFINE Walk(w) == w = [d \in 0..(LastSerial + 1) |-> [left \in Nat |->
                          IF left = 0 THEN d
                          ELSE IF d + step \notin 1..LastSerial THEN NoSerial
                          ELSE w[d + step][IF IsWorked(d + step, holidays) THEN left - 1 ELSE left]]]
           walk == CHOOSE w : Walk(w)
<1>1. \A w : Walk(w) <=> IsWalk(w, step, holidays)
  BY DEF IsWalk, Stepped, NoSerial
<1>2. \E w : Walk(w)
  <2>1. step \in {1, -1}
    OBVIOUS
  <2> HIDE DEF Walk
  <2> QED
    BY <1>1, <2>1, WalkExists
<1>3. Walk(walk)
  <2> HIDE DEF Walk
  <2> QED
    BY <1>2
<1>4. Workday(from, days, holidays) = walk[from][step * days]
  BY DEF Workday
<1>5. IsWalk(walk, step, holidays)
  <2> HIDE DEF walk, Walk
  <2> QED
    BY <1>1, <1>3
<1> HIDE DEF walk
<1> QED
  BY <1>4, <1>5

(* The working days of a walk from one day to another: the day it starts    *)
(* from is not one of them.                                                 *)
Passed(d, r, step, holidays) ==
    IF step = 1 THEN {s \in (d + 1)..r : IsWorked(s, holidays)} ELSE {s \in r..(d - 1) : IsWorked(s, holidays)}

(* A day on the way of a walk, its start included. *)
IsAhead(d, r, step) == IF step = 1 THEN r >= d ELSE r <= d

(* A walk that arrives has passed as many working days as were to go, and   *)
(* the last of them is where it arrives.                                    *)
Arrives(walk, d, left, step, holidays) ==
    walk[d][left] # 0 =>
        /\ walk[d][left] \in Nat
        /\ IsAhead(d, walk[d][left], step)
        /\ Cardinality(Passed(d, walk[d][left], step, holidays)) = left
        /\ left > 0 => walk[d][left] # d /\ IsWorked(walk[d][left], holidays)

(* The days passed are finitely many. *)
LEMMA PassedAreFinite ==
    ASSUME NEW step \in {1, -1}, NEW d \in Nat, NEW r \in Nat, NEW holidays
    PROVE  IsFiniteSet(Passed(d, r, step, holidays))
<1>1. \E a \in Int, b \in Int : Passed(d, r, step, holidays) \subseteq a..b
  <2>1. CASE step = 1
    <3>1. Passed(d, r, step, holidays) \subseteq (d + 1)..r
      BY <2>1 DEF Passed
    <3>2. d + 1 \in Int /\ r \in Int
      OBVIOUS
    <3> QED
      BY <3>1, <3>2
  <2>2. CASE step = -1
    <3>1. Passed(d, r, step, holidays) \subseteq r..(d - 1)
      BY <2>2 DEF Passed
    <3>2. d - 1 \in Int /\ r \in Int
      OBVIOUS
    <3> QED
      BY <3>1, <3>2
  <2> QED
    BY <2>1, <2>2
<1>2. PICK a \in Int, b \in Int : Passed(d, r, step, holidays) \subseteq a..b
  BY <1>1
<1>3. IsFiniteSet(a..b)
  BY FS_Interval
<1> QED
  BY <1>2, <1>3, FS_Subset

(* A walk that starts a day earlier passes one day more if it works there.  *)
LEMMA PassedAreCounted ==
    ASSUME NEW step \in {1, -1}, NEW d \in Nat, NEW e \in Nat, e = d + step, NEW r \in Nat, NEW holidays,
           IsAhead(e, r, step)
    PROVE  Cardinality(Passed(d, r, step, holidays)) =
             Cardinality(Passed(e, r, step, holidays)) + IF IsWorked(e, holidays) THEN 1 ELSE 0
<1> DEFINE there == Passed(e, r, step, holidays)
           here == Passed(d, r, step, holidays)
<1>1. IsFiniteSet(there) /\ Cardinality(there) \in Nat
  BY PassedAreFinite, FS_CardinalityType
<1>2. /\ e \notin there
      /\ IsWorked(e, holidays) => here = there \union {e}
      /\ ~IsWorked(e, holidays) => here = there
  <2>1. CASE step = 1
    <3>1. (d + 1)..r = ((e + 1)..r) \union {e}
      BY <2>1 DEF IsAhead
    <3> QED
      BY <2>1, <3>1 DEF Passed
  <2>2. CASE step = -1
    <3>1. r..(d - 1) = (r..(e - 1)) \union {e}
      BY <2>2 DEF IsAhead
    <3> QED
      BY <2>2, <3>1 DEF Passed
  <2> QED
    BY <2>1, <2>2
<1> HIDE DEF there, here
<1>3. Cardinality(there \union {e}) = Cardinality(there) + 1
  BY <1>1, <1>2, FS_AddElement
<1>4. Cardinality(here) = Cardinality(there) + IF IsWorked(e, holidays) THEN 1 ELSE 0
  <2>1. CASE IsWorked(e, holidays)
    <3>1. here = there \union {e}
      BY <1>2, <2>1
    <3> QED
      BY <1>3, <2>1, <3>1
  <2>2. CASE ~IsWorked(e, holidays)
    <3>1. here = there
      BY <1>2, <2>2
    <3> QED
      BY <1>1, <2>2, <3>1
  <2> QED
    BY <2>1, <2>2
<1> QED
  BY <1>4 DEF here, there

(* One step of a walk that arrives from the next day on. *)
LEMMA ArrivesOn ==
    ASSUME NEW step \in {1, -1}, NEW holidays, NEW walk, IsWalk(walk, step, holidays),
           NEW d \in 0..(LastSerial + 1), NEW left \in Nat,
           \A less \in Nat : d + step \in 1..LastSerial => Arrives(walk, d + step, less, step, holidays)
    PROVE  Arrives(walk, d, left, step, holidays)
<1>1. LastSerial \in Nat
  BY BoundsAssumption
<1>2. \A x \in 0..(LastSerial + 1), k \in Nat : walk[x][k] = Stepped(walk, x, k, step, holidays)
  <2> DEFINE Days == 0..(LastSerial + 1)
             F(x) == [k \in Nat |-> Stepped(walk, x, k, step, holidays)]
  <2>1. walk = [x \in Days |-> F(x)]
    BY DEF IsWalk
  <2>2. \A x, k \in Nat : F(x)[k] = Stepped(walk, x, k, step, holidays)
    OBVIOUS
  <2> HIDE DEF Days, F
  <2>3. \A x \in Days : walk[x] = F(x)
    BY <2>1
  <2> QED
    BY <2>2, <2>3 DEF Days
<1>3. d \in Nat
  BY <1>1
<1>4. CASE left = 0
  <2>1. walk[d][left] = d
    BY <1>2, <1>4 DEF Stepped
  <2>2. Passed(d, d, step, holidays) = {}
    BY <1>3 DEF Passed
  <2>3. Cardinality(Passed(d, d, step, holidays)) = 0
    BY <2>2, FS_EmptySet
  <2> QED
    BY <1>3, <1>4, <2>1, <2>3 DEF Arrives, IsAhead
<1>5. CASE left # 0 /\ d + step \notin 1..LastSerial
  BY <1>2, <1>5 DEF Stepped, Arrives
<1>6. CASE left # 0 /\ d + step \in 1..LastSerial
  <2> DEFINE e == d + step
             worked == IsWorked(e, holidays)
             less == IF worked THEN left - 1 ELSE left
             r == walk[d][left]
  <2>1. e \in Nat /\ e \in 0..(LastSerial + 1) /\ e = d + step /\ e # 0
    BY <1>1, <1>6
  <2>2. less \in Nat /\ left = less + IF worked THEN 1 ELSE 0
    BY <1>6
  <2>3. r = walk[e][less]
    BY <1>2, <1>6 DEF Stepped
  <2>4. Arrives(walk, e, less, step, holidays)
    BY <1>6, <2>2
  <2>5. less = 0 => r = e /\ worked
    <3>1. less = 0 => worked
      BY <1>6, <2>2
    <3> HIDE DEF less, r, worked, e
    <3>2. less = 0 => walk[e][less] = e
      BY <1>2, <2>1, <2>2 DEF Stepped
    <3> QED
      BY <2>3, <3>1, <3>2
  <2> HIDE DEF less, r, e
  <2>6. ASSUME r # 0
        PROVE  /\ r \in Nat
               /\ IsAhead(d, r, step)
               /\ Cardinality(Passed(d, r, step, holidays)) = left
               /\ r # d /\ IsWorked(r, holidays)
    <3>1. /\ r \in Nat
          /\ IsAhead(e, r, step)
          /\ Cardinality(Passed(e, r, step, holidays)) = less
          /\ less > 0 => r # e /\ IsWorked(r, holidays)
      BY <2>3, <2>4, <2>6 DEF Arrives
    <3>2. IsAhead(d, r, step) /\ r # d
      BY <1>3, <2>1, <3>1 DEF IsAhead
    <3>3. IsWorked(r, holidays)
      <4>1. less = 0 \/ less > 0
        BY <2>2
      <4> QED
        BY <2>5, <3>1, <4>1
    <3>4. Cardinality(Passed(d, r, step, holidays)) = Cardinality(Passed(e, r, step, holidays)) + IF worked THEN 1 ELSE 0
      BY <1>3, <2>1, <3>1, PassedAreCounted
    <3>5. Cardinality(Passed(d, r, step, holidays)) = left
      BY <2>2, <3>1, <3>4
    <3> QED
      BY <3>1, <3>2, <3>3, <3>5
  <2> QED
    BY <2>6 DEF Arrives, r
<1> QED
  BY <1>4, <1>5, <1>6

(* Every walk does as it should from every day. *)
LEMMA WalksArrive ==
    ASSUME NEW step \in {1, -1}, NEW holidays, NEW walk, IsWalk(walk, step, holidays),
           NEW from \in 0..(LastSerial + 1), NEW days \in Nat
    PROVE  Arrives(walk, from, days, step, holidays)
<1> DEFINE Days == 0..(LastSerial + 1)
           Good == {m \in Nat : \A d \in Days, left \in Nat :
                        Room(d, step) <= m => Arrives(walk, d, left, step, holidays)}
           last == LastSerial + 1
<1>1. LastSerial \in Nat
  BY BoundsAssumption
<1>2. 0 \in Good
  <2>1. ASSUME NEW d \in Days, NEW left \in Nat, Room(d, step) <= 0
        PROVE  Arrives(walk, d, left, step, holidays)
    <3>1. d + step \notin 1..LastSerial
      BY <1>1, <2>1, LessRoom
    <3> QED
      BY <3>1, ArrivesOn
  <2> QED
    BY <2>1
<1>3. ASSUME NEW m \in Nat, m \in Good
      PROVE  m + 1 \in Good
  <2>1. ASSUME NEW d \in Days, NEW left \in Nat, Room(d, step) <= m + 1
        PROVE  Arrives(walk, d, left, step, holidays)
    <3>1. d + step \in 1..LastSerial => d + step \in Days /\ Room(d + step, step) <= m
      <4>1. Room(d, step) \in Int
        BY <1>1, LessRoom
      <4> QED
        BY <2>1, <4>1, LessRoom
    <3>2. \A less \in Nat : d + step \in 1..LastSerial => Arrives(walk, d + step, less, step, holidays)
      BY <1>3, <3>1
    <3> HIDE DEF Good
    <3> QED
      BY <3>2, ArrivesOn
  <2>2. m + 1 \in Nat
    OBVIOUS
  <2> QED
    BY <2>1, <2>2
<1>4. last \in Good
  <2>1. last \in Nat /\ 0 \in Nat
    BY <1>1
  <2> HIDE DEF Good, last
  <2>2. \A k \in 0..(last - 1) : k \in Good => k + 1 \in Good
    <3>1. \A k \in 0..(last - 1) : k \in Nat
      BY <2>1
    <3> QED
      BY <1>3, <3>1
  <2>3. 0..last \subseteq Good
    BY <1>2, <2>1, <2>2, GoesOn
  <2> QED
    BY <2>1, <2>3
<1>5. Room(from, step) <= last
  BY <1>1, LessRoom
<1> QED
  BY <1>4, <1>5

(* A working day is a Monday, a Tuesday, ... or a Friday. *)
LEMMA WorkedOnWeekdays ==
    ASSUME NEW serial, NEW holidays, IsWorked(serial, holidays)
    PROVE  WeekdayNumber(SerialToDate(serial), 2) \in 1..5
<1> DEFINE w == Weekday(SerialToDate(serial))
<1>1. w \in 1..5
  BY DEF IsWorked, IsWorkday
<1>2. WeekdayNumber(SerialToDate(serial), 2) = ((w + 6) % 7) + 1
  <2> HIDE DEF w
  <2>1. w = Weekday(SerialToDate(serial))
    BY DEF w
  <2>2. 2 # 1
    OBVIOUS
  <2> QED
    BY <2>1, <2>2, SMT DEF WeekdayNumber
<1> HIDE DEF w
<1>3. w = 1 \/ w = 2 \/ w = 3 \/ w = 4 \/ w = 5
  BY <1>1
<1>4. ((w + 6) % 7) + 1 \in 1..5
  BY <1>3
<1> QED
  BY <1>2, <1>4

(* Counted with the day the walk starts from, when it works. *)
LEMMA StartIsCounted ==
    ASSUME NEW step \in {1, -1}, NEW d \in Nat, NEW r \in Nat, r # d, IsAhead(d, r, step), NEW holidays
    PROVE  NetWorkdays(d, r, holidays) =
             step * (Cardinality(Passed(d, r, step, holidays)) + IF IsWorked(d, holidays) THEN 1 ELSE 0)
<1> DEFINE low == Min({d, r})
           high == Max({d, r})
           counted == {s \in low..high : IsWorked(s, holidays)}
           there == Passed(d, r, step, holidays)
           n == Cardinality(counted)
           k == Cardinality(there)
<1>1. low = (IF d <= r THEN d ELSE r) /\ high = (IF d <= r THEN r ELSE d)
  BY LesserAndGreater
<1>2. /\ d \notin there
      /\ IsWorked(d, holidays) => counted = there \union {d}
      /\ ~IsWorked(d, holidays) => counted = there
  <2> HIDE DEF low, high
  <2>1. CASE step = 1
    <3>1. low..high = ((d + 1)..r) \union {d}
      BY <1>1, <2>1 DEF IsAhead
    <3> QED
      BY <2>1, <3>1 DEF Passed
  <2>2. CASE step = -1
    <3>1. low..high = (r..(d - 1)) \union {d}
      BY <1>1, <2>2 DEF IsAhead
    <3> QED
      BY <2>2, <3>1 DEF Passed
  <2> QED
    BY <2>1, <2>2
<1>3. IsFiniteSet(there) /\ k \in Nat
  BY PassedAreFinite, FS_CardinalityType
<1>4. NetWorkdays(d, r, holidays) = (IF d <= r THEN 1 ELSE -1) * n
  BY DEF NetWorkdays
<1>5. (IF d <= r THEN 1 ELSE -1) = step
  BY DEF IsAhead
<1> HIDE DEF counted, there
<1>6. n = k + IF IsWorked(d, holidays) THEN 1 ELSE 0
  <2>1. CASE IsWorked(d, holidays)
    <3>1. counted = there \union {d}
      BY <1>2, <2>1
    <3>2. Cardinality(there \union {d}) = Cardinality(there) + 1
      BY <1>2, <1>3, FS_AddElement
    <3> QED
      BY <2>1, <3>1, <3>2
  <2>2. CASE ~IsWorked(d, holidays)
    <3>1. counted = there
      BY <1>2, <2>2
    <3> QED
      BY <1>3, <2>2, <3>1
  <2> QED
    BY <2>1, <2>2
<1>7. NetWorkdays(d, r, holidays) = step * n
  BY <1>4, <1>5
<1> HIDE DEF n, k
<1>8. NetWorkdays(d, r, holidays) = step * (k + IF IsWorked(d, holidays) THEN 1 ELSE 0)
  BY <1>6, <1>7
<1> QED
  BY <1>8 DEF k, there

(* WORKDAY and NETWORKDAYS agree, on any holidays. *)
LEMMA WorkdaysAlwaysAgree ==
    ASSUME NEW from \in 0..(LastSerial + 1), NEW days \in Int, NEW holidays
    PROVE  WorkdaysAgree(from, days, holidays)
<1> DEFINE to == Workday(from, days, holidays)
           counted == NetWorkdays(from, to, holidays)
           itself == IF IsWorked(from, holidays) THEN 1 ELSE 0
           step == IF days < 0 THEN -1 ELSE 1
           left == IF days < 0 THEN -days ELSE days
<1> SUFFICES ASSUME days # 0, to # 0
             PROVE  /\ IsWorked(to, holidays)
                    /\ WeekdayNumber(SerialToDate(to), 2) \in 1..5
                    /\ counted = IF days > 0 THEN days + itself ELSE days - itself
  BY DEF WorkdaysAgree, NoSerial
<1>1. LastSerial \in Nat /\ from \in Nat
  BY BoundsAssumption
<1>2. step \in {1, -1} /\ left \in Nat /\ left > 0 /\ step * days = left
  OBVIOUS
<1>3. PICK walk : IsWalk(walk, step, holidays) /\ to = walk[from][step * days]
  <2>1. \E walk : IsWalk(walk, step, holidays) /\ to = walk[from][step * days]
    <3> HIDE DEF step
    <3>1. step = IF days < 0 THEN -1 ELSE 1
      BY DEF step
    <3> QED
      BY <3>1, WorkdayWalks
  <2> QED
    BY <2>1
<1> HIDE DEF step, left, to
<1>4. to = walk[from][left]
  BY <1>2, <1>3
<1>5. Arrives(walk, from, left, step, holidays)
  BY <1>2, <1>3, WalksArrive
<1>6. /\ to \in Nat /\ to # from
      /\ IsAhead(from, to, step)
      /\ Cardinality(Passed(from, to, step, holidays)) = left
      /\ IsWorked(to, holidays)
  BY <1>2, <1>4, <1>5 DEF Arrives
<1>7. WeekdayNumber(SerialToDate(to), 2) \in 1..5
  BY <1>6, WorkedOnWeekdays
<1>8. counted = step * (left + itself)
  <2>1. counted = step * (Cardinality(Passed(from, to, step, holidays)) + itself)
    BY <1>1, <1>2, <1>6, StartIsCounted
  <2> QED
    BY <1>6, <2>1
<1>9. itself \in {0, 1}
  OBVIOUS
<1> HIDE DEF counted, itself
<1>10. counted = IF days > 0 THEN days + itself ELSE days - itself
  <2>1. CASE days > 0
    BY <1>8, <1>9, <2>1 DEF step, left
  <2>2. CASE days < 0
    BY <1>8, <1>9, <2>2 DEF step, left
  <2> QED
    BY <2>1, <2>2
<1> QED
  BY <1>6, <1>7, <1>10

----------------------------------------------------------------------------
(* Plans.                                                                   *)

(* Of a finite set a part is finite, and smaller if it is not all of it.    *)
LEMMA PartsAreSmaller ==
    ASSUME NEW S, IsFiniteSet(S), NEW Part, Part \subseteq S
    PROVE  /\ IsFiniteSet(Part) /\ Cardinality(Part) \in Nat /\ Cardinality(S) \in Nat
           /\ Cardinality(Part) <= Cardinality(S)
           /\ Part # S => Cardinality(Part) < Cardinality(S)
<1>1. Part \in SUBSET S
  OBVIOUS
<1>2. /\ IsFiniteSet(Part) /\ Cardinality(Part) <= Cardinality(S)
      /\ Cardinality(S) = Cardinality(Part) => S = Part
  BY <1>1, FS_Subset
<1>3. Cardinality(Part) \in Nat /\ Cardinality(S) \in Nat
  BY <1>2, FS_CardinalityType
<1> QED
  BY <1>2, <1>3

(* How many of a set of positions come no later than one. *)
RankIn(S, i) == Cardinality({j \in S : j <= i})

(* A rank is a number, from none to all of them, one more at each of them.  *)
LEMMA RanksCount ==
    ASSUME NEW N \in Nat, NEW S, S \subseteq 1..N
    PROVE  /\ IsFiniteSet(S) /\ Cardinality(S) \in Nat
           /\ \A i \in 0..N : RankIn(S, i) \in Nat
           /\ RankIn(S, 0) = 0 /\ RankIn(S, N) = Cardinality(S)
           /\ \A i \in 1..N : i \in S => RankIn(S, i) = RankIn(S, i - 1) + 1
           /\ \A i \in 1..N : i \notin S => RankIn(S, i) = RankIn(S, i - 1)
<1>0. \A j \in S : j \in Int /\ 1 <= j /\ j <= N
  <2>1. \A j \in S : j \in 1..N
    OBVIOUS
  <2> QED
    BY <2>1
<1>1. IsFiniteSet(S) /\ Cardinality(S) \in Nat
  <2>1. IsFiniteSet(1..N)
    BY FS_Interval
  <2> QED
    BY <2>1, PartsAreSmaller
<1>2. ASSUME NEW i \in 0..N
      PROVE  IsFiniteSet({j \in S : j <= i}) /\ RankIn(S, i) \in Nat
  <2> DEFINE R == {j \in S : j <= i}
  <2>1. R \subseteq S
    OBVIOUS
  <2> HIDE DEF R
  <2>2. IsFiniteSet(R) /\ Cardinality(R) \in Nat
    BY <1>1, <2>1, PartsAreSmaller
  <2> QED
    BY <2>2 DEF RankIn, R
<1>3. RankIn(S, 0) = 0
  <2>1. {j \in S : j <= 0} = {}
    <3>1. ASSUME NEW j \in S
          PROVE  ~(j <= 0)
      BY <1>0
    <3> QED
      BY <3>1
  <2> QED
    BY <2>1, FS_EmptySet DEF RankIn
<1>4. RankIn(S, N) = Cardinality(S)
  <2>1. {j \in S : j <= N} = S
    BY <1>0
  <2> QED
    BY <2>1 DEF RankIn
<1>5. ASSUME NEW i \in 1..N
      PROVE  /\ i \in S => RankIn(S, i) = RankIn(S, i - 1) + 1
             /\ i \notin S => RankIn(S, i) = RankIn(S, i - 1)
  <2> DEFINE R == {j \in S : j <= i - 1}
  <2>1. i - 1 \in 0..N
    OBVIOUS
  <2>2. IsFiniteSet(R)
    BY <1>2, <2>1
  <2>3. i \notin R
    OBVIOUS
  <2>0. ASSUME NEW j \in S
        PROVE  (j <= i) <=> (j <= i - 1 \/ j = i)
    BY <1>0
  <2>4. ASSUME i \in S
        PROVE  {j \in S : j <= i} = R \cup {i}
    BY <2>0, <2>4
  <2>5. ASSUME i \notin S
        PROVE  {j \in S : j <= i} = R
    BY <2>0, <2>5
  <2>6. RankIn(S, i - 1) = Cardinality(R)
    BY DEF RankIn
  <2> HIDE DEF R
  <2>7. i \notin R => Cardinality(R \cup {i}) = Cardinality(R) + 1
    BY <2>2, FS_AddElement
  <2> QED
    BY <2>3, <2>4, <2>5, <2>6, <2>7 DEF RankIn
<1> QED
  BY <1>1, <1>2, <1>3, <1>4, <1>5

(* There is an nth of them. *)
LEMMA NthIs ==
    ASSUME NEW N \in Nat, NEW S, S \subseteq 1..N, NEW n \in 1..Cardinality(S)
    PROVE  Nth(S, n) \in S /\ RankIn(S, Nth(S, n)) = n
<1> DEFINE From == {i \in 0..N : RankIn(S, i) >= n}
<1>1. /\ Cardinality(S) \in Nat
      /\ \A i \in 0..N : RankIn(S, i) \in Nat
      /\ RankIn(S, 0) = 0 /\ RankIn(S, N) = Cardinality(S)
      /\ \A i \in 1..N : i \in S => RankIn(S, i) = RankIn(S, i - 1) + 1
      /\ \A i \in 1..N : i \notin S => RankIn(S, i) = RankIn(S, i - 1)
  BY RanksCount
<1>2. From \subseteq Nat /\ N \in From
  BY <1>1
<1> HIDE DEF From
<1>3. PICK i \in From : \A j \in From : i <= j
  BY <1>2, LeastNumber
<1> USE DEF From
<1>4. i \in 1..N /\ i - 1 \in 0..N
  BY <1>1, <1>3
<1>5. i - 1 \notin From
  <2>1. ~(i <= i - 1)
    BY <1>4
  <2> HIDE DEF From
  <2> QED
    BY <1>3, <2>1
<1>6. RankIn(S, i - 1) < n /\ RankIn(S, i) >= n
  BY <1>1, <1>3, <1>4, <1>5
<1>7. i \in S /\ RankIn(S, i) = n
  BY <1>1, <1>4, <1>6
<1> QED
  BY <1>7 DEF Nth, RankIn

(* Each of them is the one of its rank. *)
LEMMA RankIsOfOne ==
    ASSUME NEW N \in Nat, NEW S, S \subseteq 1..N, NEW i \in S
    PROVE  RankIn(S, i) \in 1..Cardinality(S) /\ Nth(S, RankIn(S, i)) = i
<1>0. \A j \in S : j \in Nat /\ j \in 1..N
  <2>1. \A j \in S : j \in 1..N
    OBVIOUS
  <2> QED
    BY <2>1
<1>1. ASSUME NEW j \in S, NEW k \in S, j < k
      PROVE  RankIn(S, j) < RankIn(S, k)
  <2> DEFINE Low == {m \in S : m <= j}
             High == {m \in S : m <= k}
  <2>0. k <= k /\ ~(k <= j)
    BY <1>0, <1>1
  <2>5. ASSUME NEW m \in S, m <= j
        PROVE  m <= k
    BY <1>0, <1>1, <2>5
  <2>1. Low \subseteq High /\ k \in High /\ k \notin Low /\ High \subseteq S
    BY <2>0, <2>5
  <2> HIDE DEF Low, High
  <2>2. IsFiniteSet(High)
    BY <2>1, RanksCount, PartsAreSmaller
  <2>3. Low # High
    BY <2>1
  <2>4. Cardinality(Low) < Cardinality(High)
    BY <2>1, <2>2, <2>3, PartsAreSmaller
  <2> QED
    BY <2>4 DEF Low, High, RankIn
<1>2. RankIn(S, i) \in Nat
  <2>1. i \in 0..N
    BY <1>0
  <2> QED
    BY <2>1, RanksCount
<1>3. RankIn(S, i) >= 1
  <2>1. RankIn(S, i) = RankIn(S, i - 1) + 1 /\ RankIn(S, i - 1) \in Nat
    <3>1. i \in 1..N /\ i - 1 \in 0..N
      OBVIOUS
    <3> QED
      BY <3>1, RanksCount
  <2> QED
    BY <2>1
<1>4. RankIn(S, i) <= Cardinality(S)
  <2> DEFINE Low == {m \in S : m <= i}
  <2>1. Low \subseteq S
    OBVIOUS
  <2> HIDE DEF Low
  <2>2. Cardinality(Low) <= Cardinality(S)
    BY <2>1, RanksCount, PartsAreSmaller
  <2> QED
    BY <2>2 DEF Low, RankIn
<1>5. Cardinality(S) \in Nat
  BY RanksCount
<1> DEFINE n == RankIn(S, i)
<1>6. n \in 1..Cardinality(S)
  BY <1>2, <1>3, <1>4, <1>5
<1> HIDE DEF n
<1>7. Nth(S, n) \in S /\ RankIn(S, Nth(S, n)) = n
  BY <1>6, NthIs
<1>8. Nth(S, n) = i
  <2>1. RankIn(S, i) = n
    BY DEF n
  <2>2. Nth(S, n) \in Nat /\ i \in Nat
    BY <1>0, <1>7
  <2>3. n \in Nat
    BY <1>2 DEF n
  <2> DEFINE m == Nth(S, n)
  <2>4. m \in S /\ RankIn(S, m) = n /\ m \in Nat
    BY <1>7, <2>2
  <2> HIDE DEF m
  <2>5. ~(m < i) /\ ~(i < m)
    BY <1>1, <2>1, <2>3, <2>4
  <2>6. m = i
    BY <2>2, <2>4, <2>5
  <2> QED
    BY <2>6 DEF m
<1> QED
  BY <1>6, <1>8 DEF n

(* A list by its places is as long as they are many. *)
LEMMA ListIsSequence ==
    ASSUME NEW s, NEW k \in Nat, s = [i \in 1..k |-> s[i]]
    PROVE  Len(s) = k /\ IsSequence(s) /\ DOMAIN s = 1..k
<1>1. DOMAIN s = 1..k
  OBVIOUS
<1>2. Len(s) = k
  <2> DEFINE Part == {s[i] : i \in 1..k}
  <2>1. s \in [1..k -> Part]
    OBVIOUS
  <2>2. s \in Seq(Part)
    BY <2>1
  <2>3. Len(s) \in Nat /\ DOMAIN s = 1..Len(s)
    BY <2>2
  <2> QED
    BY <1>1, <2>3
<1> QED
  BY <1>1, <1>2 DEF IsSequence

(* A sequence has its places. *)
LEMMA SequenceIsList ==
    ASSUME NEW s, IsSequence(s)
    PROVE  Len(s) \in Nat /\ DOMAIN s = 1..Len(s) /\ s = [i \in 1..Len(s) |-> s[i]]
  BY DEF IsSequence

(* The first of each: each name has one, and no two are alike. *)
LEMMA FirstsAre ==
    ASSUME NEW names, NEW N \in Nat, DOMAIN names = 1..N
    PROVE  /\ Firsts(names) \subseteq 1..N
           /\ \A i \in 1..N : \E f \in Firsts(names) : names[f] = names[i]
           /\ \A f, g \in Firsts(names) : names[f] = names[g] => f = g
<1>1. Firsts(names) \subseteq 1..N
  BY DEF Firsts
<1>2. ASSUME NEW i \in 1..N
      PROVE  \E f \in Firsts(names) : names[f] = names[i]
  <2> DEFINE Like == {j \in 1..N : names[j] = names[i]}
  <2>1. Like \subseteq Nat /\ i \in Like
    OBVIOUS
  <2> HIDE DEF Like
  <2>2. PICK f \in Like : \A j \in Like : f <= j
    BY <2>1, LeastNumber
  <2> USE DEF Like
  <2>3. f \in 1..N /\ names[f] = names[i]
    BY <2>2
  <2>4. ASSUME NEW j \in 1..(f - 1)
        PROVE  names[j] # names[f]
    <3>1. j \in 1..N /\ ~(f <= j)
      BY <2>3
    <3>2. j \notin Like
      <4> HIDE DEF Like
      <4> QED
        BY <2>2, <3>1
    <3> QED
      BY <2>3, <3>1, <3>2
  <2>5. f \in Firsts(names)
    BY <2>3, <2>4 DEF Firsts
  <2> QED
    BY <2>3, <2>5
<1>3. ASSUME NEW f \in Firsts(names), NEW g \in Firsts(names), names[f] = names[g], f < g
      PROVE  FALSE
  <2>1. f \in 1..(g - 1)
    BY <1>3 DEF Firsts
  <2> QED
    BY <1>3, <2>1 DEF Firsts
<1>4. ASSUME NEW f \in Firsts(names), NEW g \in Firsts(names), names[f] = names[g]
      PROVE  f = g
  <2>1. f \in Int /\ g \in Int
    BY DEF Firsts
  <2>2. ~(f < g) /\ ~(g < f)
    BY <1>3, <1>4
  <2> QED
    BY <2>1, <2>2
<1> QED
  BY <1>1, <1>2, <1>4

(* A list holds the names of another one, each once, from given places.     *)
HoldsOnce(distinct, names, firsts) ==
    /\ Cardinality(firsts) \in Nat
    /\ IsSequence(distinct) /\ Len(distinct) = Cardinality(firsts)
    /\ DOMAIN distinct = 1..Cardinality(firsts)
    /\ \A n \in DOMAIN distinct : Nth(firsts, n) \in DOMAIN names /\ distinct[n] = names[Nth(firsts, n)]
    /\ \A i \in DOMAIN names : \E n \in DOMAIN distinct : distinct[n] = names[i]
    /\ \A m, n \in DOMAIN distinct : distinct[m] = distinct[n] => m = n

(* The distinct names of a list are in it, each name of it is one of them,  *)
(* and no two of them are alike.                                            *)
LEMMA DistinctIs ==
    ASSUME NEW names, NEW N \in Nat, DOMAIN names = 1..N
    PROVE  HoldsOnce(Distinct(names), names, Firsts(names))
<1> DEFINE F == Firsts(names)
           k == Cardinality(F)
           D == Distinct(names)
<1>1. /\ F \subseteq 1..N
      /\ \A i \in 1..N : \E f \in F : names[f] = names[i]
      /\ \A f, g \in F : names[f] = names[g] => f = g
  BY FirstsAre
<1>2. D = [n \in 1..k |-> names[Nth(F, n)]]
  BY DEF Distinct
<1> HIDE DEF F, k, D
<1>3. k \in Nat
  BY <1>1, RanksCount DEF k
<1>4. D = [n \in 1..k |-> D[n]] /\ DOMAIN D = 1..k
  BY <1>2
<1>5. IsSequence(D) /\ Len(D) = k
  BY <1>3, <1>4, ListIsSequence
<1>6. ASSUME NEW n \in 1..k
      PROVE  Nth(F, n) \in F /\ D[n] = names[Nth(F, n)] /\ RankIn(F, Nth(F, n)) = n
  <2>1. n \in 1..Cardinality(F)
    BY DEF k
  <2> QED
    BY <1>1, <1>2, <2>1, NthIs
<1>7. ASSUME NEW i \in 1..N
      PROVE  \E n \in 1..k : D[n] = names[i]
  <2>1. PICK f \in F : names[f] = names[i]
    BY <1>1
  <2> DEFINE n == RankIn(F, f)
  <2>2. n \in 1..k /\ Nth(F, n) = f
    BY <1>1, RankIsOfOne DEF k
  <2> HIDE DEF n
  <2> QED
    BY <1>6, <2>1, <2>2
<1>8. ASSUME NEW m \in 1..k, NEW n \in 1..k, D[m] = D[n]
      PROVE  m = n
  <2> DEFINE f == Nth(F, m)
             g == Nth(F, n)
  <2>1. f \in F /\ names[f] = D[m] /\ RankIn(F, f) = m
    BY <1>6
  <2>2. g \in F /\ names[g] = D[n] /\ RankIn(F, g) = n
    BY <1>6
  <2> HIDE DEF f, g
  <2>3. f = g
    BY <1>1, <1>8, <2>1, <2>2
  <2> QED
    BY <2>1, <2>2, <2>3
<1>9. Cardinality(F) = k
  BY DEF k
<1>10. HoldsOnce(D, names, F)
  BY <1>1, <1>3, <1>4, <1>5, <1>6, <1>7, <1>8, <1>9 DEF HoldsOnce
<1> QED
  BY <1>10 DEF D, F

(* Where a name is among distinct ones. *)
LEMMA PositionIs ==
    ASSUME NEW names, NEW n \in DOMAIN names, \A m \in DOMAIN names : names[m] = names[n] => m = n
    PROVE  PositionOf(names[n], names) = n
  BY DEF PositionOf

(* Lists whose names are alike at the same places have the same first ones  *)
(* and the same form.                                                       *)
LEMMA AlikeLists ==
    ASSUME NEW names, NEW other, NEW N \in Nat, DOMAIN names = 1..N, DOMAIN other = 1..N,
           \A i, j \in 1..N : names[i] = names[j] <=> other[i] = other[j]
    PROVE  Firsts(other) = Firsts(names) /\ Anonymize(other) = Anonymize(names)
<1>1. Firsts(other) = Firsts(names)
  <2>1. ASSUME NEW i \in 1..N
        PROVE  (\A j \in 1..(i - 1) : names[j] # names[i]) <=> (\A j \in 1..(i - 1) : other[j] # other[i])
    <3>1. \A j \in 1..(i - 1) : j \in 1..N
      OBVIOUS
    <3> QED
      BY <3>1
  <2> QED
    BY <2>1 DEF Firsts
<1>2. ASSUME NEW i \in 1..N
      PROVE  PositionOf(other[i], Distinct(other)) = PositionOf(names[i], Distinct(names))
  <2> DEFINE D == Distinct(names)
             E == Distinct(other)
             F == Firsts(names)
  <2>0. HoldsOnce(D, names, F) /\ HoldsOnce(E, other, F)
    BY <1>1, DistinctIs
  <2> HIDE DEF D, E, F
  <2>1. PICK n \in DOMAIN D : D[n] = names[i]
    BY <2>0 DEF HoldsOnce
  <2>2. DOMAIN E = DOMAIN D
    BY <2>0 DEF HoldsOnce
  <2>3. \A m \in DOMAIN D : /\ Nth(F, m) \in 1..N /\ D[m] = names[Nth(F, m)]
                            /\ E[m] = other[Nth(F, m)]
    BY <2>0, <2>2 DEF HoldsOnce
  <2>4. E[n] = other[i]
    BY <2>1, <2>3
  <2>5. /\ \A m \in DOMAIN D : D[m] = D[n] => m = n
        /\ \A m \in DOMAIN E : E[m] = E[n] => m = n
    BY <2>0 DEF HoldsOnce
  <2>6. PositionOf(D[n], D) = n /\ PositionOf(E[n], E) = n
    BY <2>2, <2>5, PositionIs
  <2> QED
    BY <2>1, <2>4, <2>6 DEF D, E
<1> QED
  BY <1>1, <1>2 DEF Anonymize

(* A rule says where to start among some things, and where each place leads. *)
IsRule(g, base, S, N) == N \in Nat /\ base \in S /\ g \in [S \X (1..N) -> S]
Follows(f, g, base, S, N) ==
    f \in [0..N -> S] /\ f[0] = base /\ \A n \in 1..N : f[n] = g[<<f[n - 1], n>>]

(* What starts among some things and goes on among them, each next from the *)
(* one before, exists and stays among them.                                 *)
LEMMA Iterates ==
    ASSUME NEW g, NEW base, NEW S, NEW N, IsRule(g, base, S, N)
    PROVE  \E f : Follows(f, g, base, S, N)
<1>0. N \in Nat /\ base \in S /\ g \in [S \X (1..N) -> S]
  BY DEF IsRule
<1> DEFINE Rec(f, m) == f[0] = base /\ \A n \in 1..N : n <= m => f[n] = g[<<f[n - 1], n>>]
           Good == {m \in 0..N : \E f \in [0..N -> S] : Rec(f, m)}
<1>1. 0 \in Good
  <2> DEFINE f == [n \in 0..N |-> base]
  <2>1. f \in [0..N -> S] /\ f[0] = base
    BY <1>0
  <2> HIDE DEF f
  <2>2. Rec(f, 0)
    BY <2>1
  <2> QED
    BY <1>0, <2>1, <2>2
<1>2. ASSUME NEW m \in 0..(N - 1), m \in Good
      PROVE  m + 1 \in Good
  <2>1. PICK f \in [0..N -> S] : Rec(f, m)
    BY <1>2
  <2> DEFINE h == [n \in 0..N |-> IF n = m + 1 THEN g[<<f[m], m + 1>>] ELSE f[n]]
  <2>2. m + 1 \in 1..N /\ m \in 0..N /\ m + 1 \in 0..N
    BY <1>0
  <2>3. g[<<f[m], m + 1>>] \in S
    BY <1>0, <2>2
  <2>4. h \in [0..N -> S]
    BY <2>3
  <2>5. /\ \A n \in 0..N : n # m + 1 => h[n] = f[n]
        /\ h[m + 1] = g[<<f[m], m + 1>>]
    BY <2>2
  <2> HIDE DEF h
  <2>6. h[0] = base
    <3>1. 0 \in 0..N /\ 0 # m + 1
      BY <1>0
    <3> QED
      BY <2>1, <2>5, <3>1
  <2>7. ASSUME NEW n \in 1..N, n <= m + 1
        PROVE  h[n] = g[<<h[n - 1], n>>]
    <3>1. n - 1 \in 0..N /\ n - 1 # m + 1 /\ n \in 0..N
      BY <1>0, <2>7
    <3>2. h[n - 1] = f[n - 1]
      BY <2>5, <3>1
    <3>3. CASE n = m + 1
      <4>1. n - 1 = m
        BY <3>3
      <4> QED
        BY <2>5, <3>2, <3>3, <4>1
    <3>4. CASE n # m + 1
      <4>1. n <= m
        BY <1>0, <2>7, <3>4
      <4> QED
        BY <2>1, <2>5, <3>1, <3>2, <3>4, <4>1
    <3> QED
      BY <3>3, <3>4
  <2>8. Rec(h, m + 1)
    BY <2>6, <2>7
  <2> QED
    BY <2>2, <2>4, <2>8
<1> HIDE DEF Good
<1>3. 0..N \subseteq Good
  <2>1. 0 \in Nat
    OBVIOUS
  <2> QED
    BY <1>0, <1>1, <1>2, <2>1, GoesOn
<1>4. N \in Good
  BY <1>0, <1>3
<1> USE DEF Good
<1>5. PICK f \in [0..N -> S] : Rec(f, N)
  BY <1>4
<1> QED
  BY <1>0, <1>5 DEF Follows

(* The names mentioned up to each step.                                     *)
IsMentioned(after, plan) ==
    /\ DOMAIN after = 0..Len(plan)
    /\ after[0] = <<>>
    /\ \A n \in 1..Len(plan) : after[n] = after[n - 1] \o NamesIn(plan[n])

(* A plan mentions the names of its steps one after the other.              *)
LEMMA MentionedIs ==
    ASSUME NEW plan, IsPlan(plan)
    PROVE  \E after : IsMentioned(after, plan) /\ Mentioned(plan) = after[Len(plan)]
<1> DEFINE N == Len(plan)
           U == UNION {{NamesIn(plan[n])[k] : k \in DOMAIN NamesIn(plan[n])} : n \in 1..N}
           S == Seq(U)
           g == [x \in S \X (1..N) |-> x[1] \o NamesIn(plan[x[2]])]
           Rec(f) == f = [n \in 0..N |-> IF n = 0 THEN <<>> ELSE f[n - 1] \o NamesIn(plan[n])]
           after == CHOOSE f : Rec(f)
<1>1. N \in Nat /\ DOMAIN plan = 1..N
  BY DEF IsPlan, IsSequence
<1>2. ASSUME NEW n \in 1..N
      PROVE  NamesIn(plan[n]) \in S
  <2>1. IsStep(plan[n])
    BY <1>1 DEF IsPlan
  <2>2. IsSequence(NamesIn(plan[n]))
    <3>1. CASE HasFormula(plan[n])
      BY <2>1, <3>1 DEF IsStep, NamesIn
    <3>2. CASE ~HasFormula(plan[n])
      <4>1. NamesIn(plan[n]) = <<>>
        BY <3>2 DEF NamesIn
      <4>2. IsSequence(<<>>)
        BY DEF IsSequence
      <4> QED
        BY <4>1, <4>2
    <3> QED
      BY <3>1, <3>2
  <2> DEFINE names == NamesIn(plan[n])
             V == {names[k] : k \in DOMAIN names}
  <2>3. \A k \in 1..Len(names) : names[k] \in U
    <3>1. DOMAIN names = 1..Len(names)
      BY <2>2, SequenceIsList
    <3>2. V \subseteq U
      OBVIOUS
    <3> HIDE DEF U, names
    <3> QED
      BY <3>1, <3>2
  <2>4. Len(names) \in Nat /\ names = [k \in 1..Len(names) |-> names[k]]
    BY <2>2 DEF IsSequence
  <2> HIDE DEF U, names
  <2>5. names \in Seq(U)
    BY <2>3, <2>4
  <2> QED
    BY <2>5 DEF names
<1>3. <<>> \in S
  OBVIOUS
<1>4. g \in [S \X (1..N) -> S]
  <2> HIDE DEF U
  <2> QED
    BY <1>2
<1>5. \A f \in [0..N -> S] : \A n \in 1..N : g[<<f[n - 1], n>>] = f[n - 1] \o NamesIn(plan[n])
  <2> HIDE DEF U
  <2>1. ASSUME NEW f \in [0..N -> S], NEW n \in 1..N
        PROVE  <<f[n - 1], n>> \in S \X (1..N)
    <3>1. n - 1 \in 0..N
      BY <1>1
    <3> QED
      BY <3>1
  <2> QED
    BY <2>1
<1> HIDE DEF S, g, N
<1>6. PICK f \in [0..N -> S] : f[0] = <<>> /\ \A n \in 1..N : f[n] = g[<<f[n - 1], n>>]
  <2>1. IsRule(g, <<>>, S, N)
    BY <1>1, <1>3, <1>4 DEF IsRule
  <2>2. \E f : Follows(f, g, <<>>, S, N)
    BY <2>1, Iterates
  <2> QED
    BY <2>2 DEF Follows
<1>7. f = [n \in 0..N |-> IF n = 0 THEN <<>> ELSE f[n - 1] \o NamesIn(plan[n])]
  <2>1. ASSUME NEW n \in 0..N
        PROVE  f[n] = IF n = 0 THEN <<>> ELSE f[n - 1] \o NamesIn(plan[n])
    <3>1. CASE n = 0
      BY <1>6, <3>1
    <3>2. CASE n # 0
      <4>1. n \in 1..N
        BY <1>1, <3>2
      <4> QED
        BY <1>5, <1>6, <3>2, <4>1
    <3> QED
      BY <3>1, <3>2
  <2> QED
    BY <1>6, <2>1
<1>8. Rec(after)
  <2>1. Rec(f)
    BY <1>7
  <2> HIDE DEF Rec
  <2> QED
    BY <2>1
<1>9. Mentioned(plan) = after[N]
  BY DEF Mentioned, N
<1> HIDE DEF after
<1>10. IsMentioned(after, plan)
  <2>1. DOMAIN after = 0..N /\ after[0] = <<>>
    BY <1>1, <1>8
  <2>2. ASSUME NEW n \in 1..N
        PROVE  after[n] = after[n - 1] \o NamesIn(plan[n])
    <3>1. n \in 0..N /\ n # 0
      BY <1>1
    <3> QED
      BY <1>8, <3>1
  <2> QED
    BY <2>1, <2>2 DEF IsMentioned, N
<1> QED
  BY <1>9, <1>10 DEF N

(* Two lists one after the other. *)
LEMMA Joined ==
    ASSUME NEW a, NEW b, IsSequence(a), IsSequence(b)
    PROVE  /\ IsSequence(a \o b) /\ Len(a \o b) = Len(a) + Len(b) /\ DOMAIN (a \o b) = 1..(Len(a) + Len(b))
           /\ \A i \in DOMAIN a : i \in DOMAIN (a \o b) /\ (a \o b)[i] = a[i]
           /\ \A i \in DOMAIN b : Len(a) + i \in DOMAIN (a \o b) /\ (a \o b)[Len(a) + i] = b[i]
           /\ \A i \in DOMAIN (a \o b) : i \notin DOMAIN a => i - Len(a) \in DOMAIN b
<1> DEFINE U == {a[i] : i \in DOMAIN a} \cup {b[i] : i \in DOMAIN b}
           c == a \o b
           k == Len(a)
           l == Len(b)
<1>1. k \in Nat /\ l \in Nat /\ DOMAIN a = 1..k /\ DOMAIN b = 1..l
  BY SequenceIsList
<1>2. a = [i \in 1..k |-> a[i]] /\ b = [i \in 1..l |-> b[i]]
  BY DEF IsSequence
<1>3. (\A i \in 1..k : a[i] \in U) /\ (\A i \in 1..l : b[i] \in U)
  BY <1>1
<1> HIDE DEF U
<1>4. a \in Seq(U) /\ b \in Seq(U)
  <2> HIDE DEF k, l
  <2>1. a \in Seq(U)
    BY <1>1, <1>2, <1>3
  <2>2. b \in Seq(U)
    BY <1>1, <1>2, <1>3
  <2> QED
    BY <2>1, <2>2
<1>5. c \in Seq(U) /\ Len(c) = k + l /\ DOMAIN c = 1..(k + l) /\ c = [i \in 1..(k + l) |-> c[i]]
  <2>1. c \in Seq(U) /\ Len(c) = k + l
    BY <1>4
  <2> HIDE DEF c
  <2>2. DOMAIN c = 1..Len(c) /\ c \in [1..Len(c) -> U]
    BY <2>1
  <2> QED
    BY <2>1, <2>2
<1>6. /\ \A i \in 1..k : c[i] = a[i]
      /\ \A i \in 1..l : c[k + i] = b[i]
  <2>1. ASSUME NEW i \in 1..k
        PROVE  c[i] = a[i]
    BY <1>1, <1>4
  <2>2. ASSUME NEW i \in 1..l
        PROVE  c[k + i] = b[i]
    BY <1>1, <1>4
  <2> QED
    BY <2>1, <2>2
<1>7. IsSequence(c)
  <2> HIDE DEF c
  <2>1. k + l \in Nat
    BY <1>1
  <2> QED
    BY <1>5, <2>1 DEF IsSequence
<1> HIDE DEF c, k, l
<1>9. /\ \A i \in 1..k : i \in 1..(k + l)
      /\ \A i \in 1..l : k + i \in 1..(k + l)
      /\ \A i \in 1..(k + l) : i \notin 1..k => i - k \in 1..l
  BY <1>1
<1>8. /\ \A i \in DOMAIN a : i \in DOMAIN c /\ c[i] = a[i]
      /\ \A i \in DOMAIN b : k + i \in DOMAIN c /\ c[k + i] = b[i]
      /\ \A i \in DOMAIN c : i \notin DOMAIN a => i - k \in DOMAIN b
  BY <1>1, <1>5, <1>6, <1>9
<1> QED
  BY <1>5, <1>7, <1>8 DEF c, k, l

(* Replacing names of two lists is replacing them in the two together.      *)
LEMMA SwappedTogether ==
    ASSUME NEW a, NEW b, IsSequence(a), IsSequence(b), NEW old, NEW new
    PROVE  /\ IsSequence(EachSwapped(a, old, new))
           /\ EachSwapped(a \o b, old, new) = EachSwapped(a, old, new) \o EachSwapped(b, old, new)
<1> DEFINE p == EachSwapped(a, old, new)
           q == EachSwapped(b, old, new)
           c == a \o b
           r == EachSwapped(c, old, new)
<1>1. p = [i \in DOMAIN a |-> Swapped(a[i], old, new)] /\ q = [i \in DOMAIN b |-> Swapped(b[i], old, new)]
      /\ r = [i \in DOMAIN c |-> Swapped(c[i], old, new)]
  BY DEF EachSwapped
<1>2. /\ Len(a) \in Nat /\ Len(b) \in Nat /\ DOMAIN a = 1..Len(a) /\ DOMAIN b = 1..Len(b)
      /\ DOMAIN c = 1..(Len(a) + Len(b))
      /\ \A i \in DOMAIN a : c[i] = a[i]
      /\ \A i \in DOMAIN b : c[Len(a) + i] = b[i]
  BY SequenceIsList, Joined
<1> HIDE DEF p, q, r, c
<1>3. IsSequence(p) /\ Len(p) = Len(a) /\ DOMAIN p = DOMAIN a
  <2>1. p = [i \in 1..Len(a) |-> p[i]]
    BY <1>1, <1>2
  <2> QED
    BY <1>2, <2>1, ListIsSequence
<1>4. IsSequence(q) /\ Len(q) = Len(b) /\ DOMAIN q = DOMAIN b
  <2>1. q = [i \in 1..Len(b) |-> q[i]]
    BY <1>1, <1>2
  <2> QED
    BY <1>2, <2>1, ListIsSequence
<1> DEFINE t == p \o q
<1>5. /\ IsSequence(t) /\ Len(t) = Len(p) + Len(q) /\ DOMAIN t = 1..(Len(p) + Len(q))
      /\ \A i \in DOMAIN p : t[i] = p[i]
      /\ \A i \in DOMAIN q : t[Len(p) + i] = q[i]
  BY <1>3, <1>4, Joined
<1> HIDE DEF t
<1>6. ASSUME NEW i \in 1..(Len(a) + Len(b))
      PROVE  t[i] = r[i]
  <2>1. CASE i \in DOMAIN a
    <3>1. t[i] = p[i] /\ c[i] = a[i]
      BY <1>2, <1>3, <1>5, <2>1
    <3> QED
      BY <1>1, <1>2, <2>1, <3>1
  <2>2. CASE i \notin DOMAIN a
    <3> DEFINE j == i - Len(a)
    <3>1. j \in DOMAIN b /\ i = Len(a) + j
      BY <1>2, <2>2
    <3> HIDE DEF j
    <3>2. t[i] = q[j] /\ c[i] = b[j]
      BY <1>2, <1>3, <1>4, <1>5, <3>1
    <3> QED
      BY <1>1, <1>2, <3>1, <3>2
  <2> QED
    BY <2>1, <2>2
<1>7. t = [i \in 1..(Len(a) + Len(b)) |-> t[i]]
  BY <1>3, <1>4, <1>5 DEF IsSequence
<1>8. r = [i \in 1..(Len(a) + Len(b)) |-> r[i]]
  BY <1>1, <1>2
<1>9. r = t
  BY <1>6, <1>7, <1>8
<1> QED
  BY <1>3, <1>9 DEF p, q, r, c, t

(* A step with other headers is the same kind of step, with the names of    *)
(* its formula replaced.                                                    *)
LEMMA StepRewritten ==
    ASSUME NEW step, IsStep(step), NEW old, NEW new
    PROVE  LET other == RewriteStep(step, old, new) IN
           /\ IsStep(other) /\ other.do = step.do
           /\ NamesIn(other) = EachSwapped(NamesIn(step), old, new)
           /\ HasFormula(step) => other.fn = step.fn /\ other.names = EachSwapped(step.names, old, new)
           /\ step.do = "create_derived_column" => other.header = step.header
<1> DEFINE other == RewriteStep(step, old, new)
           F == {"do"} \cup FieldsOf(step)
<1>1. step = [field \in F |-> step[field]] /\ DOMAIN step = F
  BY DEF IsStep
<1> HIDE DEF F, other
<1>2. EachSwapped(<<>>, old, new) = <<>>
  BY DEF EachSwapped
<1>3. ASSUME NEW names, IsSequence(names)
      PROVE  IsSequence(EachSwapped(names, old, new))
  BY <1>3, SwappedTogether
<1>4. CASE step.do = "create_derived_column"
  <2>1. F = {"do", "header", "at", "fn", "names"}
    BY <1>4 DEF F, FieldsOf
  <2>2. other = [step EXCEPT !.at = Swapped(@, old, new), !.names = EachSwapped(@, old, new)]
    BY <1>4 DEF other, RewriteStep
  <2>3. /\ other = [field \in F |-> other[field]] /\ other.do = step.do /\ other.fn = step.fn /\ other.header = step.header
        /\ other.names = EachSwapped(step.names, old, new)
    BY <1>1, <2>1, <2>2
  <2>4. HasFormula(step) /\ HasFormula(other) /\ FieldsOf(other) = FieldsOf(step)
    BY <1>4, <2>3 DEF HasFormula, FieldsOf
  <2>5. IsSequence(step.names)
    BY <2>4 DEF IsStep
  <2>6. IsStep(other)
    BY <1>3, <2>3, <2>4, <2>5 DEF IsStep, F
  <2> QED
    BY <2>3, <2>4, <2>6 DEF NamesIn, other
<1>5. CASE step.do = "apply_formula"
  <2>1. F = {"do", "at", "fn", "names"}
    BY <1>5 DEF F, FieldsOf
  <2>2. other = [step EXCEPT !.names = EachSwapped(@, old, new)]
    BY <1>5 DEF other, RewriteStep
  <2>3. /\ other = [field \in F |-> other[field]] /\ other.do = step.do /\ other.fn = step.fn
        /\ other.names = EachSwapped(step.names, old, new)
    BY <1>1, <2>1, <2>2
  <2>4. HasFormula(step) /\ HasFormula(other) /\ FieldsOf(other) = FieldsOf(step)
    BY <1>5, <2>3 DEF HasFormula, FieldsOf
  <2>5. IsSequence(step.names)
    BY <2>4 DEF IsStep
  <2>6. IsStep(other)
    BY <1>3, <2>3, <2>4, <2>5 DEF IsStep, F
  <2> QED
    BY <1>5, <2>3, <2>4, <2>6 DEF NamesIn, other
<1>6. CASE step.do \notin {"create_derived_column", "apply_formula"}
  <2>1. other = [field \in F |-> other[field]] /\ other.do = step.do
    <3>1. CASE step.do = "locate_table"
      <4>1. F = {"do", "sheet", "mustHave"}
        BY <3>1 DEF F, FieldsOf
      <4>2. other = Locate(NoName, EachSwapped(step.mustHave, old, new))
        BY <3>1 DEF other, RewriteStep
      <4> QED
        BY <3>1, <4>1, <4>2 DEF Locate
    <3>2. CASE step.do \in {"fill_range", "filter_rows"}
      <4>1. F = {"do", "column"}
        BY <3>2 DEF F, FieldsOf
      <4>2. other = [step EXCEPT !.column = Swapped(@, old, new)]
        BY <3>2 DEF other, RewriteStep
      <4> QED
        BY <1>1, <4>1, <4>2
    <3>3. CASE step.do = "reconcile_totals"
      <4>1. F = {"do", "left", "right"}
        BY <3>3 DEF F, FieldsOf
      <4>2. other = [step EXCEPT !.left = Swapped(@, old, new), !.right = Swapped(@, old, new)]
        BY <3>3 DEF other, RewriteStep
      <4> QED
        BY <1>1, <4>1, <4>2
    <3>4. CASE step.do \notin {"locate_table", "fill_range", "filter_rows", "reconcile_totals"}
      <4>1. other = step
        BY <1>6, <3>4 DEF other, RewriteStep
      <4> QED
        BY <1>1, <4>1
    <3> QED
      BY <3>1, <3>2, <3>3, <3>4
  <2>2. ~HasFormula(step) /\ ~HasFormula(other) /\ FieldsOf(other) = FieldsOf(step)
    BY <1>6, <2>1 DEF HasFormula, FieldsOf
  <2>3. IsStep(other)
    BY <2>1, <2>2 DEF IsStep, F
  <2> QED
    BY <1>2, <1>6, <2>1, <2>2, <2>3 DEF NamesIn, other
<1> QED
  BY <1>4, <1>5, <1>6

(* What a plan mentions is a list, and the names of its formulas are in it. *)
LEMMA MentionsItsNames ==
    ASSUME NEW plan, IsPlan(plan)
    PROVE  /\ IsSequence(Mentioned(plan))
           /\ \A n \in DOMAIN plan : \A k \in DOMAIN NamesIn(plan[n]) :
                \E m \in DOMAIN Mentioned(plan) : Mentioned(plan)[m] = NamesIn(plan[n])[k]
<1> DEFINE N == Len(plan)
<1>1. N \in Nat /\ DOMAIN plan = 1..N
  BY DEF IsPlan, IsSequence
<1>2. ASSUME NEW n \in 1..N
      PROVE  IsSequence(NamesIn(plan[n]))
  <2>1. IsStep(plan[n])
    BY <1>1 DEF IsPlan
  <2>2. IsSequence(<<>>)
    BY DEF IsSequence
  <2> QED
    BY <2>1, <2>2 DEF IsStep, NamesIn
<1>3. PICK after : IsMentioned(after, plan) /\ Mentioned(plan) = after[N]
  BY MentionedIs
<1>4. /\ after[0] = <<>>
      /\ \A n \in 1..N : after[n] = after[n - 1] \o NamesIn(plan[n])
  BY <1>3 DEF IsMentioned
<1> HIDE DEF N
<1> DEFINE Lists == {n \in 0..N : IsSequence(after[n])}
<1>5. 0..N \subseteq Lists
  <2>1. 0 \in Lists
    BY <1>1, <1>4 DEF IsSequence
  <2>2. ASSUME NEW n \in 0..(N - 1), n \in Lists
        PROVE  n + 1 \in Lists
    <3> DEFINE m == n + 1
    <3>1. m \in 1..N /\ m \in 0..N /\ m - 1 = n
      BY <1>1
    <3> HIDE DEF m
    <3>2. IsSequence(after[n])
      BY <2>2
    <3>3. after[m] = after[n] \o NamesIn(plan[m])
      BY <1>4, <3>1
    <3>4. IsSequence(after[m])
      BY <1>2, <3>1, <3>2, <3>3, Joined
    <3> QED
      BY <3>1, <3>4 DEF m
  <2> HIDE DEF Lists
  <2>3. 0 \in Nat
    OBVIOUS
  <2> QED
    BY <1>1, <2>1, <2>2, <2>3, GoesOn
<1>6. \A n \in 0..N : IsSequence(after[n])
  BY <1>5
<1> HIDE DEF Lists
<1>7. ASSUME NEW n \in 1..N, NEW k \in DOMAIN NamesIn(plan[n])
      PROVE  \E m \in DOMAIN after[N] : after[N][m] = NamesIn(plan[n])[k]
  <2> DEFINE name == NamesIn(plan[n])[k]
             Has == {m \in n..N : \E i \in DOMAIN after[m] : after[m][i] = name}
  <2>1. n \in Has
    <3>1. n - 1 \in 0..N /\ n \in n..N
      BY <1>1
    <3>2. IsSequence(after[n - 1]) /\ IsSequence(NamesIn(plan[n])) /\ after[n] = after[n - 1] \o NamesIn(plan[n])
      BY <1>2, <1>4, <1>6, <3>1
    <3>3. Len(after[n - 1]) + k \in DOMAIN after[n] /\ after[n][Len(after[n - 1]) + k] = name
      <4> DEFINE a == after[n - 1]
                 b == NamesIn(plan[n])
                 c == after[n]
      <4>1. IsSequence(a) /\ IsSequence(b) /\ c = a \o b /\ k \in DOMAIN b
        BY <3>2
      <4> HIDE DEF a, b, c
      <4>2. Len(a) + k \in DOMAIN c /\ c[Len(a) + k] = b[k]
        BY <4>1, Joined
      <4> QED
        BY <4>2 DEF a, b, c
    <3> QED
      BY <3>1, <3>3
  <2>2. ASSUME NEW m \in n..(N - 1), m \in Has
        PROVE  m + 1 \in Has
    <3> DEFINE l == m + 1
    <3>1. m \in 0..N /\ l \in 1..N /\ l \in n..N /\ l - 1 = m
      BY <1>1
    <3> HIDE DEF l
    <3>2. IsSequence(after[m]) /\ IsSequence(NamesIn(plan[l])) /\ after[l] = after[m] \o NamesIn(plan[l])
      BY <1>2, <1>4, <1>6, <3>1
    <3>3. PICK i \in DOMAIN after[m] : after[m][i] = name
      BY <2>2
    <3>4. i \in DOMAIN after[l] /\ after[l][i] = name
      <4> DEFINE a == after[m]
                 b == NamesIn(plan[l])
                 c == after[l]
      <4>1. IsSequence(a) /\ IsSequence(b) /\ c = a \o b /\ i \in DOMAIN a /\ a[i] = name
        BY <3>2, <3>3
      <4> HIDE DEF a, b, c
      <4>2. i \in DOMAIN c /\ c[i] = a[i]
        BY <4>1, Joined
      <4> QED
        BY <4>1, <4>2 DEF a, b, c
    <3>5. l \in Has
      BY <3>1, <3>4
    <3> QED
      BY <3>5 DEF l
  <2>3. n \in Nat /\ N \in n..N
    BY <1>1
  <2> HIDE DEF Has
  <2>4. n..N \subseteq Has
    BY <1>1, <2>1, <2>2, <2>3, GoesOn
  <2>5. N \in Has
    BY <2>3, <2>4
  <2> QED
    BY <2>5 DEF Has
<1>8. IsSequence(after[N])
  BY <1>1, <1>6
<1> QED
  BY <1>1, <1>3, <1>7, <1>8

(* A plan with other headers is a plan, that mentions the replaced names.   *)
LEMMA PlanRewritten ==
    ASSUME NEW plan, IsPlan(plan), NEW old, NEW new
    PROVE  /\ IsPlan(Rewrite(plan, old, new)) /\ DOMAIN Rewrite(plan, old, new) = DOMAIN plan
           /\ Mentioned(Rewrite(plan, old, new)) = EachSwapped(Mentioned(plan), old, new)
<1> DEFINE N == Len(plan)
           other == Rewrite(plan, old, new)
<1>1. N \in Nat /\ DOMAIN plan = 1..N
  BY DEF IsPlan, IsSequence
<1>2. other = [n \in 1..N |-> RewriteStep(plan[n], old, new)]
  BY <1>1 DEF Rewrite
<1>3. ASSUME NEW n \in 1..N
      PROVE  /\ IsStep(RewriteStep(plan[n], old, new)) /\ IsSequence(NamesIn(plan[n]))
             /\ NamesIn(RewriteStep(plan[n], old, new)) = EachSwapped(NamesIn(plan[n]), old, new)
  <2>1. IsStep(plan[n])
    BY <1>1 DEF IsPlan
  <2>2. IsSequence(<<>>)
    BY DEF IsSequence
  <2>3. IsSequence(NamesIn(plan[n]))
    BY <2>1, <2>2 DEF IsStep, NamesIn
  <2> QED
    BY <2>1, <2>3, StepRewritten
<1> HIDE DEF N, other
<1>4. IsPlan(other) /\ Len(other) = N /\ DOMAIN other = 1..N
  <2>1. other = [n \in 1..N |-> other[n]]
    BY <1>2
  <2>2. IsSequence(other) /\ Len(other) = N /\ DOMAIN other = 1..N
    BY <1>1, <2>1, ListIsSequence
  <2> QED
    BY <1>2, <1>3, <2>2 DEF IsPlan
<1>5. PICK after : IsMentioned(after, plan) /\ Mentioned(plan) = after[N]
  BY MentionedIs DEF N
<1>6. PICK then : IsMentioned(then, other) /\ Mentioned(other) = then[N]
  BY <1>4, MentionedIs
<1>7. /\ after[0] = <<>> /\ then[0] = <<>>
      /\ \A n \in 1..N : after[n] = after[n - 1] \o NamesIn(plan[n])
      /\ \A n \in 1..N : then[n] = then[n - 1] \o EachSwapped(NamesIn(plan[n]), old, new)
  BY <1>2, <1>3, <1>4, <1>5, <1>6 DEF IsMentioned, N
<1> DEFINE Good == {n \in 0..N : IsSequence(after[n]) /\ then[n] = EachSwapped(after[n], old, new)}
<1>8. 0 \in Good
  BY <1>1, <1>7 DEF IsSequence, EachSwapped
<1>9. ASSUME NEW n \in 0..(N - 1), n \in Good
      PROVE  n + 1 \in Good
  <2> DEFINE m == n + 1
  <2>1. m \in 1..N /\ m \in 0..N /\ m - 1 = n
    BY <1>1
  <2> HIDE DEF m
  <2>2. IsSequence(after[n]) /\ then[n] = EachSwapped(after[n], old, new)
    BY <1>9
  <2>3. after[m] = after[n] \o NamesIn(plan[m]) /\ then[m] = then[n] \o EachSwapped(NamesIn(plan[m]), old, new)
    BY <1>7, <2>1
  <2>4. IsSequence(NamesIn(plan[m]))
    BY <1>3, <2>1
  <2>5. IsSequence(after[m])
    BY <2>2, <2>3, <2>4, Joined
  <2>6. then[m] = EachSwapped(after[m], old, new)
    <3> DEFINE a == after[n]
               b == NamesIn(plan[m])
    <3>1. IsSequence(a) /\ IsSequence(b) /\ after[m] = a \o b
          /\ then[m] = EachSwapped(a, old, new) \o EachSwapped(b, old, new)
      BY <2>2, <2>3, <2>4
    <3> HIDE DEF a, b
    <3>2. EachSwapped(a \o b, old, new) = EachSwapped(a, old, new) \o EachSwapped(b, old, new)
      BY <3>1, SwappedTogether
    <3> QED
      BY <3>1, <3>2
  <2>7. m \in Good
    BY <2>1, <2>5, <2>6
  <2> QED
    BY <2>7 DEF m
<1> HIDE DEF Good
<1>10. 0..N \subseteq Good
  <2>1. 0 \in Nat
    OBVIOUS
  <2> QED
    BY <1>1, <1>8, <1>9, <2>1, GoesOn
<1>11. N \in Good
  BY <1>1, <1>10
<1>12. Mentioned(other) = EachSwapped(Mentioned(plan), old, new)
  BY <1>5, <1>6, <1>11 DEF Good
<1> QED
  BY <1>1, <1>4, <1>12 DEF other, N

----------------------------------------------------------------------------
(* Policies against tables.                                                 *)

(* The headers of a table are those of its columns.                         *)
LEMMA HeadersAre ==
    ASSUME NEW table, AreColumns(table)
    PROVE  /\ Len(table) \in Nat /\ DOMAIN table = 1..Len(table)
           /\ \A h : Contains(Headers(table), h) <=> \E i \in DOMAIN table : table[i].header = h
           /\ \A h : h \in ToSet(Headers(table)) <=> \E i \in DOMAIN table : table[i].header = h
<1> DEFINE H == Headers(table)
<1>1. Len(table) \in Nat /\ DOMAIN table = 1..Len(table)
  BY DEF AreColumns, IsSequence
<1>2. H = [i \in 1..Len(table) |-> table[i].header]
  BY <1>1 DEF Headers
<1> HIDE DEF H
<1>3. Len(H) = Len(table) /\ DOMAIN H = 1..Len(table)
  <2>1. H = [i \in 1..Len(table) |-> H[i]]
    BY <1>2
  <2> QED
    BY <1>1, <2>1, ListIsSequence
<1>4. \A h : Contains(H, h) <=> \E i \in DOMAIN table : table[i].header = h
  BY <1>1, <1>2, <1>3 DEF Contains
<1>5. \A h : h \in ToSet(H) <=> \E i \in DOMAIN table : table[i].header = h
  BY <1>1, <1>2, <1>3 DEF ToSet
<1> QED
  BY <1>1, <1>4, <1>5 DEF H

(* A slot is bound to a free header of the table, and by its name exactly   *)
(* when the slot had that header before.                                    *)
IsBinding(bind, seen, table, taken) ==
    /\ bind.header \in ToSet(Headers(table)) \ taken
    /\ bind.byName \in BOOLEAN
    /\ bind.byName <=> Contains(seen, bind.header)

(* One slot is bound, or there is nothing to bind it to.                    *)
LEMMA BindIs ==
    ASSUME NEW seen, IsSequence(seen), NEW table, AreColumns(table), NEW taken
    PROVE  Bind(seen, table, taken) = Unbound \/ IsBinding(Bind(seen, table, taken), seen, table, taken)
<1> DEFINE there == {i \in DOMAIN seen : Contains(Headers(table), seen[i]) /\ seen[i] \notin taken}
           numbers == {i \in DOMAIN table : table[i].type = "number" /\ table[i].header \notin taken}
           bind == Bind(seen, table, taken)
<1>1. Len(seen) \in Nat /\ DOMAIN seen = 1..Len(seen)
  BY SequenceIsList
<1>2. /\ \A h : Contains(Headers(table), h) <=> \E i \in DOMAIN table : table[i].header = h
      /\ \A h : h \in ToSet(Headers(table)) <=> \E i \in DOMAIN table : table[i].header = h
  BY HeadersAre
<1>3. CASE there # {}
  <2> DEFINE first == Min(there)
  <2>1. there \subseteq Nat
    BY <1>1
  <2> HIDE DEF there
  <2>2. first \in there
    BY <1>3, <2>1, LeastNumber DEF Min
  <2>3. bind = [header |-> seen[first], byName |-> TRUE]
    BY <1>3 DEF Bind, there
  <2> HIDE DEF first, bind
  <2>4. first \in DOMAIN seen /\ Contains(Headers(table), seen[first]) /\ seen[first] \notin taken
    BY <2>2 DEF there
  <2>5. Contains(seen, seen[first])
    BY <1>1, <2>4 DEF Contains
  <2>6. IsBinding(bind, seen, table, taken)
    BY <1>2, <2>3, <2>4, <2>5 DEF IsBinding
  <2> QED
    BY <2>6 DEF bind
<1>4. CASE there = {} /\ Cardinality(numbers) = 1
  <2> DEFINE only == CHOOSE i \in numbers : TRUE
  <2>1. numbers # {}
    BY <1>4, FS_EmptySet
  <2>2. bind = [header |-> table[only].header, byName |-> FALSE]
    BY <1>4 DEF Bind
  <2>3. only \in numbers
    <3> HIDE DEF numbers
    <3> QED
      BY <2>1
  <2> HIDE DEF only, bind
  <2>4. only \in DOMAIN table /\ table[only].header \notin taken
    BY <2>3
  <2>5. ~Contains(seen, table[only].header)
    BY <1>1, <1>2, <1>4, <2>4 DEF Contains
  <2>6. IsBinding(bind, seen, table, taken)
    BY <1>2, <2>2, <2>4, <2>5 DEF IsBinding
  <2> QED
    BY <2>6 DEF bind
<1>5. CASE there = {} /\ Cardinality(numbers) # 1
  BY <1>5 DEF Bind
<1> QED
  BY <1>3, <1>4, <1>5

(* The headers taken by the slots up to each one.                           *)
IsTaken(taken, slots, table) ==
    /\ DOMAIN taken = 0..Len(slots)
    /\ taken[0] = {}
    /\ \A n \in 1..Len(slots) : taken[n] = taken[n - 1] \cup {Bind(slots[n], table, taken[n - 1]).header}

(* For every slot the headers it had.                                       *)
AreSlots(slots) == IsSequence(slots) /\ \A n \in DOMAIN slots : IsSequence(slots[n])

(* The slots are bound one after the other.                                 *)
BoundInTurn(slots, table) ==
    \E taken : /\ IsTaken(taken, slots, table)
               /\ Bindings(slots, table) = [n \in 1..Len(slots) |-> Bind(slots[n], table, taken[n - 1])]

(* Bindings are made like that.                                             *)
LEMMA BindingsAre ==
    ASSUME NEW slots, AreSlots(slots), NEW table, AreColumns(table)
    PROVE  BoundInTurn(slots, table)
<1> DEFINE N == Len(slots)
           U == ToSet(Headers(table)) \cup {NoName}
           S == SUBSET U
           g == [x \in S \X (1..N) |-> x[1] \cup {Bind(slots[x[2]], table, x[1]).header}]
           Rec(f) == f = [n \in 0..N |-> IF n = 0 THEN {} ELSE f[n - 1] \cup {Bind(slots[n], table, f[n - 1]).header}]
           taken == CHOOSE f : Rec(f)
<1>1. N \in Nat /\ DOMAIN slots = 1..N
  BY SequenceIsList DEF AreSlots
<1>2. ASSUME NEW n \in 1..N, NEW t \in S
      PROVE  Bind(slots[n], table, t).header \in U
  <2> DEFINE b == Bind(slots[n], table, t)
  <2>1. b = Unbound \/ IsBinding(b, slots[n], table, t)
    BY <1>1, BindIs DEF AreSlots
  <2> HIDE DEF b
  <2>2. b.header \in U
    BY <2>1 DEF Unbound, IsBinding
  <2> QED
    BY <2>2 DEF b
<1>3. {} \in S
  OBVIOUS
<1> HIDE DEF U
<1>4. g \in [S \X (1..N) -> S]
  BY <1>2
<1>5. \A f \in [0..N -> S] : \A n \in 1..N :
        g[<<f[n - 1], n>>] = f[n - 1] \cup {Bind(slots[n], table, f[n - 1]).header}
  <2>1. ASSUME NEW f \in [0..N -> S], NEW n \in 1..N
        PROVE  <<f[n - 1], n>> \in S \X (1..N)
    <3>1. n - 1 \in 0..N
      BY <1>1
    <3> QED
      BY <3>1
  <2> QED
    BY <2>1
<1> HIDE DEF S, g, N
<1>6. PICK f \in [0..N -> S] : f[0] = {} /\ \A n \in 1..N : f[n] = g[<<f[n - 1], n>>]
  <2>1. IsRule(g, {}, S, N)
    BY <1>1, <1>3, <1>4 DEF IsRule
  <2>2. \E f : Follows(f, g, {}, S, N)
    BY <2>1, Iterates
  <2> QED
    BY <2>2 DEF Follows
<1>7. f = [n \in 0..N |-> IF n = 0 THEN {} ELSE f[n - 1] \cup {Bind(slots[n], table, f[n - 1]).header}]
  <2>1. ASSUME NEW n \in 0..N
        PROVE  f[n] = IF n = 0 THEN {} ELSE f[n - 1] \cup {Bind(slots[n], table, f[n - 1]).header}
    <3>1. CASE n = 0
      BY <1>6, <3>1
    <3>2. CASE n # 0
      <4>1. n \in 1..N
        BY <1>1, <3>2
      <4> QED
        BY <1>5, <1>6, <3>2, <4>1
    <3> QED
      BY <3>1, <3>2
  <2> QED
    BY <1>6, <2>1
<1>8. Rec(taken)
  <2>1. Rec(f)
    BY <1>7
  <2> HIDE DEF Rec
  <2> QED
    BY <2>1
<1>9. Bindings(slots, table) = [n \in DOMAIN slots |-> Bind(slots[n], table, taken[n - 1])]
  BY DEF Bindings, N
<1> HIDE DEF taken
<1>10. IsTaken(taken, slots, table)
  <2>1. DOMAIN taken = 0..N /\ taken[0] = {}
    BY <1>1, <1>8
  <2>2. ASSUME NEW n \in 1..N
        PROVE  taken[n] = taken[n - 1] \cup {Bind(slots[n], table, taken[n - 1]).header}
    <3>1. n \in 0..N /\ n # 0
      BY <1>1
    <3> QED
      BY <1>8, <3>1
  <2> QED
    BY <2>1, <2>2 DEF IsTaken, N
<1> QED
  BY <1>1, <1>9, <1>10 DEF N, BoundInTurn

(* No header is bound to two slots.                                         *)
LEMMA BoundApart ==
    ASSUME NEW slots, AreSlots(slots), NEW table, AreColumns(table),
           NEW bound, bound = Bindings(slots, table), \A n \in DOMAIN bound : bound[n] # Unbound
    PROVE  /\ DOMAIN bound = 1..Len(slots)
           /\ \A n \in DOMAIN bound : /\ bound[n].header \in ToSet(Headers(table)) /\ bound[n].byName \in BOOLEAN
                                      /\ bound[n].byName <=> Contains(slots[n], bound[n].header)
           /\ \A m, n \in DOMAIN bound : bound[m].header = bound[n].header => m = n
<1> DEFINE N == Len(slots)
<1>1. N \in Nat /\ DOMAIN slots = 1..N
  BY SequenceIsList DEF AreSlots
<1>2. PICK taken : IsTaken(taken, slots, table) /\ bound = [n \in 1..N |-> Bind(slots[n], table, taken[n - 1])]
  BY BindingsAre DEF BoundInTurn
<1> HIDE DEF N
<1>3. DOMAIN bound = 1..N /\ \A n \in 1..N : bound[n] = Bind(slots[n], table, taken[n - 1])
  BY <1>2
<1>4. \A n \in 1..N : taken[n] = taken[n - 1] \cup {bound[n].header}
  BY <1>2, <1>3 DEF IsTaken, N
<1>5. ASSUME NEW n \in 1..N
      PROVE  IsBinding(bound[n], slots[n], table, taken[n - 1])
  <2> DEFINE t == taken[n - 1]
             seen == slots[n]
  <2>1. IsSequence(seen) /\ bound[n] = Bind(seen, table, t) /\ bound[n] # Unbound
    BY <1>1, <1>3 DEF AreSlots
  <2> HIDE DEF t, seen
  <2>2. IsBinding(bound[n], seen, table, t)
    BY <2>1, BindIs
  <2> QED
    BY <2>2 DEF t, seen
<1>6. ASSUME NEW m \in 1..N, NEW n \in 1..N, m < n
      PROVE  bound[m].header # bound[n].header
  <2> DEFINE Has == {k \in m..N : bound[m].header \in taken[k]}
  <2>1. m \in Has
    BY <1>1, <1>4
  <2>2. ASSUME NEW k \in m..(N - 1), k \in Has
        PROVE  k + 1 \in Has
    <3> DEFINE l == k + 1
    <3>1. l \in 1..N /\ l \in m..N /\ l - 1 = k
      BY <1>1
    <3> HIDE DEF l
    <3>2. l \in Has
      BY <1>4, <2>2, <3>1
    <3> QED
      BY <3>2 DEF l
  <2> HIDE DEF Has
  <2>3. m \in Nat
    BY <1>1
  <2>4. m..N \subseteq Has
    BY <1>1, <2>1, <2>2, <2>3, GoesOn
  <2>5. n - 1 \in m..N
    BY <1>1, <1>6
  <2>6. n - 1 \in Has
    BY <2>4, <2>5
  <2>7. bound[m].header \in taken[n - 1]
    BY <2>6 DEF Has
  <2> QED
    BY <1>5, <2>7 DEF IsBinding
<1>7. ASSUME NEW m \in 1..N, NEW n \in 1..N, bound[m].header = bound[n].header
      PROVE  m = n
  <2>1. ~(m < n) /\ ~(n < m)
    BY <1>6, <1>7
  <2> QED
    BY <1>1, <2>1
<1> QED
  BY <1>3, <1>5, <1>7 DEF IsBinding, N

(* A policy is put together from a plan, its shape, its output and a list   *)
(* of headers for each of its slots.                                        *)
IsPolicyOf(policy, plan) ==
    /\ policy.representative = plan
    /\ policy.shape = Shape(plan)
    /\ policy.output = OutputOf(plan)
    /\ AreSlots(policy.slots) /\ Len(policy.slots) = Len(SlotsOf(plan))

(* The slots of a plan are the names it mentions, each once.                *)
LEMMA SlotsAre ==
    ASSUME NEW plan, IsPlan(plan)
    PROVE  /\ IsSequence(Mentioned(plan))
           /\ HoldsOnce(SlotsOf(plan), Mentioned(plan), Firsts(Mentioned(plan)))
           /\ IsSequence(SlotsOf(plan))
<1>1. IsSequence(Mentioned(plan))
  BY MentionsItsNames
<1>2. Len(Mentioned(plan)) \in Nat /\ DOMAIN Mentioned(plan) = 1..Len(Mentioned(plan))
  BY <1>1, SequenceIsList
<1>3. HoldsOnce(SlotsOf(plan), Mentioned(plan), Firsts(Mentioned(plan)))
  <2> DEFINE names == Mentioned(plan)
             N == Len(names)
  <2>1. N \in Nat /\ DOMAIN names = 1..N
    BY <1>2
  <2> HIDE DEF names, N
  <2>2. HoldsOnce(Distinct(names), names, Firsts(names))
    BY <2>1, DistinctIs
  <2> QED
    BY <2>2 DEF SlotsOf, names
<1> QED
  BY <1>1, <1>3 DEF HoldsOnce

(* Names that are replaced one by one stay apart.                           *)
LEMMA SwapsApart ==
    ASSUME NEW old, IsSequence(old), \A m, n \in DOMAIN old : old[m] = old[n] => m = n,
           NEW new, \A m, n \in DOMAIN old : new[m] = new[n] => m = n
    PROVE  /\ \A n \in DOMAIN old : Swapped(old[n], old, new) = new[n]
           /\ \A m, n \in DOMAIN old : Swapped(old[m], old, new) = Swapped(old[n], old, new) => old[m] = old[n]
<1>1. ASSUME NEW n \in DOMAIN old
      PROVE  Swapped(old[n], old, new) = new[n]
  <2>1. Contains(old, old[n])
    BY SequenceIsList DEF Contains
  <2>2. PositionOf(old[n], old) = n
    BY PositionIs
  <2> QED
    BY <2>1, <2>2 DEF Swapped
<1> QED
  BY <1>1

(* A plan with its slots replaced by different headers has its shape, its   *)
(* output and those headers as its slots.                                   *)
LEMMA RewrittenAlike ==
    ASSUME NEW plan, IsPlan(plan), NEW new,
           \A m, n \in DOMAIN SlotsOf(plan) : new[m] = new[n] => m = n
    PROVE  LET other == Rewrite(plan, SlotsOf(plan), new) IN
           /\ Shape(other) = Shape(plan)
           /\ OutputOf(other) = OutputOf(plan)
           /\ SlotsOf(other) = [n \in DOMAIN SlotsOf(plan) |-> new[n]]
           /\ DOMAIN other = DOMAIN plan
<1> DEFINE old == SlotsOf(plan)
           names == Mentioned(plan)
           F == Firsts(names)
           other == Rewrite(plan, old, new)
           those == Mentioned(other)
<1>1. IsSequence(names) /\ HoldsOnce(old, names, F) /\ IsSequence(old)
  BY SlotsAre
<1>2. IsPlan(other) /\ DOMAIN other = DOMAIN plan /\ those = EachSwapped(names, old, new)
  BY PlanRewritten
<1>3. other = [n \in DOMAIN plan |-> RewriteStep(plan[n], old, new)]
  BY DEF Rewrite
<1>4. \A n \in DOMAIN plan : \A k \in DOMAIN NamesIn(plan[n]) : \E m \in DOMAIN names : names[m] = NamesIn(plan[n])[k]
  BY MentionsItsNames
<1>5. /\ SlotsOf(other) = Distinct(those)
      /\ \A m, n \in DOMAIN old : new[m] = new[n] => m = n
  BY DEF SlotsOf
<1> HIDE DEF old, names, F, other, those
<1>6. /\ \A n \in DOMAIN old : Swapped(old[n], old, new) = new[n]
      /\ \A m, n \in DOMAIN old : Swapped(old[m], old, new) = Swapped(old[n], old, new) => old[m] = old[n]
  <2>1. \A m, n \in DOMAIN old : old[m] = old[n] => m = n
    BY <1>1 DEF HoldsOnce
  <2> QED
    BY <1>1, <1>5, <2>1, SwapsApart
<1>7. \A i, j \in DOMAIN names : Swapped(names[i], old, new) = Swapped(names[j], old, new) => names[i] = names[j]
  <2>1. \A i \in DOMAIN names : \E n \in DOMAIN old : old[n] = names[i]
    BY <1>1 DEF HoldsOnce
  <2> QED
    BY <1>6, <2>1
<1>8. SlotsOf(other) = [n \in DOMAIN old |-> new[n]]
  <2> DEFINE N == Len(names)
             D == Distinct(those)
  <2>1. N \in Nat /\ DOMAIN names = 1..N
    BY <1>1, SequenceIsList
  <2>2. DOMAIN those = 1..N /\ \A i \in 1..N : those[i] = Swapped(names[i], old, new)
    BY <1>2, <2>1 DEF EachSwapped
  <2> HIDE DEF N, D
  <2>3. Firsts(those) = F
    <3>1. \A i, j \in 1..N : names[i] = names[j] <=> those[i] = those[j]
      BY <1>7, <2>1, <2>2
    <3> QED
      BY <2>1, <2>2, <3>1, AlikeLists DEF F
  <2>4. HoldsOnce(D, those, F)
    BY <2>1, <2>2, <2>3, DistinctIs DEF D
  <2>5. D = [n \in DOMAIN old |-> D[n]] /\ DOMAIN D = DOMAIN old
    BY <1>1, <2>4 DEF HoldsOnce, IsSequence
  <2>6. ASSUME NEW n \in DOMAIN old
        PROVE  D[n] = new[n]
    <3> DEFINE f == Nth(F, n)
    <3>1. f \in 1..N /\ old[n] = names[f] /\ D[n] = those[f]
      BY <1>1, <2>1, <2>4, <2>5 DEF HoldsOnce
    <3> HIDE DEF f
    <3> QED
      BY <1>6, <2>2, <3>1
  <2> QED
    BY <1>5, <2>5, <2>6 DEF D
<1>9. ASSUME NEW n \in DOMAIN plan
      PROVE  /\ other[n].do = plan[n].do
             /\ HasFormula(plan[n]) => other[n].fn = plan[n].fn /\ Anonymize(other[n].names) = Anonymize(plan[n].names)
             /\ plan[n].do = "create_derived_column" => other[n].header = plan[n].header
  <2> DEFINE step == plan[n]
             is == other[n]
  <2>1. IsStep(step)
    BY DEF IsPlan
  <2>2. is = RewriteStep(step, old, new)
    BY <1>3
  <2>3. \A k \in DOMAIN NamesIn(step) : \E m \in DOMAIN names : names[m] = NamesIn(step)[k]
    BY <1>4
  <2> HIDE DEF step, is
  <2>4. /\ is.do = step.do
        /\ HasFormula(step) => is.fn = step.fn /\ is.names = EachSwapped(step.names, old, new)
        /\ step.do = "create_derived_column" => is.header = step.header
    BY <2>1, <2>2, StepRewritten
  <2>5. ASSUME HasFormula(step)
        PROVE  Anonymize(is.names) = Anonymize(step.names)
    <3> DEFINE a == step.names
               b == is.names
               N == Len(a)
    <3>1. N \in Nat /\ DOMAIN a = 1..N
      BY <2>1, <2>5, SequenceIsList DEF IsStep
    <3>2. DOMAIN b = 1..N /\ \A i \in 1..N : b[i] = Swapped(a[i], old, new)
      BY <2>4, <2>5, <3>1 DEF EachSwapped
    <3>3. \A i \in 1..N : \E m \in DOMAIN names : names[m] = a[i]
      BY <2>3, <2>5, <3>1 DEF NamesIn
    <3> HIDE DEF a, b, N
    <3>4. \A i, j \in 1..N : a[i] = a[j] <=> b[i] = b[j]
      BY <1>7, <3>2, <3>3
    <3>5. Anonymize(b) = Anonymize(a)
      BY <3>1, <3>2, <3>4, AlikeLists
    <3> QED
      BY <3>5 DEF a, b
  <2> QED
    BY <2>4, <2>5 DEF step, is
<1>10. Shape(other) = Shape(plan)
  BY <1>2, <1>9 DEF Shape, HasFormula
<1>11. OutputOf(other) = OutputOf(plan)
  <2> DEFINE made == {i \in DOMAIN plan : plan[i].do = "create_derived_column"}
             then == {i \in DOMAIN other : other[i].do = "create_derived_column"}
  <2>1. then = made
    BY <1>2, <1>9
  <2>2. \A i \in made : other[i].header = plan[i].header
    BY <1>9
  <2>3. made \subseteq Nat
    BY DEF IsPlan, IsSequence
  <2>4. OutputOf(other) = (IF then = {} THEN NoName ELSE other[Min(then)].header)
    BY DEF OutputOf
  <2>5. OutputOf(plan) = (IF made = {} THEN NoName ELSE plan[Min(made)].header)
    BY DEF OutputOf
  <2> HIDE DEF made, then
  <2>6. made # {} => Min(made) \in made
    BY <2>3, LeastNumber DEF Min
  <2> QED
    BY <2>1, <2>2, <2>4, <2>5, <2>6
<1> QED
  BY <1>2, <1>8, <1>10, <1>11 DEF other, old

(* The library as it grows with each outcome.                               *)
IsGrown(after, outcomes) ==
    /\ after[0] = <<>>
    /\ \A n \in 1..Len(outcomes) : after[n] = Remember(after[n - 1], outcomes[n])

(* Every entry of a library is the record of an outcome worth keeping.      *)
IsEntry(entry) == \E outcome : IsOutcome(outcome) /\ Worth(outcome) /\ entry = Record(outcome)
IsLibrary(library) == IsSequence(library) /\ \A k \in DOMAIN library : IsEntry(library[k])

(* A library grows outcome by outcome.                                      *)
LEMMA RememberedIs ==
    ASSUME NEW outcomes, IsSequence(outcomes), \A n \in DOMAIN outcomes : IsOutcome(outcomes[n])
    PROVE  /\ \E after : IsGrown(after, outcomes) /\ Remembered(outcomes) = after[Len(outcomes)]
           /\ IsLibrary(Remembered(outcomes))
<1> DEFINE N == Len(outcomes)
           U == {Record(outcomes[n]) : n \in {m \in 1..N : Worth(outcomes[m])}}
           S == Seq(U)
           g == [x \in S \X (1..N) |-> Remember(x[1], outcomes[x[2]])]
           Rec(f) == f = [n \in 0..N |-> IF n = 0 THEN <<>> ELSE Remember(f[n - 1], outcomes[n])]
           after == CHOOSE f : Rec(f)
<1>1. N \in Nat /\ DOMAIN outcomes = 1..N
  BY SequenceIsList
<1>2. ASSUME NEW n \in 1..N, NEW l \in S
      PROVE  Remember(l, outcomes[n]) \in S
  <2>1. CASE Worth(outcomes[n])
    <3>1. Record(outcomes[n]) \in U
      BY <2>1
    <3> HIDE DEF U
    <3> QED
      BY <2>1, <3>1 DEF Remember
  <2>2. CASE ~Worth(outcomes[n])
    BY <2>2 DEF Remember
  <2> QED
    BY <2>1, <2>2
<1>3. \A u \in U : IsEntry(u)
  BY <1>1 DEF IsEntry
<1> HIDE DEF U
<1>4. <<>> \in S /\ g \in [S \X (1..N) -> S]
  BY <1>2
<1>5. \A f \in [0..N -> S] : \A n \in 1..N : g[<<f[n - 1], n>>] = Remember(f[n - 1], outcomes[n])
  <2>1. ASSUME NEW f \in [0..N -> S], NEW n \in 1..N
        PROVE  <<f[n - 1], n>> \in S \X (1..N)
    <3>1. n - 1 \in 0..N
      BY <1>1
    <3> QED
      BY <3>1
  <2> QED
    BY <2>1
<1> HIDE DEF S, g, N
<1>6. PICK f \in [0..N -> S] : f[0] = <<>> /\ \A n \in 1..N : f[n] = g[<<f[n - 1], n>>]
  <2>1. IsRule(g, <<>>, S, N)
    BY <1>1, <1>4 DEF IsRule
  <2>2. \E f : Follows(f, g, <<>>, S, N)
    BY <2>1, Iterates
  <2> QED
    BY <2>2 DEF Follows
<1>7. f = [n \in 0..N |-> IF n = 0 THEN <<>> ELSE Remember(f[n - 1], outcomes[n])]
  <2>1. ASSUME NEW n \in 0..N
        PROVE  f[n] = IF n = 0 THEN <<>> ELSE Remember(f[n - 1], outcomes[n])
    <3>1. CASE n = 0
      BY <1>6, <3>1
    <3>2. CASE n # 0
      <4>1. n \in 1..N
        BY <1>1, <3>2
      <4> QED
        BY <1>5, <1>6, <3>2, <4>1
    <3> QED
      BY <3>1, <3>2
  <2> QED
    BY <1>6, <2>1
<1>8. Rec(after)
  <2>1. Rec(f)
    BY <1>7
  <2> HIDE DEF Rec
  <2> QED
    BY <2>1
<1>9. Remembered(outcomes) = after[N]
  BY DEF Remembered, N
<1> HIDE DEF after
<1>10. IsGrown(after, outcomes)
  <2>1. after[0] = <<>>
    <3>1. 0 \in 0..N
      BY <1>1
    <3> QED
      BY <1>8, <3>1
  <2>2. ASSUME NEW n \in 1..N
        PROVE  after[n] = Remember(after[n - 1], outcomes[n])
    <3>1. n \in 0..N /\ n # 0
      BY <1>1
    <3> QED
      BY <1>8, <3>1
  <2> QED
    BY <2>1, <2>2 DEF IsGrown, N
<1> DEFINE Good == {n \in 0..N : after[n] \in S}
<1>11. 0..N \subseteq Good
  <2>1. 0 \in Good /\ 0 \in Nat
    BY <1>1, <1>4, <1>10 DEF IsGrown
  <2>2. ASSUME NEW n \in 0..(N - 1), n \in Good
        PROVE  n + 1 \in Good
    <3> DEFINE m == n + 1
    <3>1. m \in 1..N /\ m \in 0..N /\ m - 1 = n
      BY <1>1
    <3> HIDE DEF m
    <3>2. after[m] = Remember(after[n], outcomes[m])
      BY <1>10, <3>1 DEF IsGrown, N
    <3>3. m \in Good
      BY <1>2, <2>2, <3>1, <3>2
    <3> QED
      BY <3>3 DEF m
  <2> HIDE DEF Good
  <2> QED
    BY <1>1, <2>1, <2>2, GoesOn
<1>12. after[N] \in Seq(U)
  BY <1>1, <1>11 DEF S
<1>13. IsLibrary(after[N])
  <2> DEFINE l == after[N]
  <2>1. l \in Seq(U)
    BY <1>12
  <2> HIDE DEF l
  <2>2. Len(l) \in Nat /\ l \in [1..Len(l) -> U]
    BY <2>1
  <2>3. IsLibrary(l)
    BY <1>3, <2>2 DEF IsLibrary, IsSequence
  <2> QED
    BY <2>3 DEF l
<1> QED
  BY <1>9, <1>10, <1>13 DEF N

(* Ranked names are a list.                                                 *)
LEMMA RankedIsList ==
    ASSUME NEW names, IsFiniteSet(DOMAIN names)
    PROVE  IsSequence(Ranked(names)) /\ Len(Ranked(names)) = Cardinality(ToSet(names))
           /\ DOMAIN Ranked(names) = 1..Cardinality(ToSet(names))
<1> DEFINE k == Cardinality(ToSet(names))
           R == Ranked(names)
<1>1. IsFiniteSet({names[i] : i \in DOMAIN names})
  <2> DEFINE Part == {names[i] : i \in DOMAIN names}
             f == [i \in DOMAIN names |-> names[i]]
  <2>1. f \in Surjection(DOMAIN names, Part)
    BY DEF Surjection
  <2> HIDE DEF Part, f
  <2>2. IsFiniteSet(Part)
    BY <2>1, FS_Surjection
  <2> QED
    BY <2>2 DEF Part
<1>2. k \in Nat
  BY <1>1, FS_CardinalityType DEF ToSet
<1>3. R = [i \in 1..k |-> R[i]]
  <2> DEFINE Count(n) == Cardinality({i \in DOMAIN names : names[i] = n})
             Ahead(n) == {m \in ToSet(names) : Count(m) > Count(n) \/ (Count(m) = Count(n) /\ Precedes(m, n))}
             Place(i) == CHOOSE n \in ToSet(names) : Cardinality(Ahead(n)) = i - 1
  <2>1. R = [i \in 1..k |-> Place(i)]
    BY DEF Ranked
  <2> HIDE DEF Place, R, k
  <2> QED
    BY <2>1
<1> HIDE DEF k, R
<1> QED
  BY <1>2, <1>3, ListIsSequence DEF k, R

(* A policy of a library is put together from a plan that was worth keeping. *)
LEMMA PoliciesAre ==
    ASSUME NEW library, IsLibrary(library), NEW k, NEW policy \in Policies(library, k)
    PROVE  \E plan : IsPlan(plan) /\ IsPolicyOf(policy, plan)
<1>0. IsSequence(library) /\ \A n \in DOMAIN library : IsEntry(library[n])
  BY DEF IsLibrary
<1>1. Len(library) \in Nat /\ DOMAIN library = 1..Len(library)
  BY <1>0, SequenceIsList
<1>2. PICK j \in DOMAIN library : policy = Policy(library, library[j].shape)
  BY DEF Policies
<1> DEFINE shape == library[j].shape
           group == Group(library, shape)
           least == Min(group)
<1>3. j \in group /\ group \subseteq DOMAIN library
  BY DEF Group
<1>4. least \in group
  <2>1. group \subseteq Nat
    BY <1>1, <1>3
  <2> HIDE DEF group
  <2> QED
    BY <1>3, <2>1, LeastNumber DEF Min
<1>5. library[least].shape = shape /\ least \in DOMAIN library
  BY <1>3, <1>4 DEF Group
<1>6. PICK outcome : IsOutcome(outcome) /\ library[least] = Record(outcome)
  BY <1>0, <1>5 DEF IsEntry
<1> DEFINE plan == outcome.plan
           first == library[least]
           Bound(i) == [n \in {m \in group : i <= Len(library[m].bindings)} |-> library[n].bindings[i]]
<1>7. IsPlan(plan) /\ first.plan = plan /\ first.bindings = SlotsOf(plan) /\ first.output = OutputOf(plan)
      /\ shape = Shape(plan)
  BY <1>5, <1>6 DEF Record, IsOutcome
<1>8. /\ policy.shape = shape /\ policy.representative = first.plan /\ policy.output = first.output
      /\ policy.slots = [i \in DOMAIN first.bindings |-> Ranked(Bound(i))]
  BY <1>2 DEF Policy
<1>9. ASSUME NEW i
      PROVE  IsSequence(Ranked(Bound(i)))
  <2> DEFINE names == Bound(i)
  <2>1. DOMAIN names \subseteq 1..Len(library)
    BY <1>1, <1>3
  <2> HIDE DEF names
  <2>2. IsFiniteSet(1..Len(library))
    BY <1>1, FS_Interval
  <2>3. IsFiniteSet(DOMAIN names)
    BY <2>1, <2>2, PartsAreSmaller
  <2>4. IsSequence(Ranked(names))
    BY <2>3, RankedIsList
  <2> QED
    BY <2>4 DEF names
<1> HIDE DEF plan, first, Bound, shape, group, least
<1>10. IsSequence(SlotsOf(plan))
  BY <1>7, SlotsAre
<1> DEFINE slots == policy.slots
           l == Len(SlotsOf(plan))
<1>11. l \in Nat /\ DOMAIN SlotsOf(plan) = 1..l
  BY <1>10, SequenceIsList
<1>12. slots = [i \in 1..l |-> slots[i]] /\ \A i \in 1..l : slots[i] = Ranked(Bound(i))
  BY <1>7, <1>8, <1>11
<1> HIDE DEF slots, l
<1>13. Len(slots) = l /\ IsSequence(slots) /\ DOMAIN slots = 1..l
  BY <1>11, <1>12, ListIsSequence
<1>14. AreSlots(slots)
  BY <1>9, <1>12, <1>13 DEF AreSlots
<1>15. IsPolicyOf(policy, plan)
  BY <1>7, <1>8, <1>13, <1>14 DEF IsPolicyOf, slots, l
<1> QED
  BY <1>7, <1>15

(* A policy put to a table fits it.                                         *)
LEMMA PolicyFits ==
    ASSUME NEW policy, NEW plan, IsPlan(plan), IsPolicyOf(policy, plan), NEW table, AreColumns(table)
    PROVE  FitsTheTable(policy, table)
<1> DEFINE slots == policy.slots
           bound == Bindings(slots, table)
           new == [i \in DOMAIN bound |-> bound[i].header]
           old == SlotsOf(plan)
           other == Rewrite(plan, old, new)
           sure == IF \A i \in DOMAIN bound : bound[i].byName THEN 90 ELSE 50
           proposal == Instantiate(policy, table)
<1>1. /\ policy.representative = plan /\ policy.shape = Shape(plan) /\ policy.output = OutputOf(plan)
      /\ AreSlots(slots) /\ Len(slots) = Len(old)
  BY DEF IsPolicyOf
<1>2. proposal = IF \E i \in DOMAIN bound : bound[i] = Unbound THEN NoPlan ELSE Proposal(other, sure)
  BY <1>1 DEF Instantiate
<1>3. sure = 90 <=> \A i \in DOMAIN bound : bound[i].byName
  OBVIOUS
<1>4. IsSequence(old)
  BY SlotsAre
<1>5. Len(old) \in Nat /\ DOMAIN old = 1..Len(old)
  BY <1>4, SequenceIsList
<1> SUFFICES ASSUME proposal # NoPlan
             PROVE  /\ Shape(proposal.plan) = policy.shape
                    /\ Len(SlotsOf(proposal.plan)) = Len(slots)
                    /\ ToSet(SlotsOf(proposal.plan)) \subseteq ToSet(Headers(table))
                    /\ proposal.confidence = 90 <=>
                        \A i \in DOMAIN SlotsOf(proposal.plan) : Contains(slots[i], SlotsOf(proposal.plan)[i])
                    /\ OutputOf(proposal.plan) = policy.output
  BY DEF FitsTheTable
<1>6. /\ \A i \in DOMAIN bound : bound[i] # Unbound
      /\ proposal.plan = other /\ proposal.confidence = sure
  BY <1>2 DEF Proposal
<1>7. new = [i \in DOMAIN bound |-> bound[i].header]
  OBVIOUS
<1> DEFINE then == SlotsOf(other)
<1> HIDE DEF sure, proposal, other, bound, then, new, slots, old
<1>8. /\ DOMAIN bound = 1..Len(slots)
      /\ \A i \in DOMAIN bound : /\ bound[i].header \in ToSet(Headers(table)) /\ bound[i].byName \in BOOLEAN
                                 /\ bound[i].byName <=> Contains(slots[i], bound[i].header)
      /\ \A i, j \in DOMAIN bound : bound[i].header = bound[j].header => i = j
  BY <1>1, <1>6, BoundApart DEF bound
<1>9. DOMAIN bound = DOMAIN old
  BY <1>1, <1>5, <1>8
<1>10. \A i, j \in DOMAIN SlotsOf(plan) : new[i] = new[j] => i = j
  BY <1>7, <1>8, <1>9 DEF old
<1>11. /\ Shape(other) = Shape(plan) /\ OutputOf(other) = OutputOf(plan)
       /\ then = [n \in DOMAIN old |-> new[n]]
  BY <1>10, RewrittenAlike DEF other, old, then
<1>12. then = [n \in 1..Len(slots) |-> bound[n].header]
  BY <1>1, <1>5, <1>7, <1>9, <1>11
<1>13. DOMAIN then = 1..Len(slots) /\ Len(then) = Len(slots)
  <2>1. then = [n \in 1..Len(slots) |-> then[n]] /\ Len(slots) \in Nat
    BY <1>1, <1>5, <1>12
  <2> QED
    BY <2>1, ListIsSequence
<1>14. ToSet(then) \subseteq ToSet(Headers(table))
  <2>1. \A n \in DOMAIN then : then[n] \in ToSet(Headers(table))
    BY <1>8, <1>12, <1>13
  <2>2. ToSet(then) = {then[n] : n \in DOMAIN then}
    BY DEF ToSet
  <2> QED
    BY <2>1, <2>2
<1>15. (\A i \in DOMAIN bound : bound[i].byName) <=> \A i \in DOMAIN then : Contains(slots[i], then[i])
  BY <1>8, <1>12, <1>13
<1>16. sure = 90 <=> \A i \in DOMAIN bound : bound[i].byName
  BY <1>3 DEF sure
<1> QED
  BY <1>1, <1>6, <1>11, <1>13, <1>14, <1>15, <1>16 DEF then

(* Of one name there is one to rank.                                        *)
LEMMA RankedOne ==
    ASSUME NEW x, ~Precedes(x, x), NEW names, names = [k \in {1} |-> x]
    PROVE  Ranked(names) = [k \in 1..1 |-> x]
<1> DEFINE Count(n) == Cardinality({i \in DOMAIN names : names[i] = n})
           Ahead(n) == {m \in ToSet(names) : Count(m) > Count(n) \/ (Count(m) = Count(n) /\ Precedes(m, n))}
           Place(k) == CHOOSE n \in ToSet(names) : Cardinality(Ahead(n)) = k - 1
<1>1. Ranked(names) = [k \in 1..Cardinality(ToSet(names)) |-> Place(k)]
  BY DEF Ranked
<1>2. DOMAIN names = {1} /\ names[1] = x
  OBVIOUS
<1>3. ToSet(names) = {x}
  BY <1>2 DEF ToSet
<1>4. Count(x) = 1
  <2>1. {i \in DOMAIN names : names[i] = x} = {1}
    BY <1>2
  <2> QED
    BY <2>1, FS_Singleton
<1>5. Ahead(x) = {}
  <2> HIDE DEF Count
  <2> QED
    BY <1>3, <1>4
<1>6. Cardinality(Ahead(x)) = 0
  <2> HIDE DEF Ahead
  <2> QED
    BY <1>5, FS_EmptySet
<1>7. Place(1) = x
  <2> HIDE DEF Ahead
  <2>1. \A n \in ToSet(names) : Cardinality(Ahead(n)) = 1 - 1 <=> n = x
    BY <1>3, <1>6
  <2> QED
    BY <1>3, <2>1
<1>8. Cardinality(ToSet(names)) = 1
  BY <1>3, FS_Singleton
<1> HIDE DEF Place
<1> QED
  BY <1>1, <1>7, <1>8

(* Replacing names by themselves is replacing none.                         *)
LEMMA SwappedForItself ==
    ASSUME NEW plan, NEW old, IsSequence(old)
    PROVE  Rewrite(plan, old, old) = Rewrite(plan, <<>>, <<>>)
<1>1. ASSUME NEW name
      PROVE  Swapped(name, old, old) = name /\ Swapped(name, <<>>, <<>>) = name
  <2>1. ~Contains(<<>>, name)
    BY DEF Contains
  <2>2. ASSUME Contains(old, name)
        PROVE  old[PositionOf(name, old)] = name
    <3>1. \E i \in DOMAIN old : old[i] = name
      BY <2>2, SequenceIsList DEF Contains
    <3> QED
      BY <3>1 DEF PositionOf
  <2> QED
    BY <2>1, <2>2 DEF Swapped
<1>2. ASSUME NEW names
      PROVE  EachSwapped(names, old, old) = EachSwapped(names, <<>>, <<>>)
  BY <1>1 DEF EachSwapped
<1>3. ASSUME NEW step
      PROVE  RewriteStep(step, old, old) = RewriteStep(step, <<>>, <<>>)
  BY <1>1, <1>2 DEF RewriteStep
<1> QED
  BY <1>3 DEF Rewrite

(* The library of one outcome is its record, if it was worth keeping.       *)
LEMMA RememberedOne ==
    ASSUME NEW outcome, IsOutcome(outcome)
    PROVE  Remembered(<<outcome>>) = IF Worth(outcome) THEN <<Record(outcome)>> ELSE <<>>
<1> DEFINE outcomes == <<outcome>>
<1>1. IsSequence(outcomes) /\ Len(outcomes) = 1 /\ DOMAIN outcomes = {1} /\ outcomes[1] = outcome
  BY DEF IsSequence
<1> HIDE DEF outcomes
<1>2. \A n \in DOMAIN outcomes : IsOutcome(outcomes[n])
  BY <1>1
<1>3. PICK after : IsGrown(after, outcomes) /\ Remembered(outcomes) = after[1]
  BY <1>1, <1>2, RememberedIs
<1>4. after[0] = <<>> /\ after[1] = Remember(after[0], outcome)
  BY <1>1, <1>3 DEF IsGrown
<1>5. Remembered(outcomes) = Remember(<<>>, outcome)
  BY <1>3, <1>4
<1>6. Remember(<<>>, outcome) = IF Worth(outcome) THEN <<Record(outcome)>> ELSE <<>>
  BY DEF Remember
<1> QED
  BY <1>5, <1>6 DEF outcomes

(* The policies of one plan are one, of its own headers.                    *)
LEMMA PolicyOfOne ==
    ASSUME NEW outcome, IsOutcome(outcome), Worth(outcome), NEW policy \in Policies(<<Record(outcome)>>, 1)
    PROVE  /\ policy.representative = outcome.plan
           /\ policy.slots = [i \in DOMAIN SlotsOf(outcome.plan) |-> [k \in 1..1 |-> SlotsOf(outcome.plan)[i]]]
<1> DEFINE entry == Record(outcome)
           library == <<entry>>
           shape == entry.shape
           group == Group(library, shape)
           old == SlotsOf(outcome.plan)
           Bound(i) == [n \in {m \in group : i <= Len(library[m].bindings)} |-> library[n].bindings[i]]
<1>1. DOMAIN library = {1} /\ library[1] = entry
  OBVIOUS
<1>2. entry.plan = outcome.plan /\ entry.bindings = old
  BY DEF Record
<1>3. IsSequence(old) /\ \A n \in ToSet(old) : ~Precedes(n, n)
  BY SlotsAre DEF IsOutcome
<1> HIDE DEF old, entry, library
<1>4. policy = Policy(library, shape)
  BY <1>1 DEF Policies, library, entry
<1>5. group = {1}
  BY <1>1 DEF Group
<1>6. Min(group) = 1
  BY <1>5 DEF Min
<1>7. policy.representative = entry.plan /\ policy.slots = [i \in DOMAIN entry.bindings |-> Ranked(Bound(i))]
  BY <1>1, <1>4, <1>6 DEF Policy
<1>8. ASSUME NEW i \in DOMAIN old
      PROVE  Ranked(Bound(i)) = [k \in 1..1 |-> old[i]]
  <2> DEFINE names == Bound(i)
             x == old[i]
  <2>1. i <= Len(old)
    BY <1>3, SequenceIsList
  <2>2. {m \in group : i <= Len(library[m].bindings)} = {1}
    BY <1>1, <1>2, <1>5, <2>1
  <2>3. names = [k \in {1} |-> x]
    BY <1>1, <1>2, <2>2
  <2>4. ~Precedes(x, x)
    BY <1>3 DEF ToSet
  <2> HIDE DEF names, x
  <2>5. Ranked(names) = [k \in 1..1 |-> x]
    BY <2>3, <2>4, RankedOne
  <2> QED
    BY <2>5 DEF names, x
<1> HIDE DEF Bound
<1> QED
  BY <1>2, <1>7, <1>8 DEF old

(* Where its own headers are, each slot is bound to its own.                *)
LEMMA BoundToItself ==
    ASSUME NEW old, IsSequence(old), \A m, n \in DOMAIN old : old[m] = old[n] => m = n,
           NEW table, AreColumns(table), \A n \in DOMAIN old : old[n] \in ToSet(Headers(table)),
           NEW slots, slots = [i \in DOMAIN old |-> [k \in 1..1 |-> old[i]]]
    PROVE  Bindings(slots, table) = [n \in DOMAIN old |-> [header |-> old[n], byName |-> TRUE]]
<1> DEFINE N == Len(old)
<1>1. N \in Nat /\ DOMAIN old = 1..N /\ old = [i \in 1..N |-> old[i]]
  BY SequenceIsList
<1>2. DOMAIN slots = 1..N /\ slots = [i \in 1..N |-> slots[i]] /\ \A i \in 1..N : slots[i] = [k \in 1..1 |-> old[i]]
  BY <1>1
<1>3. ASSUME NEW i \in 1..N
      PROVE  /\ IsSequence(slots[i]) /\ Len(slots[i]) = 1 /\ DOMAIN slots[i] = {1} /\ slots[i][1] = old[i]
  <2> DEFINE s == slots[i]
  <2>1. s = [k \in 1..1 |-> old[i]]
    BY <1>2
  <2> HIDE DEF s
  <2>2. s = [k \in 1..1 |-> s[k]] /\ 1 \in Nat /\ s[1] = old[i] /\ DOMAIN s = {1}
    BY <2>1
  <2>3. IsSequence(s) /\ Len(s) = 1
    BY <2>2, ListIsSequence
  <2> QED
    BY <2>2, <2>3 DEF s
<1> HIDE DEF N
<1>4. Len(slots) = N /\ AreSlots(slots)
  BY <1>1, <1>2, <1>3, ListIsSequence DEF AreSlots
<1>5. PICK taken : /\ IsTaken(taken, slots, table)
                   /\ Bindings(slots, table) = [n \in 1..N |-> Bind(slots[n], table, taken[n - 1])]
  <2>1. BoundInTurn(slots, table)
    BY <1>4, BindingsAre
  <2> QED
    BY <1>4, <2>1 DEF BoundInTurn
<1>6. ASSUME NEW n \in 1..N, NEW t, old[n] \notin t
      PROVE  Bind(slots[n], table, t) = [header |-> old[n], byName |-> TRUE]
  <2> DEFINE seen == slots[n]
             there == {i \in DOMAIN seen : Contains(Headers(table), seen[i]) /\ seen[i] \notin t}
  <2>1. DOMAIN seen = {1} /\ seen[1] = old[n]
    BY <1>3
  <2>2. Contains(Headers(table), old[n])
    BY <1>1, HeadersAre
  <2> HIDE DEF seen
  <2>3. there = {1}
    BY <1>6, <2>1, <2>2
  <2>4. Min(there) = 1
    BY <2>3 DEF Min
  <2>5. Bind(seen, table, t) = [header |-> old[n], byName |-> TRUE]
    BY <2>1, <2>3, <2>4 DEF Bind
  <2> QED
    BY <2>5 DEF seen
<1> DEFINE Good == {n \in 0..N : \A x \in taken[n] : \E j \in 1..n : x = old[j]}
<1>7. ASSUME NEW n \in 0..(N - 1), n \in Good
      PROVE  Bind(slots[n + 1], table, taken[n]) = [header |-> old[n + 1], byName |-> TRUE]
  <2> DEFINE m == n + 1
             t == taken[n]
  <2>1. m \in 1..N
    BY <1>1
  <2>2. old[m] \notin t
    <3>1. ASSUME NEW j \in 1..n
          PROVE  old[m] # old[j]
      <4>1. j \in 1..N /\ j # m
        BY <1>1
      <4> QED
        BY <1>1, <2>1, <4>1
    <3> QED
      BY <1>7, <3>1
  <2> HIDE DEF m, t
  <2>3. Bind(slots[m], table, t) = [header |-> old[m], byName |-> TRUE]
    BY <1>6, <2>1, <2>2
  <2> QED
    BY <2>3 DEF m, t
<1>8. 0..N \subseteq Good
  <2>1. 0 \in Good /\ 0 \in Nat
    BY <1>1, <1>5 DEF IsTaken
  <2>2. ASSUME NEW n \in 0..(N - 1), n \in Good
        PROVE  n + 1 \in Good
    <3> DEFINE m == n + 1
    <3>1. m \in 1..N /\ m \in 0..N /\ m - 1 = n /\ m \in 1..m /\ \A j \in 1..n : j \in 1..m
      BY <1>1
    <3>2. Bind(slots[m], table, taken[n]) = [header |-> old[m], byName |-> TRUE]
      BY <1>7, <2>2
    <3> HIDE DEF m
    <3>3. taken[m] = taken[n] \cup {Bind(slots[m], table, taken[n]).header}
      BY <1>4, <1>5, <3>1 DEF IsTaken
    <3>4. taken[m] = taken[n] \cup {old[m]}
      BY <3>2, <3>3
    <3>5. m \in Good
      BY <2>2, <3>1, <3>4
    <3> QED
      BY <3>5 DEF m
  <2> HIDE DEF Good
  <2> QED
    BY <1>1, <2>1, <2>2, GoesOn
<1> HIDE DEF Good
<1>9. ASSUME NEW n \in 1..N
      PROVE  Bind(slots[n], table, taken[n - 1]) = [header |-> old[n], byName |-> TRUE]
  <2> DEFINE m == n - 1
  <2>1. m \in 0..(N - 1) /\ m \in 0..N /\ m + 1 = n
    BY <1>1
  <2> HIDE DEF m
  <2>2. Bind(slots[m + 1], table, taken[m]) = [header |-> old[m + 1], byName |-> TRUE]
    BY <1>7, <1>8, <2>1
  <2> QED
    BY <2>1, <2>2 DEF m
<1> QED
  BY <1>1, <1>5, <1>9

(* What was learnt from one run repeats it.                                 *)
LEMMA OneRepeats ==
    ASSUME NEW outcome, IsOutcome(outcome), NEW table, AreColumns(table)
    PROVE  Repeats(outcome, table)
<1> DEFINE library == Remembered(<<outcome>>)
           policies == Policies(library, 1)
           plan == outcome.plan
           old == SlotsOf(plan)
           headers == ToSet(Headers(table))
<1>1. library = IF Worth(outcome) THEN <<Record(outcome)>> ELSE <<>>
  BY RememberedOne
<1>2. CASE ~Worth(outcome)
  <2>1. policies = {}
    BY <1>1, <1>2 DEF Policies
  <2> QED
    BY <1>2, <2>1 DEF Repeats
<1>3. CASE Worth(outcome)
  <2>1. library = <<Record(outcome)>>
    BY <1>1, <1>3
  <2>2. policies # {}
    <3> DEFINE entry == Record(outcome)
               one == <<entry>>
    <3>1. DOMAIN one = {1} /\ one[1] = entry
      OBVIOUS
    <3> HIDE DEF entry, one
    <3>2. Group(one, one[1].shape) = {1}
      BY <3>1 DEF Group
    <3>3. Cardinality({1}) = 1
      BY FS_Singleton
    <3>4. Policies(one, 1) # {}
      BY <3>1, <3>2, <3>3 DEF Policies
    <3> QED
      BY <2>1, <3>4 DEF one, entry
  <2>3. ASSUME NEW policy \in policies, ToSet(old) \subseteq headers
        PROVE  Instantiate(policy, table) = Proposal(Rewrite(plan, <<>>, <<>>), 90)
    <3> DEFINE slots == policy.slots
               bound == Bindings(slots, table)
               new == [i \in DOMAIN bound |-> bound[i].header]
               sure == IF \A i \in DOMAIN bound : bound[i].byName THEN 90 ELSE 50
    <3>1. policy.representative = plan /\ slots = [i \in DOMAIN old |-> [k \in 1..1 |-> old[i]]]
      BY <1>3, <2>1, <2>3, PolicyOfOne
    <3>2. IsSequence(old) /\ \A m, n \in DOMAIN old : old[m] = old[n] => m = n
      BY SlotsAre DEF IsOutcome, HoldsOnce
    <3>3. \A n \in DOMAIN old : old[n] \in ToSet(Headers(table))
      BY <2>3 DEF ToSet
    <3>4. /\ DOMAIN old = 1..Len(old) /\ old = [i \in 1..Len(old) |-> old[i]]
      BY <3>2, SequenceIsList
    <3>5. Instantiate(policy, table) =
            IF \E i \in DOMAIN bound : bound[i] = Unbound THEN NoPlan ELSE Proposal(Rewrite(plan, old, new), sure)
      BY <3>1 DEF Instantiate
    <3>6. new = [i \in DOMAIN bound |-> bound[i].header]
      OBVIOUS
    <3>7. (\A i \in DOMAIN bound : bound[i].byName) => sure = 90
      OBVIOUS
    <3> HIDE DEF slots, old, bound, new, sure, plan, policies
    <3>8. bound = [n \in DOMAIN old |-> [header |-> old[n], byName |-> TRUE]]
      BY <3>1, <3>2, <3>3, BoundToItself DEF bound
    <3>9. /\ DOMAIN bound = DOMAIN old
          /\ \A n \in DOMAIN old : bound[n].header = old[n] /\ bound[n].byName = TRUE /\ bound[n] # Unbound
      BY <3>8 DEF Unbound
    <3>10. new = old
      BY <3>4, <3>6, <3>9
    <3>11. sure = 90
      BY <3>7, <3>9
    <3>12. Rewrite(plan, old, old) = Rewrite(plan, <<>>, <<>>)
      BY <3>2, SwappedForItself
    <3> QED
      BY <3>5, <3>9, <3>10, <3>11, <3>12
  <2> QED
    BY <1>3, <2>2, <2>3 DEF Repeats
<1> QED
  BY <1>2, <1>3

----------------------------------------------------------------------------
(* Rules and the router.                                                    *)

(* Of some numbers up to a bound one is the greatest.                       *)
LEMMA GreatestNumber ==
    ASSUME NEW N \in Nat, NEW S, S \subseteq 1..N, S # {}
    PROVE  \E x \in S : \A y \in S : x >= y
<1> DEFINE Left == {k \in 0..N : N - k \in S}
<1>0. \A y \in S : y \in Int /\ 1 <= y /\ y <= N
  <2>1. \A y \in S : y \in 1..N
    OBVIOUS
  <2> QED
    BY <2>1
<1>1. Left \subseteq Nat
  OBVIOUS
<1>2. \A y \in S : N - y \in Left
  <2>1. ASSUME NEW y \in S
        PROVE  N - y \in 0..N /\ N - (N - y) = y
    BY <1>0
  <2> QED
    BY <2>1
<1>3. PICK y \in S : TRUE
  OBVIOUS
<1> HIDE DEF Left
<1>4. PICK k \in Left : \A j \in Left : k <= j
  <2>1. Left # {}
    BY <1>2, <1>3
  <2> QED
    BY <1>1, <2>1, LeastNumber
<1>5. N - k \in S /\ k \in Nat
  BY <1>4 DEF Left
<1>6. ASSUME NEW z \in S
      PROVE  N - k >= z
  <2> DEFINE j == N - z
  <2>1. j \in Left /\ j \in Int /\ z = N - j
    BY <1>0, <1>2
  <2> HIDE DEF j
  <2>2. k <= j
    BY <1>4, <2>1
  <2> QED
    BY <1>5, <2>1, <2>2
<1> QED
  BY <1>5, <1>6

(* The first and the last of some places are among them.                    *)
LEMMA EndsAre ==
    ASSUME NEW N \in Nat, NEW S, S \subseteq 1..N, S # {}
    PROVE  Min(S) \in S /\ Max(S) \in S
<1>1. S \subseteq Nat
  OBVIOUS
<1>2. Min(S) \in S
  BY <1>1, LeastNumber DEF Min
<1>3. Max(S) \in S
  BY GreatestNumber DEF Max
<1> QED
  BY <1>2, <1>3

(* Named operands are words that are headers.                               *)
LEMMA NamedAre ==
    ASSUME NEW words, IsSequence(words), NEW at, NEW headers,
           NEW named, named = NamedOperands(words, at, headers), named # <<>>
    PROVE  ToSet(named) \subseteq headers /\ ToSet(named) \subseteq ToSet(words)
<1> DEFINE left == {i \in At(words, headers) : i < at}
           right == {i \in At(words, headers) : i > at}
           N == Len(words)
<1>1. N \in Nat /\ DOMAIN words = 1..N
  BY SequenceIsList
<1>2. left \subseteq 1..N /\ right \subseteq 1..N
  BY <1>1 DEF At
<1>3. \A i \in left \cup right : i \in DOMAIN words /\ words[i] \in headers
  BY DEF At
<1>4. left # {} /\ right # {} /\ named = <<words[Max(left)], words[Min(right)]>>
  BY DEF NamedOperands
<1> HIDE DEF left, right, N
<1>5. Max(left) \in left /\ Min(right) \in right
  BY <1>1, <1>2, <1>4, EndsAre
<1> DEFINE x == words[Max(left)]
           y == words[Min(right)]
<1>6. x \in headers /\ y \in headers /\ x \in ToSet(words) /\ y \in ToSet(words)
  BY <1>3, <1>5 DEF ToSet
<1>7. named = <<x, y>>
  BY <1>4
<1> HIDE DEF x, y
<1>8. ToSet(named) = {x, y}
  BY <1>7 DEF ToSet
<1> QED
  BY <1>6, <1>8

(* Inferred operands are headers, of an operator that commutes.             *)
LEMMA InferredAre ==
    ASSUME NEW word, NEW table, AreColumns(table), NEW headers,
           NEW chosen, chosen = InferredOperands(word, table, headers), chosen # <<>>
    PROVE  ToSet(chosen) \subseteq headers /\ word \in Commutative
<1> DEFINE numbers == {i \in DOMAIN table :
                        /\ table[i].header \in headers
                        /\ \E j \in DOMAIN table : table[j].header = table[i].header /\ table[j].type = "number"}
           N == Len(table)
<1>1. N \in Nat /\ DOMAIN table = 1..N
  BY SequenceIsList DEF AreColumns
<1>2. numbers \subseteq 1..N
  BY <1>1
<1>3. \A i \in numbers : table[i].header \in headers
  OBVIOUS
<1>4. /\ word \in Commutative /\ Cardinality(numbers) = 2
      /\ chosen = <<table[Min(numbers)].header, table[Max(numbers)].header>>
  BY DEF InferredOperands
<1> HIDE DEF numbers, N
<1>5. numbers # {}
  BY <1>4, FS_EmptySet
<1>6. Min(numbers) \in numbers /\ Max(numbers) \in numbers
  BY <1>1, <1>2, <1>5, EndsAre
<1> DEFINE x == table[Min(numbers)].header
           y == table[Max(numbers)].header
<1>7. x \in headers /\ y \in headers
  BY <1>3, <1>6
<1>8. chosen = <<x, y>>
  BY <1>4
<1> HIDE DEF x, y
<1>9. ToSet(chosen) = {x, y}
  BY <1>8 DEF ToSet
<1> QED
  BY <1>4, <1>7, <1>9

(* The rules read the column they make only when it has no other name.      *)
LEMMA RulesRead ==
    ASSUME NEW ctx, IsSequence(ctx.instruction), AreColumns(ctx.table)
    PROVE  OnlyUnnamedAreReadAgain(ctx)
<1> DEFINE words == ctx.instruction
           headers == Headers(ctx.table)
           output == OutputHeader(words)
           operands == ToSet(headers) \ {output}
           operators == At(words, OperatorWords)
           word == words[Min(operators)]
           named == NamedOperands(words, Min(operators), operands)
           inferred == InferredOperands(word, ctx.table, operands)
           chosen == IF named # <<>> THEN named ELSE inferred
           made == IF output = NoName THEN Unnamed ELSE output
           at == IF Contains(headers, made) THEN made ELSE "nextFree"
           fillable == At(words, ToSet(headers))
           located == Locate("here", headers)
           filled == words[Min(fillable)]
           sure == IF named # <<>> THEN 85 ELSE 55
           proposal == Rules(ctx)
<1>1. \/ proposal = NoPlan
      \/ operators # {} /\ chosen # <<>> /\ proposal = Proposal(<<located, Derived(made, at, word, chosen), Export>>, sure)
      \/ proposal = Proposal(<<located, Filled(filled), Export>>, 80)
  BY DEF Rules
<1>2. chosen # <<>> => /\ ToSet(chosen) \subseteq operands
                       /\ word = "minus" => ToSet(chosen) \subseteq ToSet(words)
  <2> HIDE DEF word, operands
  <2>1. named # <<>> => ToSet(named) \subseteq operands /\ ToSet(named) \subseteq ToSet(words)
    BY NamedAre
  <2>2. inferred # <<>> => ToSet(inferred) \subseteq operands /\ word \in Commutative
    BY InferredAre
  <2>3. "minus" \notin Commutative
    BY DEF Commutative
  <2> HIDE DEF named, inferred
  <2> QED
    BY <2>1, <2>2, <2>3
<1>3. at # "nextFree" => Contains(headers, at)
  OBVIOUS
<1>3a. \A h \in ToSet(headers) : Contains(headers, h)
  BY HeadersAre
<1>3b. made \in operands => output = NoName /\ made = Unnamed /\ at = Unnamed
  BY <1>3a
<1>4. located.do # "create_derived_column" /\ Export.do # "create_derived_column"
      /\ Filled(filled).do # "create_derived_column"
  BY DEF Locate, Export, Filled
<1>5. operands = ToSet(headers) \ {output}
  OBVIOUS
<1>6. OnlyUnnamedAreReadAgain(ctx) = \A i \in DOMAIN proposal.plan :
        proposal.plan[i].do = "create_derived_column" =>
            /\ ToSet(proposal.plan[i].names) \subseteq ToSet(headers)
            /\ proposal.plan[i].header \in ToSet(proposal.plan[i].names) =>
                    output = NoName /\ proposal.plan[i].header = Unnamed /\ proposal.plan[i].at = Unnamed
            /\ proposal.plan[i].fn = "minus" => ToSet(proposal.plan[i].names) \subseteq ToSet(words)
            /\ proposal.plan[i].at # "nextFree" => Contains(headers, proposal.plan[i].at)
  BY DEF OnlyUnnamedAreReadAgain
<1> DEFINE derived == Derived(made, at, word, chosen)
<1>7. derived.names = chosen /\ derived.fn = word /\ derived.at = at /\ derived.header = made
  BY DEF Derived
<1> HIDE DEF proposal, located, at, word, chosen, operands, sure, filled, headers, words, made, output
<1>8. CASE proposal = NoPlan
  <2>1. proposal.plan = <<>>
    BY <1>8 DEF NoPlan
  <2> QED
    BY <1>6, <2>1
<1>9. CASE chosen # <<>> /\ proposal = Proposal(<<located, derived, Export>>, sure)
  <2> HIDE DEF derived
  <2>1. proposal.plan = <<located, derived, Export>>
    BY <1>9 DEF Proposal
  <2>2. ASSUME NEW i \in DOMAIN proposal.plan, proposal.plan[i].do = "create_derived_column"
        PROVE  proposal.plan[i] = derived
    <3>1. i \in 1..3
      BY <2>1
    <3>2. i # 1 /\ i # 3
      BY <1>4, <2>1, <2>2
    <3> QED
      BY <2>1, <3>1, <3>2
  <2>3. /\ ToSet(derived.names) \subseteq ToSet(headers)
        /\ derived.header \in ToSet(derived.names) =>
                output = NoName /\ derived.header = Unnamed /\ derived.at = Unnamed
        /\ derived.fn = "minus" => ToSet(derived.names) \subseteq ToSet(words)
        /\ derived.at # "nextFree" => Contains(headers, derived.at)
    BY <1>2, <1>3, <1>3b, <1>5, <1>7, <1>9
  <2> QED
    BY <1>6, <2>2, <2>3
<1>10. CASE proposal = Proposal(<<located, Filled(filled), Export>>, 80)
  <2> DEFINE fill == Filled(filled)
  <2>1. proposal.plan = <<located, fill, Export>> /\ fill.do # "create_derived_column"
    BY <1>4, <1>10 DEF Proposal
  <2> HIDE DEF fill
  <2>2. ASSUME NEW i \in DOMAIN proposal.plan
        PROVE  proposal.plan[i].do # "create_derived_column"
    <3>1. i = 1 \/ i = 2 \/ i = 3
      BY <2>1
    <3> QED
      BY <1>4, <2>1, <3>1
  <2> QED
    BY <1>6, <2>2
<1> QED
  BY <1>1, <1>8, <1>9, <1>10

(* What a router has counted are numbers.                                   *)
Counts == [fast : Nat, slow : Nat, belowThreshold : Nat, escalated : Nat]

(* One more request is one more call, and sent on when it was refused.      *)
IsRouted(stats, answer, slow, threshold, feedback) ==
    /\ answer.stats \in Counts
    /\ answer.stats.fast + answer.stats.slow = stats.fast + stats.slow + 1
    /\ feedback => answer.stats.escalated = stats.escalated + 1
    /\ ~feedback => answer.stats.escalated = stats.escalated
    /\ stats.belowThreshold <= stats.slow - stats.escalated =>
        answer.stats.belowThreshold <= answer.stats.slow - answer.stats.escalated
    /\ answer.stats.fast > stats.fast => ~feedback /\ answer.plan.confidence >= threshold
    /\ feedback => answer.plan = slow

(* That is what the router does.                                            *)
LEMMA RouteIs ==
    ASSUME NEW fast, NEW slow, NEW threshold, NEW feedback \in BOOLEAN, NEW stats \in Counts
    PROVE  IsRouted(stats, Route(fast, slow, threshold, feedback, stats), slow, threshold, feedback)
<1> DEFINE answer == Route(fast, slow, threshold, feedback, stats)
<1>1. \/ /\ feedback
         /\ answer = [plan |-> slow, stats |-> [stats EXCEPT !.slow = @ + 1, !.escalated = @ + 1]]
      \/ /\ ~feedback /\ fast.confidence >= threshold
         /\ answer = [plan |-> fast, stats |-> [stats EXCEPT !.fast = @ + 1]]
      \/ ~feedback /\ answer = [plan |-> slow, stats |-> [stats EXCEPT !.slow = @ + 1, !.belowThreshold = @ + 1]]
      \/ ~feedback /\ answer = [plan |-> slow, stats |-> [stats EXCEPT !.slow = @ + 1]]
  BY DEF Route
<1> HIDE DEF answer
<1> DEFINE f == stats.fast
           s == stats.slow
           b == stats.belowThreshold
           e == stats.escalated
<1>2. /\ f \in Nat /\ s \in Nat /\ b \in Nat /\ e \in Nat
      /\ stats = [fast |-> f, slow |-> s, belowThreshold |-> b, escalated |-> e]
  BY DEF Counts
<1> HIDE DEF f, s, b, e
<1>3. IsRouted(stats, answer, slow, threshold, feedback)
  <2>3. CASE feedback /\ answer = [plan |-> slow, stats |-> [stats EXCEPT !.slow = @ + 1, !.escalated = @ + 1]]
    <3>1. answer = [plan |-> slow, stats |-> [fast |-> f, slow |-> s + 1, belowThreshold |-> b, escalated |-> e + 1]]
      BY <1>2, <2>3
    <3> QED
      BY <1>2, <2>3, <3>1 DEF IsRouted, Counts, f, s, b, e
  <2>4. CASE /\ ~feedback /\ fast.confidence >= threshold
             /\ answer = [plan |-> fast, stats |-> [stats EXCEPT !.fast = @ + 1]]
    <3>1. answer = [plan |-> fast, stats |-> [fast |-> f + 1, slow |-> s, belowThreshold |-> b, escalated |-> e]]
      BY <1>2, <2>4
    <3> QED
      BY <1>2, <2>4, <3>1 DEF IsRouted, Counts, f, s, b, e
  <2>5. CASE ~feedback /\ answer = [plan |-> slow, stats |-> [stats EXCEPT !.slow = @ + 1, !.belowThreshold = @ + 1]]
    <3>1. answer = [plan |-> slow, stats |-> [fast |-> f, slow |-> s + 1, belowThreshold |-> b + 1, escalated |-> e]]
      BY <1>2, <2>5
    <3> QED
      BY <1>2, <2>5, <3>1 DEF IsRouted, Counts, f, s, b, e
  <2>6. CASE ~feedback /\ answer = [plan |-> slow, stats |-> [stats EXCEPT !.slow = @ + 1]]
    <3>1. answer = [plan |-> slow, stats |-> [fast |-> f, slow |-> s + 1, belowThreshold |-> b, escalated |-> e]]
      BY <1>2, <2>6
    <3> QED
      BY <1>2, <2>6, <3>1 DEF IsRouted, Counts, f, s, b, e
  <2> QED
    BY <1>1, <2>3, <2>4, <2>5, <2>6
<1> QED
  BY <1>3 DEF answer

(* The counts after each request.                                           *)
IsTallied(after, library, said, table, threshold, refused) ==
    /\ after[0] = NoCalls
    /\ \A n \in 1..Len(refused) :
        after[n] = Asked(library, Context(said, table, refused[n]), threshold, after[n - 1]).stats

(* A request that is put to the router is routed.                           *)
LEMMA AskedIs ==
    ASSUME NEW library, NEW said, NEW table, NEW threshold, NEW feedback \in BOOLEAN, NEW stats \in Counts
    PROVE  IsRouted(stats, Asked(library, Context(said, table, feedback), threshold, stats),
                    Rules(Context(said, table, feedback)), threshold, feedback)
<1> DEFINE ctx == Context(said, table, feedback)
           fast == Memo(Policies(library, 1), ctx)
           slow == Rules(ctx)
<1>1. ctx.feedback = feedback
  BY DEF Context
<1> HIDE DEF ctx
<1>2. Asked(library, ctx, threshold, stats) = Route(fast, slow, threshold, feedback, stats)
  BY <1>1 DEF Asked
<1> HIDE DEF fast, slow
<1>3. IsRouted(stats, Route(fast, slow, threshold, feedback, stats), slow, threshold, feedback)
  BY RouteIs
<1>4. IsRouted(stats, Asked(library, ctx, threshold, stats), slow, threshold, feedback)
  BY <1>2, <1>3
<1> QED
  BY <1>4 DEF slow, ctx

(* The counts are made request by request, of numbers.                      *)
LEMMA CountedIs ==
    ASSUME NEW library, NEW said, NEW table, NEW threshold, NEW refused, IsSequence(refused),
           \A n \in DOMAIN refused : refused[n] \in BOOLEAN
    PROVE  \E after : /\ IsTallied(after, library, said, table, threshold, refused)
                      /\ \A n \in 0..Len(refused) : after[n] \in Counts
                      /\ Counted(library, said, table, threshold, refused) = after[Len(refused)]
<1> DEFINE N == Len(refused)
           Counting(n, stats) == Asked(library, Context(said, table, refused[n]), threshold, stats).stats
           g == [x \in Counts \X (1..N) |-> Counting(x[2], x[1])]
           Rec(f) == f = [n \in 0..N |-> IF n = 0 THEN NoCalls ELSE Counting(n, f[n - 1])]
           after == CHOOSE f : Rec(f)
<1>1. N \in Nat /\ DOMAIN refused = 1..N
  BY SequenceIsList
<1>2. ASSUME NEW n \in 1..N, NEW stats \in Counts
      PROVE  Counting(n, stats) \in Counts
  <2> DEFINE feedback == refused[n]
  <2>1. feedback \in BOOLEAN
    BY <1>1
  <2> HIDE DEF feedback
  <2>2. IsRouted(stats, Asked(library, Context(said, table, feedback), threshold, stats),
                 Rules(Context(said, table, feedback)), threshold, feedback)
    BY <2>1, AskedIs
  <2>3. Asked(library, Context(said, table, feedback), threshold, stats).stats \in Counts
    BY <2>2 DEF IsRouted
  <2> QED
    BY <2>3 DEF feedback
<1> HIDE DEF Counting
<1>4. NoCalls \in Counts /\ g \in [Counts \X (1..N) -> Counts]
  BY <1>2 DEF NoCalls, Counts
<1>5. \A f \in [0..N -> Counts] : \A n \in 1..N : g[<<f[n - 1], n>>] = Counting(n, f[n - 1])
  <2>1. ASSUME NEW f \in [0..N -> Counts], NEW n \in 1..N
        PROVE  <<f[n - 1], n>> \in Counts \X (1..N)
    <3>1. n - 1 \in 0..N
      BY <1>1
    <3> QED
      BY <3>1
  <2> QED
    BY <2>1
<1> HIDE DEF g, N
<1>6. PICK f \in [0..N -> Counts] : f[0] = NoCalls /\ \A n \in 1..N : f[n] = g[<<f[n - 1], n>>]
  <2>1. IsRule(g, NoCalls, Counts, N)
    BY <1>1, <1>4 DEF IsRule
  <2>2. \E f : Follows(f, g, NoCalls, Counts, N)
    BY <2>1, Iterates
  <2> QED
    BY <2>2 DEF Follows
<1>7. f = [n \in 0..N |-> IF n = 0 THEN NoCalls ELSE Counting(n, f[n - 1])]
  <2>1. ASSUME NEW n \in 0..N
        PROVE  f[n] = IF n = 0 THEN NoCalls ELSE Counting(n, f[n - 1])
    <3>1. CASE n = 0
      BY <1>6, <3>1
    <3>2. CASE n # 0
      <4>1. n \in 1..N
        BY <1>1, <3>2
      <4> QED
        BY <1>5, <1>6, <3>2, <4>1
    <3> QED
      BY <3>1, <3>2
  <2> QED
    BY <1>6, <2>1
<1>8. Rec(after)
  <2>1. Rec(f)
    BY <1>7
  <2> HIDE DEF Rec
  <2> QED
    BY <2>1
<1>9. Counted(library, said, table, threshold, refused) = after[N]
  BY DEF Counted, N, Counting
<1> HIDE DEF after
<1>10. after[0] = NoCalls /\ \A n \in 1..N : after[n] = Counting(n, after[n - 1])
  <2>1. 0 \in 0..N /\ \A n \in 1..N : n \in 0..N /\ n # 0
    BY <1>1
  <2> QED
    BY <1>8, <2>1
<1> DEFINE Good == {n \in 0..N : after[n] \in Counts}
<1>11. 0..N \subseteq Good
  <2>1. 0 \in Good /\ 0 \in Nat
    BY <1>1, <1>4, <1>10
  <2>2. ASSUME NEW n \in 0..(N - 1), n \in Good
        PROVE  n + 1 \in Good
    <3> DEFINE m == n + 1
    <3>1. m \in 1..N /\ m \in 0..N /\ m - 1 = n
      BY <1>1
    <3> HIDE DEF m
    <3>2. m \in Good
      BY <1>2, <1>10, <2>2, <3>1
    <3> QED
      BY <3>2 DEF m
  <2> HIDE DEF Good
  <2> QED
    BY <1>1, <2>1, <2>2, GoesOn
<1>12. IsTallied(after, library, said, table, threshold, refused)
  BY <1>10 DEF IsTallied, Counting, N
<1> QED
  BY <1>9, <1>11, <1>12 DEF N

(* The router counts what it was asked.                                     *)
LEMMA RouterIs ==
    ASSUME NEW library, NEW said, NEW table, NEW threshold, NEW refused, IsSequence(refused),
           \A n \in DOMAIN refused : refused[n] \in BOOLEAN
    PROVE  RouterCounts(library, said, table, threshold, refused)
<1> DEFINE N == Len(refused)
           S == {n \in 1..N : refused[n]}
<1>1. N \in Nat /\ DOMAIN refused = 1..N
  BY SequenceIsList
<1>2. PICK after : /\ IsTallied(after, library, said, table, threshold, refused)
                   /\ \A n \in 0..N : after[n] \in Counts
                   /\ Counted(library, said, table, threshold, refused) = after[N]
  BY CountedIs
<1>3. \A n \in 1..N : n \in S <=> refused[n]
  OBVIOUS
<1>4. S \subseteq 1..N
  OBVIOUS
<1>5. /\ after[0] = NoCalls
      /\ \A n \in 1..N : after[n] = Asked(library, Context(said, table, refused[n]), threshold, after[n - 1]).stats
  BY <1>2 DEF IsTallied
<1>6. {n \in DOMAIN refused : refused[n]} = S
  BY <1>1
<1> HIDE DEF N, S
<1>7. /\ \A n \in 0..N : RankIn(S, n) \in Nat
      /\ RankIn(S, 0) = 0 /\ RankIn(S, N) = Cardinality(S)
      /\ \A n \in 1..N : n \in S => RankIn(S, n) = RankIn(S, n - 1) + 1
      /\ \A n \in 1..N : n \notin S => RankIn(S, n) = RankIn(S, n - 1)
  BY <1>1, <1>4, RanksCount
<1> DEFINE Right(stats, n) ==
               /\ stats.fast + stats.slow = n
               /\ stats.escalated = RankIn(S, n)
               /\ stats.belowThreshold <= stats.slow - stats.escalated
           Good == {n \in 0..N : Right(after[n], n)}
<1>8. 0..N \subseteq Good
  <2>1. 0 \in Good /\ 0 \in Nat
    BY <1>1, <1>5, <1>7 DEF NoCalls
  <2>2. ASSUME NEW n \in 0..(N - 1), n \in Good
        PROVE  n + 1 \in Good
    <3> DEFINE m == n + 1
               then == after[m]
               stats == after[n]
               feedback == refused[m]
               ctx == Context(said, table, feedback)
               answer == Asked(library, ctx, threshold, stats)
    <3>1. m \in 1..N /\ m \in 0..N /\ n \in 0..N /\ m - 1 = n /\ n \in Int
      BY <1>1
    <3>2. then = answer.stats
      <4> HIDE DEF m
      <4> QED
        BY <1>5, <3>1
    <3>3. stats \in Counts /\ then \in Counts /\ feedback \in BOOLEAN
      <4> HIDE DEF m
      <4> QED
        BY <1>1, <1>2, <3>1
    <3>4. IsRouted(stats, answer, Rules(ctx), threshold, feedback)
      <4> HIDE DEF stats, feedback
      <4> QED
        BY <3>3, AskedIs
    <3>5. /\ feedback => RankIn(S, m) = RankIn(S, n) + 1
          /\ ~feedback => RankIn(S, m) = RankIn(S, n)
      <4> HIDE DEF m
      <4> QED
        BY <1>3, <1>7, <3>1
    <3>6. Right(stats, n)
      BY <2>2
    <3>7. RankIn(S, n) \in Nat /\ m = n + 1
      BY <1>7, <3>1
    <3> HIDE DEF stats, feedback, ctx, answer, then, m
    <3>8. Right(then, m)
      BY <3>1, <3>2, <3>3, <3>4, <3>5, <3>6, <3>7 DEF IsRouted, Counts
    <3>9. m \in Good
      BY <3>1, <3>8 DEF then
    <3> QED
      BY <3>9 DEF m
  <2> HIDE DEF Good
  <2> QED
    BY <1>1, <2>1, <2>2, GoesOn
<1> DEFINE last == Counted(library, said, table, threshold, refused)
<1>9. last \in Counts /\ Right(last, N)
  <2>1. N \in 0..N
    BY <1>1
  <2>2. last = after[N]
    BY <1>2
  <2> HIDE DEF last, Right
  <2> QED
    BY <1>2, <1>8, <2>1, <2>2
<1> HIDE DEF last
<1>10. IsCounted(last, refused)
  BY <1>6, <1>7, <1>9 DEF IsCounted, N
<1>11. ASSUME NEW feedback \in BOOLEAN
       PROVE  IsAnswered(last, threshold, feedback,
                         Asked(library, Context(said, table, feedback), threshold, last))
  <2> DEFINE ctx == Context(said, table, feedback)
             answer == Asked(library, ctx, threshold, last)
             slow == Rules(ctx)
  <2>1. IsRouted(last, answer, slow, threshold, feedback)
    BY <1>9, AskedIs
  <2>2. feedback => slow = NoPlan
    <3>1. ctx.feedback = feedback
      BY DEF Context
    <3> HIDE DEF ctx
    <3> QED
      BY <3>1 DEF Rules
  <2> HIDE DEF answer, slow
  <2>3. IsAnswered(last, threshold, feedback, answer)
    BY <2>1, <2>2 DEF IsRouted, IsAnswered
  <2> QED
    BY <2>3 DEF answer
<1> QED
  BY <1>10, <1>11 DEF RouterCounts, last

----------------------------------------------------------------------------
(* Ledgers.                                                                 *)

----------------------------------------------------------------------------
(* Ledgers that are kept.                                                   *)

IsNamed == "of" \in DOMAIN trial

(* The table of routines stays one. *)
LEMMA StoreStaysStore ==
    ASSUME NEW st, "of" \in DOMAIN st, st.of = "store", NEW m \in T!AfterStatement(st)
    PROVE  "of" \in DOMAIN m /\ m.of = "store"
<1>1. CASE m \in T!Begin(st)
  BY <1>1 DEF T!Begin
<1>2. CASE m \in T!Look(st)
  BY <1>2 DEF T!Look
<1>3. CASE m \in T!Write(st)
  BY <1>3 DEF T!Write
<1>4. CASE m \in T!Select(st)
  BY <1>4 DEF T!Select
<1>5. CASE m \in T!Delete(st)
  BY <1>5 DEF T!Delete
<1>6. CASE m \in T!Proceed(st)
  BY <1>6 DEF T!Proceed
<1>7. CASE m \in T!Feedback(st)
  <2>1. PICK id \in DOMAIN st.rows, verdict \in T!Verdicts : m = T!Answered(st, id, verdict)
    BY <1>7 DEF T!Feedback
  <2> QED
    BY <2>1 DEF T!Answered
<1> QED
  BY <1>1, <1>2, <1>3, <1>4, <1>5, <1>6, <1>7 DEF T!AfterStatement

(* A page stays a page. *)
LEMMA PageStaysPage ==
    ASSUME NEW page, "of" \in DOMAIN page, page.of = "page", NEW m \in K!AfterEvent(page)
    PROVE  "of" \in DOMAIN m /\ m.of = "page"
<1>1. PICK now \in Readings, draws \in K!Draws \X K!Draws : m = K!Recorded(page, now, draws)
  BY DEF K!AfterEvent
<1> QED
  BY <1>1 DEF K!Recorded

(* A step of a ledger leaves a trial that says what it is of, and only a    *)
(* limiter that was asked or is new becomes a limiter; so it is with the    *)
(* table of routines and the page.                                          *)
LEMMA LedgersStayApart ==
    ASSUME IsNamed, LedgerStep
    PROVE  /\ IsNamed'
           /\ trial'.of = "limiter" => OpenLimiter \/ AskLimiter
           /\ trial'.of = "store" => OpenStore \/ UseStore
           /\ trial'.of = "page" => OpenPage \/ RecordEvent
           /\ trial'.of \in {"limiter", "store", "page"}
<1>1. CASE OpenStore
  <2>1. trial' = T!NewStore
    BY <1>1 DEF OpenStore
  <2> QED
    BY <1>1, <2>1 DEF T!NewStore, IsNamed
<1>2. CASE UseStore
  <2>1. "of" \in DOMAIN trial /\ trial.of = "store" /\ trial' \in T!AfterStatement(trial)
    BY <1>2 DEF UseStore, IsNamed
  <2>2. "of" \in DOMAIN trial' /\ trial'.of = "store"
    BY <2>1, StoreStaysStore
  <2> QED
    BY <1>2, <2>2 DEF IsNamed
<1>3. CASE OpenLimiter
  <2>1. trial' = B!NewLimiter
    BY <1>3 DEF OpenLimiter
  <2> QED
    BY <1>3, <2>1 DEF B!NewLimiter, IsNamed
<1>4. CASE AskLimiter
  <2>1. trial.of = "limiter" /\ trial' \in B!AfterRequest(trial)
    BY <1>4 DEF AskLimiter
  <2>2. PICK c \in Callers, now \in 0..MaxTick : trial' \in B!Allow(trial, c, now)
    BY <2>1 DEF B!AfterRequest
  <2>3. "of" \in DOMAIN trial' /\ trial'.of = "limiter"
    BY <2>1, <2>2 DEF B!Allow, IsNamed
  <2> QED
    BY <1>4, <2>3 DEF IsNamed
<1>5. CASE OpenPage
  <2>1. trial' \in K!NewPages
    BY <1>5 DEF OpenPage
  <2>2. "of" \in DOMAIN trial' /\ trial'.of = "page"
    BY <2>1 DEF K!NewPages
  <2> QED
    BY <1>5, <2>2 DEF IsNamed
<1>6. CASE RecordEvent
  <2>1. "of" \in DOMAIN trial /\ trial.of = "page" /\ trial' \in K!AfterEvent(trial)
    BY <1>6 DEF RecordEvent, IsNamed
  <2>2. "of" \in DOMAIN trial' /\ trial'.of = "page"
    BY <2>1, PageStaysPage
  <2> QED
    BY <1>6, <2>2 DEF IsNamed
<1> QED
  BY <1>1, <1>2, <1>3, <1>4, <1>5, <1>6 DEF LedgerStep

----------------------------------------------------------------------------
(* The limiter.                                                             *)

(* Sets are counted alike in every module. *)
LEMMA CountsAgree ==
    \A S : B!Cardinality(S) = Cardinality(S)
BY DEF B!Cardinality, Cardinality

(* What is multiplied by a sum. *)
LEMMA Distributes ==
    ASSUME NEW k \in Nat, NEW a \in Nat, NEW b \in Nat
    PROVE  k * (a + b) = k * a + k * b /\ k * a \in Nat /\ k * b \in Nat
OBVIOUS

(* The time between two readings. *)
LEMMA LaterType ==
    ASSUME NEW a \in Nat, NEW b \in Nat
    PROVE  B!Later(a, b) \in Nat /\ (a <= b => B!Later(a, b) = b - a)
BY DEF B!Later

(* What the configuration says of a limiter. *)
LEMMA LimiterConstants ==
    Capacity \in Nat /\ Cost \in 1..Capacity /\ Cost \in Nat /\ Refill \in Nat /\ MaxKeys \in Nat
BY LimiterAssumption

IsBucket(b) == b.tokens \in 0..Capacity /\ b.last \in Nat

(* A bucket holds no more than its capacity, and no more than came in.      *)
LEMMA RefilledType ==
    ASSUME NEW b, IsBucket(b), NEW now \in Nat
    PROVE  /\ B!Refilled(b, now) \in 0..Capacity
           /\ Refill * B!Later(b.last, now) \in Nat
           /\ B!Refilled(b, now) <= b.tokens + Refill * B!Later(b.last, now)
           /\ Refill * B!Later(b.last, now) >= Cost => B!Refilled(b, now) >= Cost
<1> DEFINE more == Refill * B!Later(b.last, now)
<1>1. more \in Nat
  <2>1. B!Later(b.last, now) \in Nat
    BY LaterType DEF IsBucket
  <2> QED
    BY <2>1, Distributes, LimiterConstants
<1>2. B!Refilled(b, now) = IF b.tokens + more < Capacity THEN b.tokens + more ELSE Capacity
  BY DEF B!Refilled
<1> HIDE DEF more
<1>3. /\ B!Refilled(b, now) \in 0..Capacity /\ B!Refilled(b, now) <= b.tokens + more
      /\ more >= Cost => B!Refilled(b, now) >= Cost
  BY <1>1, <1>2, LimiterConstants DEF IsBucket
<1> QED
  BY <1>1, <1>3 DEF more

IsTable(buckets) ==
    /\ DOMAIN buckets \subseteq Callers /\ IsFiniteSet(DOMAIN buckets)
    /\ \A c \in DOMAIN buckets : IsBucket(buckets[c])

(* What eviction leaves: buckets that were there, no more than the bound;   *)
(* and where it gave up one in debt, that many others in debt, none of them *)
(* older.                                                                   *)
LEMMA EvictionKeeps ==
    ASSUME NEW asked, IsTable(asked), NEW now \in Nat, NEW buckets \in B!Evicted(asked, now)
    PROVE  /\ IsTable(buckets) /\ DOMAIN buckets \subseteq DOMAIN asked
           /\ \A c \in DOMAIN buckets : buckets[c] = asked[c]
           /\ Cardinality(DOMAIN buckets) <= MaxKeys
           /\ \A c \in DOMAIN asked \ DOMAIN buckets : B!IsIndebted(asked, c, now) =>
                /\ Cardinality(DOMAIN asked) > MaxKeys
                /\ Cardinality(DOMAIN buckets) = MaxKeys
                /\ \A d \in DOMAIN buckets :
                    B!IsIndebted(buckets, d, now) /\ buckets[d].last >= asked[c].last
<1> DEFINE D == DOMAIN asked
           kept == B!Indebted(asked, now)
           excess == Cardinality(kept) - MaxKeys
<1>1. IsFiniteSet(D) /\ Cardinality(D) \in Nat
  BY FS_CardinalityType DEF IsTable
<1>2. kept \subseteq D /\ \A c \in D : c \in kept <=> B!IsIndebted(asked, c, now)
  BY DEF B!Indebted
<1>3. IsFiniteSet(kept) /\ Cardinality(kept) \in Nat
  BY <1>1, <1>2, FS_Subset, FS_CardinalityType
<1>4. MaxKeys \in Nat
  BY LimiterConstants
<1>5. \A c \in D : asked[c].last \in Nat
  BY DEF IsTable, IsBucket
<1>6. \/ buckets = asked /\ Cardinality(D) <= MaxKeys
      \/ Cardinality(D) > MaxKeys /\ excess <= 0 /\ buckets = B!Restrict(asked, kept)
      \/ Cardinality(D) > MaxKeys /\ excess > 0
         /\ \E gone \in B!kSubset(excess, kept) :
                /\ \A c \in gone, d \in kept \ gone : asked[c].last <= asked[d].last
                /\ buckets = B!Restrict(asked, kept \ gone)
  <2> DEFINE Oldest(S) == \A c \in S, d \in kept \ S : asked[c].last <= asked[d].last
             parts == {B!Restrict(asked, kept \ gone) : gone \in {S \in B!kSubset(excess, kept) : Oldest(S)}}
  <2>1. B!Evicted(asked, now) =
            IF Cardinality(D) <= MaxKeys THEN {asked}
            ELSE IF excess <= 0 THEN {B!Restrict(asked, kept)} ELSE parts
    BY CountsAgree DEF B!Evicted
  <2>2. buckets \in parts => \E gone \in B!kSubset(excess, kept) :
                                Oldest(gone) /\ buckets = B!Restrict(asked, kept \ gone)
    OBVIOUS
  <2>3. excess \in Int
    BY <1>3, <1>4
  <2> HIDE DEF D, kept, excess, parts
  <2>4. \/ buckets = asked /\ Cardinality(D) <= MaxKeys
        \/ Cardinality(D) > MaxKeys /\ excess <= 0 /\ buckets = B!Restrict(asked, kept)
        \/ Cardinality(D) > MaxKeys /\ excess > 0 /\ buckets \in parts
    BY <1>1, <1>4, <2>1, <2>3
  <2> QED
    BY <2>2, <2>4
<1>7. \A S \in SUBSET D : IsFiniteSet(S)
  BY <1>1, FS_Subset
<1>8. ASSUME NEW S \in SUBSET D, buckets = B!Restrict(asked, S)
      PROVE  /\ DOMAIN buckets = S /\ \A c \in S : buckets[c] = asked[c]
             /\ IsTable(buckets)
             /\ \A c \in S : B!IsIndebted(buckets, c, now) <=> B!IsIndebted(asked, c, now)
  <2>1. DOMAIN buckets = S /\ \A c \in S : buckets[c] = asked[c]
    BY <1>8 DEF B!Restrict
  <2>2. IsFiniteSet(S)
    BY <1>7
  <2> QED
    BY <2>1, <2>2 DEF IsTable, B!IsIndebted
<1> HIDE DEF D, kept, excess
<1>9. CASE buckets = asked /\ Cardinality(D) <= MaxKeys
  BY <1>9 DEF D
<1>10. CASE Cardinality(D) > MaxKeys /\ excess <= 0 /\ buckets = B!Restrict(asked, kept)
  <2>1. DOMAIN buckets = kept /\ IsTable(buckets) /\ \A c \in kept : buckets[c] = asked[c]
    BY <1>2, <1>8, <1>10
  <2>2. Cardinality(kept) <= MaxKeys
    BY <1>3, <1>4, <1>10 DEF excess
  <2> QED
    BY <1>2, <2>1, <2>2 DEF D
<1>11. ASSUME Cardinality(D) > MaxKeys, excess > 0, NEW gone \in B!kSubset(excess, kept),
              \A c \in gone, d \in kept \ gone : asked[c].last <= asked[d].last,
              buckets = B!Restrict(asked, kept \ gone)
       PROVE  /\ IsTable(buckets) /\ DOMAIN buckets \subseteq D
              /\ \A c \in DOMAIN buckets : buckets[c] = asked[c]
              /\ Cardinality(DOMAIN buckets) = MaxKeys
              /\ \A c \in D \ DOMAIN buckets : B!IsIndebted(asked, c, now) =>
                    \A d \in DOMAIN buckets :
                        B!IsIndebted(buckets, d, now) /\ buckets[d].last >= asked[c].last
  <2> DEFINE left == kept \ gone
  <2>1. gone \subseteq kept /\ Cardinality(gone) = excess
    BY <1>11, CountsAgree DEF B!kSubset
  <2>2. left \subseteq D
    BY <1>2
  <2>3. /\ DOMAIN buckets = left /\ IsTable(buckets) /\ \A c \in left : buckets[c] = asked[c]
        /\ \A c \in left : B!IsIndebted(buckets, c, now) <=> B!IsIndebted(asked, c, now)
    BY <1>8, <1>11, <2>2
  <2>4. Cardinality(left) = Cardinality(kept) - Cardinality(gone)
    <3>1. kept \intersect gone = gone
      BY <2>1
    <3> QED
      BY <1>3, <3>1, FS_Difference
  <2>5. Cardinality(left) = MaxKeys
    BY <1>3, <1>4, <2>1, <2>4 DEF excess
  <2>6. ASSUME NEW c \in D \ left, B!IsIndebted(asked, c, now), NEW d \in left
        PROVE  B!IsIndebted(buckets, d, now) /\ buckets[d].last >= asked[c].last
    <3>1. c \in gone /\ d \in kept /\ d \in D
      BY <1>2, <2>2, <2>6
    <3>2. asked[c].last <= asked[d].last
      BY <1>11, <3>1, <2>6
    <3> QED
      BY <1>2, <1>5, <2>3, <2>6, <3>1, <3>2
  <2> HIDE DEF left
  <2> QED
    BY <2>2, <2>3, <2>5, <2>6
<1>12. CASE Cardinality(D) > MaxKeys /\ excess > 0
            /\ \E gone \in B!kSubset(excess, kept) :
                    /\ \A c \in gone, d \in kept \ gone : asked[c].last <= asked[d].last
                    /\ buckets = B!Restrict(asked, kept \ gone)
  <2>1. PICK gone \in B!kSubset(excess, kept) :
                /\ \A c \in gone, d \in kept \ gone : asked[c].last <= asked[d].last
                /\ buckets = B!Restrict(asked, kept \ gone)
    BY <1>12
  <2>2. /\ IsTable(buckets) /\ DOMAIN buckets \subseteq D
        /\ \A c \in DOMAIN buckets : buckets[c] = asked[c]
        /\ Cardinality(DOMAIN buckets) = MaxKeys
        /\ \A c \in D \ DOMAIN buckets : B!IsIndebted(asked, c, now) =>
                \A d \in DOMAIN buckets :
                    B!IsIndebted(buckets, d, now) /\ buckets[d].last >= asked[c].last
    BY <1>11, <1>12, <2>1
  <2>3. Cardinality(DOMAIN buckets) <= MaxKeys
    BY <1>4, <2>2
  <2>4. Cardinality(DOMAIN asked) > MaxKeys
    BY <1>12 DEF D
  <2> QED
    BY <2>2, <2>3, <2>4 DEF D
<1> QED
  BY <1>6, <1>9, <1>10, <1>12

LimiterFields == {"of", "buckets", "asked", "now", "orderly", "requests", "passed", "refused",
                  "waited", "seen", "hurried", "waived"}

(* The reading a caller was last seen at, if it was. *)
Sightings == {<<>>} \union {<<n>> : n \in Nat}

(* A limiter, field by field. *)
IsLimiter(l) ==
    /\ DOMAIN l = LimiterFields /\ l.of = "limiter"
    /\ IsTable(l.buckets) /\ IsTable(l.asked)
    /\ l.now \in Nat /\ l.orderly \in BOOLEAN
    /\ l.passed \in [Callers -> Nat] /\ l.refused \in [Callers -> Nat]
    /\ l.waited \in [Callers -> Nat] /\ l.waived \in [Callers -> Nat]
    /\ l.seen \in [Callers -> Sightings]

(* What a request of a caller finds in its bucket, and the table with what  *)
(* it leaves there.                                                         *)
Held(l, c, now) == IF c \in DOMAIN l.buckets THEN B!Refilled(l.buckets[c], now) ELSE Capacity

Left(l, c, now) == IF Held(l, c, now) >= Cost THEN Held(l, c, now) - Cost ELSE Held(l, c, now)

AskedFor(l, c, now) == B!Put(l.buckets, c, [tokens |-> Left(l, c, now), last |-> now])

(* A request, field by field; those lost are evicted with it. *)
Request(l, c, now, m, lost) ==
    /\ m.now = now
    /\ m.orderly = (l.orderly /\ l.now <= now)
    /\ m.seen = [l.seen EXCEPT ![c] = <<now>>]
    /\ m.passed = [l.passed EXCEPT ![c] = @ + IF Held(l, c, now) >= Cost THEN 1 ELSE 0]
    /\ m.refused = [l.refused EXCEPT ![c] = @ + IF Held(l, c, now) >= Cost THEN 0 ELSE 1]
    /\ m.waited = [d \in Callers |-> l.waited[d]
                        + (IF d = c THEN B!Elapsed(l.buckets, c, now) ELSE 0)
                        + (IF d \in lost THEN B!Elapsed(AskedFor(l, c, now), d, now) ELSE 0)]
    /\ m.hurried = IF l.seen[c] # <<>> /\ Refill * B!Later(l.seen[c][1], now) < Cost
                   THEN l.hurried \union {c} ELSE l.hurried
    /\ m.waived = [d \in Callers |-> l.waived[d]
                        + IF d \in lost THEN B!Debt(AskedFor(l, c, now), d, now) ELSE 0]

(* That is what the limiter does. *)
LEMMA AllowIsRequest ==
    ASSUME NEW l, IsLimiter(l), NEW c \in Callers, NEW now \in Nat, NEW m \in B!Allow(l, c, now)
    PROVE  /\ m.asked = AskedFor(l, c, now) /\ m.buckets \in B!Evicted(m.asked, now)
           /\ Request(l, c, now, m, DOMAIN m.asked \ DOMAIN m.buckets)
           /\ DOMAIN m = LimiterFields /\ m.of = "limiter"
<1> DEFINE A == AskedFor(l, c, now)
           held == Held(l, c, now)
           new(b) == [l EXCEPT !.buckets = b, !.asked = A, !.now = now, !.requests = @ + 1,
                      !.seen[c] = <<now>>, !.orderly = @ /\ l.now <= now,
                      !.passed[c] = @ + (IF held >= Cost THEN 1 ELSE 0),
                      !.refused[c] = @ + (IF held >= Cost THEN 0 ELSE 1),
                      !.waited = [d \in Callers |-> @[d]
                                    + (IF d = c THEN B!Elapsed(l.buckets, c, now) ELSE 0)
                                    + (IF d \in DOMAIN A \ DOMAIN b THEN B!Elapsed(A, d, now) ELSE 0)],
                      !.hurried = IF l.seen[c] # <<>> /\ Refill * B!Later(l.seen[c][1], now) < Cost
                                  THEN @ \union {c} ELSE @,
                      !.waived = [d \in Callers |-> @[d]
                                    + IF d \in DOMAIN A \ DOMAIN b THEN B!Debt(A, d, now) ELSE 0]]
<1>1. m \in {new(b) : b \in B!Evicted(A, now)}
  BY DEF B!Allow, AskedFor, Left, Held
<1> HIDE DEF A, new
<1>2. PICK b \in B!Evicted(A, now) : m = new(b)
  BY <1>1
<1>3. DOMAIN m = LimiterFields
  BY <1>2 DEF new, IsLimiter
<1>4. m.of = "limiter" /\ m.buckets = b /\ m.asked = A /\ m.now = now
  BY <1>2 DEF new, IsLimiter, LimiterFields
<1>5. m.orderly = (l.orderly /\ l.now <= now)
  BY <1>2 DEF new, IsLimiter, LimiterFields
<1>6. /\ m.seen = [l.seen EXCEPT ![c] = <<now>>]
      /\ m.passed = [l.passed EXCEPT ![c] = @ + IF held >= Cost THEN 1 ELSE 0]
      /\ m.refused = [l.refused EXCEPT ![c] = @ + IF held >= Cost THEN 0 ELSE 1]
  BY <1>2 DEF new, IsLimiter, LimiterFields
<1>7. m.waited = [d \in Callers |-> l.waited[d]
                    + (IF d = c THEN B!Elapsed(l.buckets, c, now) ELSE 0)
                    + (IF d \in DOMAIN A \ DOMAIN b THEN B!Elapsed(A, d, now) ELSE 0)]
  BY <1>2 DEF new, IsLimiter, LimiterFields
<1>8. m.waived = [d \in Callers |-> l.waived[d]
                    + IF d \in DOMAIN A \ DOMAIN b THEN B!Debt(A, d, now) ELSE 0]
  BY <1>2 DEF new, IsLimiter, LimiterFields
<1>9. m.hurried = IF l.seen[c] # <<>> /\ Refill * B!Later(l.seen[c][1], now) < Cost
                  THEN l.hurried \union {c} ELSE l.hurried
  BY <1>2 DEF new, IsLimiter, LimiterFields
<1>10. Request(l, c, now, m, DOMAIN A \ DOMAIN b)
  BY <1>4, <1>5, <1>6, <1>7, <1>8, <1>9 DEF Request, A
<1> QED
  BY <1>3, <1>4, <1>10 DEF A

(* The callers that have asked for something. *)
Known(l) == {d \in Callers : l.seen[d] # <<>>}

(* What a caller may spend at once. *)
Credit(buckets, d) == IF d \in DOMAIN buckets THEN buckets[d].tokens ELSE Capacity

(* What a caller was granted and may still spend is paid for. *)
IsPaid(passed, credit, waited, waived) ==
    Cost * passed + credit <= Capacity + Refill * waited + waived

(* Of the time that has gone by, only what the clock has shown counts.      *)
IsTimely(buckets, waited, now) ==
    \A d \in Callers : IF d \in DOMAIN buckets
                       THEN waited[d] <= buckets[d].last /\ buckets[d].last <= now
                       ELSE waited[d] <= now

(* A bucket in debt is given up only for others in debt, none of them older. *)
GivesUpTheOldest(l) ==
    \A c \in DOMAIN l.asked \ DOMAIN l.buckets : B!IsIndebted(l.asked, c, l.now) =>
        /\ Cardinality(DOMAIN l.buckets) = MaxKeys
        /\ \A d \in DOMAIN l.buckets :
            B!IsIndebted(l.buckets, d, l.now) /\ l.buckets[d].last >= l.asked[c].last

IsFair(l) ==
    /\ IsFiniteSet(Known(l)) /\ DOMAIN l.buckets \subseteq Known(l)
    /\ \A d \in DOMAIN l.buckets : l.seen[d] = <<l.buckets[d].last>>
    /\ Cardinality(DOMAIN l.buckets) <= MaxKeys
    /\ \A d \in Callers : IsPaid(l.passed[d], Credit(l.buckets, d), l.waited[d], l.waived[d])
    /\ l.orderly => IsTimely(l.buckets, l.waited, l.now)
    /\ \A d \in Callers : d \notin l.hurried => l.refused[d] = 0
    /\ \A d \in Callers : l.waived[d] > 0 => Cardinality(Known(l)) > MaxKeys
    /\ GivesUpTheOldest(l)

(* What a request finds, and the table it leaves. *)
LEMMA AskedIsTable ==
    ASSUME NEW l, IsLimiter(l), NEW c \in Callers, NEW now \in Nat
    PROVE  /\ Held(l, c, now) \in 0..Capacity /\ Left(l, c, now) \in 0..Capacity
           /\ DOMAIN AskedFor(l, c, now) = DOMAIN l.buckets \union {c}
           /\ \A d \in DOMAIN AskedFor(l, c, now) \ {c} : AskedFor(l, c, now)[d] = l.buckets[d]
           /\ AskedFor(l, c, now)[c].tokens = Left(l, c, now) /\ AskedFor(l, c, now)[c].last = now
           /\ IsTable(AskedFor(l, c, now))
<1> DEFINE A == AskedFor(l, c, now)
<1>1. Held(l, c, now) \in 0..Capacity
  BY RefilledType, LimiterConstants DEF Held, IsLimiter, IsTable
<1>2. Left(l, c, now) \in 0..Capacity
  BY <1>1, LimiterConstants DEF Left
<1>3. /\ DOMAIN A = DOMAIN l.buckets \union {c}
      /\ \A d \in DOMAIN A \ {c} : A[d] = l.buckets[d]
      /\ A[c] = [tokens |-> Left(l, c, now), last |-> now]
  BY DEF AskedFor, B!Put
<1>4. A[c].tokens = Left(l, c, now) /\ A[c].last = now
  BY <1>3
<1>5. IsFiniteSet(DOMAIN l.buckets \union {c})
  BY FS_AddElement DEF IsLimiter, IsTable
<1> HIDE DEF A
<1>6. IsTable(A)
  BY <1>2, <1>3, <1>4, <1>5 DEF IsLimiter, IsTable, IsBucket
<1> QED
  BY <1>1, <1>2, <1>3, <1>4, <1>6 DEF A

(* A request is paid for, before anything is evicted. *)
LEMMA RequestIsPaid ==
    ASSUME NEW l, IsLimiter(l), IsFair(l), NEW c \in Callers, NEW now \in Nat,
           NEW p, p = (IF Held(l, c, now) >= Cost THEN l.passed[c] + 1 ELSE l.passed[c])
    PROVE  /\ B!Elapsed(l.buckets, c, now) \in Nat
           /\ IsPaid(p, Left(l, c, now), l.waited[c] + B!Elapsed(l.buckets, c, now), l.waived[c])
<1> DEFINE e == B!Elapsed(l.buckets, c, now)
           h == Held(l, c, now)
           q == l.passed[c]
           w == l.waited[c]
           v == l.waived[c]
           t == Credit(l.buckets, c)
           re == Refill * e
           rw == Refill * w
           cq == Cost * q
<1>1. q \in Nat /\ w \in Nat /\ v \in Nat
  BY DEF IsLimiter
<1>2. e \in Nat
  BY LaterType DEF B!Elapsed, IsLimiter, IsTable, IsBucket
<1>3. t \in 0..Capacity
  BY LimiterConstants DEF Credit, IsLimiter, IsTable, IsBucket
<1>4. h \in 0..Capacity
  BY AskedIsTable
<1>5. re \in Nat /\ rw \in Nat /\ Refill * (w + e) = rw + re
  BY <1>1, <1>2, LimiterConstants, Distributes
<1>6. h <= t + re
  <2>1. CASE c \in DOMAIN l.buckets
    <3>1. B!Refilled(l.buckets[c], now) <= l.buckets[c].tokens + Refill * B!Later(l.buckets[c].last, now)
      BY <2>1, RefilledType DEF IsLimiter, IsTable
    <3> QED
      BY <2>1, <3>1 DEF Held, Credit, B!Elapsed
  <2>2. CASE c \notin DOMAIN l.buckets
    <3>1. h = Capacity /\ t = Capacity
      BY <2>2 DEF Held, Credit
    <3> HIDE DEF h, t, re
    <3> QED
      BY <3>1, <1>5, LimiterConstants
  <2> QED
    BY <2>1, <2>2
<1>7. cq \in Nat /\ Cost * (q + 1) = cq + Cost
  BY <1>1, LimiterConstants, Distributes
<1>8. cq + t <= Capacity + rw + v
  BY DEF IsFair, IsPaid
<1> HIDE DEF e, h, q, w, v, t, re, rw, cq
<1>9. CASE h >= Cost
  <2>1. p = q + 1 /\ Left(l, c, now) = h - Cost
    BY <1>9 DEF h, q, Left
  <2>2. cq + Cost + (h - Cost) <= Capacity + (rw + re) + v
    BY <1>1, <1>3, <1>4, <1>5, <1>6, <1>7, <1>8, LimiterConstants
  <2>3. IsPaid(p, Left(l, c, now), w + e, v)
    BY <1>5, <1>7, <2>1, <2>2 DEF IsPaid
  <2> QED
    BY <1>2, <2>3 DEF e, w, v
<1>10. CASE ~(h >= Cost)
  <2>1. p = q /\ Left(l, c, now) = h
    BY <1>10 DEF h, q, Left
  <2>2. cq + h <= Capacity + (rw + re) + v
    BY <1>1, <1>3, <1>4, <1>5, <1>6, <1>7, <1>8, LimiterConstants
  <2>3. IsPaid(p, Left(l, c, now), w + e, v)
    BY <1>5, <2>1, <2>2 DEF IsPaid, cq
  <2> QED
    BY <1>2, <2>3 DEF e, w, v
<1> QED
  BY <1>9, <1>10

(* What is let off at an eviction pays for the full bucket that may follow. *)
LEMMA EvictionIsPaid ==
    ASSUME NEW asked, NEW d \in DOMAIN asked, IsBucket(asked[d]), NEW now \in Nat,
           NEW p \in Nat, NEW w \in Nat, NEW v \in Nat, IsPaid(p, asked[d].tokens, w, v)
    PROVE  /\ B!Elapsed(asked, d, now) \in Nat /\ B!Debt(asked, d, now) \in Nat
           /\ IsPaid(p, Capacity, w + B!Elapsed(asked, d, now), v + B!Debt(asked, d, now))
           /\ B!Debt(asked, d, now) > 0 => B!IsIndebted(asked, d, now)
<1> DEFINE e == B!Elapsed(asked, d, now)
           full == B!Refilled(asked[d], now)
           t == asked[d].tokens
           re == Refill * e
           rw == Refill * w
           cp == Cost * p
<1>1. e \in Nat /\ e = B!Later(asked[d].last, now)
  BY LaterType DEF B!Elapsed, IsBucket
<1>2. full \in 0..Capacity /\ full <= t + re /\ t \in 0..Capacity
  BY <1>1, RefilledType DEF IsBucket
<1>3. re \in Nat /\ rw \in Nat /\ Refill * (w + e) = rw + re /\ cp \in Nat
  BY <1>1, LimiterConstants, Distributes
<1>4. cp + t <= Capacity + rw + v
  BY DEF IsPaid
<1>5. B!Debt(asked, d, now) = Capacity - full
  BY DEF B!Debt
<1>6. B!IsIndebted(asked, d, now) <=> full < Capacity
  BY DEF B!IsIndebted
<1> HIDE DEF e, full, t, re, rw, cp
<1>7. cp + Capacity <= Capacity + (rw + re) + (v + (Capacity - full))
  BY <1>2, <1>3, <1>4, LimiterConstants
<1>8. IsPaid(p, Capacity, w + e, v + (Capacity - full))
  BY <1>3, <1>7 DEF IsPaid, cp
<1> QED
  BY <1>1, <1>2, <1>5, <1>6, <1>8, LimiterConstants DEF e

(* A request, with the table it leaves before and after the eviction. *)
IsAsked(l, c, now, m) ==
    /\ IsLimiter(l) /\ IsFair(l) /\ c \in Callers /\ now \in Nat
    /\ m.asked = AskedFor(l, c, now) /\ m.buckets \in B!Evicted(m.asked, now)
    /\ Request(l, c, now, m, DOMAIN m.asked \ DOMAIN m.buckets)

(* What has been waited for before the eviction. *)
WaitedFor(l, c, now, d) == l.waited[d] + IF d = c THEN B!Elapsed(l.buckets, c, now) ELSE 0

(* The tables of a request.                                                 *)
LEMMA TablesOfARequest ==
    ASSUME NEW l, NEW c, NEW now, NEW m, IsAsked(l, c, now, m)
    PROVE  /\ IsTable(m.asked) /\ IsTable(m.buckets)
           /\ DOMAIN m.asked = DOMAIN l.buckets \union {c} /\ DOMAIN m.buckets \subseteq DOMAIN m.asked
           /\ m.asked[c].tokens = Left(l, c, now) /\ m.asked[c].last = now
           /\ \A d \in DOMAIN m.asked \ {c} : m.asked[d] = l.buckets[d]
           /\ \A d \in DOMAIN m.buckets : m.buckets[d] = m.asked[d]
           /\ Cardinality(DOMAIN m.buckets) <= MaxKeys
           /\ GivesUpTheOldest(m)
           /\ \A d \in DOMAIN m.asked \ DOMAIN m.buckets :
                B!IsIndebted(m.asked, d, now) => Cardinality(DOMAIN m.asked) > MaxKeys
<1>1. IsLimiter(l) /\ c \in Callers /\ now \in Nat /\ m.asked = AskedFor(l, c, now) /\ m.now = now
      /\ m.buckets \in B!Evicted(m.asked, now)
  <2>1. Request(l, c, now, m, DOMAIN m.asked \ DOMAIN m.buckets)
    BY DEF IsAsked
  <2>2. m.now = now
    BY <2>1 DEF Request
  <2> QED
    BY <2>2 DEF IsAsked
<1>2. IsTable(m.asked)
  <2>1. IsTable(AskedFor(l, c, now))
    BY <1>1, AskedIsTable
  <2> QED
    BY <1>1, <2>1
<1>3. /\ IsTable(m.buckets) /\ DOMAIN m.buckets \subseteq DOMAIN m.asked
      /\ \A d \in DOMAIN m.buckets : m.buckets[d] = m.asked[d]
      /\ Cardinality(DOMAIN m.buckets) <= MaxKeys
      /\ \A d \in DOMAIN m.asked \ DOMAIN m.buckets : B!IsIndebted(m.asked, d, now) =>
            /\ Cardinality(DOMAIN m.asked) > MaxKeys
            /\ Cardinality(DOMAIN m.buckets) = MaxKeys
            /\ \A e \in DOMAIN m.buckets :
                B!IsIndebted(m.buckets, e, now) /\ m.buckets[e].last >= m.asked[d].last
  BY <1>1, <1>2, EvictionKeeps
<1>4. GivesUpTheOldest(m)
  BY <1>1, <1>3 DEF GivesUpTheOldest
<1>5. /\ DOMAIN m.asked = DOMAIN l.buckets \union {c}
      /\ m.asked[c].tokens = Left(l, c, now) /\ m.asked[c].last = now
      /\ \A d \in DOMAIN m.asked \ {c} : m.asked[d] = l.buckets[d]
  BY <1>1, AskedIsTable
<1> QED
  BY <1>2, <1>3, <1>4, <1>5

(* The counters of a request. *)
LEMMA CountersOfARequest ==
    ASSUME NEW l, NEW c, NEW now, NEW m, IsAsked(l, c, now, m)
    PROVE  /\ m.passed \in [Callers -> Nat] /\ m.refused \in [Callers -> Nat]
           /\ m.passed[c] = IF Held(l, c, now) >= Cost THEN l.passed[c] + 1 ELSE l.passed[c]
           /\ Held(l, c, now) >= Cost => m.refused[c] = l.refused[c]
           /\ \A d \in Callers \ {c} : m.passed[d] = l.passed[d] /\ m.refused[d] = l.refused[d]
           /\ m.seen \in [Callers -> Sightings]
           /\ m.seen[c] = <<now>> /\ \A d \in Callers \ {c} : m.seen[d] = l.seen[d]
<1>1. IsLimiter(l) /\ c \in Callers /\ now \in Nat
  BY DEF IsAsked
<1> DEFINE yes == Held(l, c, now) >= Cost
           f == IF yes THEN 1 ELSE 0
           g == IF yes THEN 0 ELSE 1
<1>2. m.passed = [l.passed EXCEPT ![c] = @ + f] /\ m.refused = [l.refused EXCEPT ![c] = @ + g]
  BY DEF IsAsked, Request
<1>3. /\ f \in Nat /\ g \in Nat /\ (yes => f = 1 /\ g = 0) /\ (~yes => f = 0 /\ g = 1)
  OBVIOUS
<1>4. l.passed \in [Callers -> Nat] /\ l.refused \in [Callers -> Nat]
  BY <1>1 DEF IsLimiter
<1> HIDE DEF f, g
<1>5. m.passed \in [Callers -> Nat] /\ m.passed[c] = l.passed[c] + f
      /\ \A d \in Callers \ {c} : m.passed[d] = l.passed[d]
  BY <1>1, <1>2, <1>3, <1>4
<1>6. m.refused \in [Callers -> Nat] /\ m.refused[c] = l.refused[c] + g
      /\ \A d \in Callers \ {c} : m.refused[d] = l.refused[d]
  BY <1>1, <1>2, <1>3, <1>4
<1>7. l.passed[c] \in Nat /\ l.refused[c] \in Nat
  BY <1>1, <1>4
<1>8. m.seen = [l.seen EXCEPT ![c] = <<now>>]
  BY DEF IsAsked, Request
<1>9. /\ m.seen \in [Callers -> Sightings]
      /\ m.seen[c] = <<now>> /\ \A d \in Callers \ {c} : m.seen[d] = l.seen[d]
  <2> DEFINE reading == <<now>>
  <2>1. reading \in Sightings /\ l.seen \in [Callers -> Sightings]
    BY <1>1 DEF IsLimiter, Sightings
  <2>2. m.seen = [l.seen EXCEPT ![c] = reading]
    BY <1>8
  <2> HIDE DEF reading
  <2>3. m.seen \in [Callers -> Sightings] /\ m.seen[c] = reading
        /\ \A d \in Callers \ {c} : m.seen[d] = l.seen[d]
    BY <1>1, <2>1, <2>2
  <2> QED
    BY <2>3 DEF reading
<1> QED
  BY <1>3, <1>5, <1>6, <1>7, <1>9

(* Everyone's requests are paid for, before and after the eviction. *)
LEMMA AllIsPaid ==
    ASSUME NEW l, NEW c, NEW now, NEW m, IsAsked(l, c, now, m), NEW d \in Callers
    PROVE  /\ m.waited[d] \in Nat /\ m.waived[d] \in Nat
           /\ IsPaid(m.passed[d], Credit(m.buckets, d), m.waited[d], m.waived[d])
           /\ WaitedFor(l, c, now, d) \in Nat
           /\ IF d \in DOMAIN m.asked \ DOMAIN m.buckets
              THEN m.waited[d] = WaitedFor(l, c, now, d) + B!Elapsed(m.asked, d, now)
              ELSE m.waited[d] = WaitedFor(l, c, now, d)
           /\ m.waived[d] > 0 => l.waived[d] > 0
                    \/ (d \in DOMAIN m.asked \ DOMAIN m.buckets /\ B!IsIndebted(m.asked, d, now))
<1> DEFINE w == WaitedFor(l, c, now, d)
           v == l.waived[d]
           p == m.passed[d]
           e == B!Elapsed(m.asked, d, now)
           x == B!Debt(m.asked, d, now)
<1>1. IsLimiter(l) /\ IsFair(l) /\ c \in Callers /\ now \in Nat /\ m.asked = AskedFor(l, c, now)
  BY DEF IsAsked
<1>2. /\ m.waited[d] = w + IF d \in DOMAIN m.asked \ DOMAIN m.buckets THEN e ELSE 0
      /\ m.waived[d] = v + IF d \in DOMAIN m.asked \ DOMAIN m.buckets THEN x ELSE 0
  BY DEF IsAsked, Request, WaitedFor
<1>3. p \in Nat /\ v \in Nat /\ l.waited[d] \in Nat
  BY <1>1, CountersOfARequest DEF IsLimiter
<1>4. w \in Nat /\ IsPaid(p, Credit(m.asked, d), w, v)
  <2>1. CASE d = c
    <3>1. /\ B!Elapsed(l.buckets, c, now) \in Nat
          /\ IsPaid(p, Left(l, c, now), l.waited[c] + B!Elapsed(l.buckets, c, now), l.waived[c])
      BY <1>1, <2>1, RequestIsPaid, CountersOfARequest
    <3>2. w = l.waited[c] + B!Elapsed(l.buckets, c, now)
      BY <2>1 DEF WaitedFor
    <3>3. Credit(m.asked, d) = Left(l, c, now)
      BY <2>1, TablesOfARequest DEF Credit
    <3> HIDE DEF w
    <3> QED
      BY <1>3, <2>1, <3>1, <3>2, <3>3
  <2>2. CASE d # c
    <3>1. w = l.waited[d]
      BY <1>3, <2>2 DEF WaitedFor
    <3>2. Credit(m.asked, d) = Credit(l.buckets, d)
      BY <2>2, TablesOfARequest DEF Credit
    <3>3. p = l.passed[d]
      BY <2>2, CountersOfARequest
    <3>4. IsPaid(l.passed[d], Credit(l.buckets, d), l.waited[d], l.waived[d])
      BY <1>1 DEF IsFair
    <3> HIDE DEF w, p
    <3> QED
      BY <1>3, <3>1, <3>2, <3>3, <3>4
  <2> QED
    BY <2>1, <2>2
<1> HIDE DEF w, v, p, e, x
<1>5. CASE d \in DOMAIN m.asked \ DOMAIN m.buckets
  <2>1. IsBucket(m.asked[d])
    BY <1>5, TablesOfARequest DEF IsTable
  <2>2. IsPaid(p, m.asked[d].tokens, w, v)
    BY <1>4, <1>5 DEF Credit
  <2>3. /\ e \in Nat /\ x \in Nat /\ IsPaid(p, Capacity, w + e, v + x)
        /\ x > 0 => B!IsIndebted(m.asked, d, now)
    BY <1>1, <1>3, <1>4, <1>5, <2>1, <2>2, EvictionIsPaid DEF e, x
  <2>4. Credit(m.buckets, d) = Capacity
    BY <1>5 DEF Credit
  <2>5. m.waited[d] = w + e /\ m.waived[d] = v + x
    BY <1>2, <1>5
  <2>6. m.waived[d] > 0 => v > 0 \/ x > 0
    BY <1>3, <2>3, <2>5
  <2> QED
    BY <1>3, <1>4, <1>5, <2>3, <2>4, <2>5, <2>6 DEF w, v, p, e
<1>6. CASE d \notin DOMAIN m.asked \ DOMAIN m.buckets
  <2>1. m.waited[d] = w /\ m.waived[d] = v
    BY <1>2, <1>3, <1>4, <1>6
  <2>2. Credit(m.buckets, d) = Credit(m.asked, d)
    BY <1>6, TablesOfARequest DEF Credit
  <2> QED
    BY <1>3, <1>4, <1>6, <2>1, <2>2 DEF w, v, p
<1> QED
  BY <1>5, <1>6

(* Those known, after a request. *)
LEMMA KnownAfterARequest ==
    ASSUME NEW l, NEW c, NEW now, NEW m, IsAsked(l, c, now, m)
    PROVE  /\ Known(m) = Known(l) \union {c} /\ IsFiniteSet(Known(m))
           /\ DOMAIN m.asked \subseteq Known(m)
           /\ Cardinality(Known(m)) \in Nat
           /\ Cardinality(DOMAIN m.asked) \in Nat /\ Cardinality(DOMAIN m.asked) <= Cardinality(Known(m))
           /\ Cardinality(Known(l)) \in Nat /\ Cardinality(Known(l)) <= Cardinality(Known(m))
           /\ \A d \in DOMAIN m.asked : m.seen[d] = <<m.asked[d].last>>
<1>1. IsLimiter(l) /\ IsFair(l) /\ c \in Callers
  BY DEF IsAsked
<1>2. m.seen[c] = <<now>> /\ \A d \in Callers \ {c} : m.seen[d] = l.seen[d]
  BY CountersOfARequest
<1>3. m.seen[c] # <<>>
  BY <1>2
<1>4. Known(m) = Known(l) \union {c}
  BY <1>1, <1>2, <1>3 DEF Known
<1>5. IsFiniteSet(Known(l)) /\ DOMAIN l.buckets \subseteq Known(l)
  BY <1>1 DEF IsFair
<1>6. IsFiniteSet(Known(m))
  BY <1>4, <1>5, FS_AddElement
<1>7. /\ DOMAIN m.asked = DOMAIN l.buckets \union {c} /\ m.asked[c].last = now
      /\ \A d \in DOMAIN m.asked \ {c} : m.asked[d] = l.buckets[d]
  BY TablesOfARequest
<1>8. DOMAIN m.asked \subseteq Known(m) /\ Known(l) \subseteq Known(m)
  BY <1>4, <1>5, <1>7
<1>9. /\ Cardinality(Known(m)) \in Nat
      /\ Cardinality(DOMAIN m.asked) \in Nat /\ Cardinality(DOMAIN m.asked) <= Cardinality(Known(m))
      /\ Cardinality(Known(l)) \in Nat /\ Cardinality(Known(l)) <= Cardinality(Known(m))
  BY <1>6, <1>8, FS_Subset, FS_CardinalityType
<1>10. ASSUME NEW d \in DOMAIN m.asked
       PROVE  m.seen[d] = <<m.asked[d].last>>
  <2>1. CASE d = c
    BY <1>2, <1>7, <2>1
  <2>2. CASE d # c
    <3>1. d \in DOMAIN l.buckets /\ m.asked[d] = l.buckets[d] /\ d \in Callers
      BY <1>1, <1>7, <2>2 DEF IsLimiter, IsTable
    <3>2. l.seen[d] = <<l.buckets[d].last>>
      BY <1>1, <3>1 DEF IsFair
    <3>3. m.seen[d] = l.seen[d]
      BY <1>2, <2>2, <3>1
    <3> QED
      BY <3>1, <3>2, <3>3
  <2> QED
    BY <2>1, <2>2
<1> QED
  BY <1>4, <1>6, <1>8, <1>9, <1>10

(* Who leaves time for a request is not refused. *)
LEMMA NoneIsRefused ==
    ASSUME NEW l, NEW c, NEW now, NEW m, IsAsked(l, c, now, m), NEW d \in Callers, d \notin m.hurried
    PROVE  m.refused[d] = 0
<1> DEFINE soon == l.seen[c] # <<>> /\ Refill * B!Later(l.seen[c][1], now) < Cost
<1>1. IsLimiter(l) /\ IsFair(l) /\ c \in Callers /\ now \in Nat
  BY DEF IsAsked
<1>2. m.hurried = IF soon THEN l.hurried \union {c} ELSE l.hurried
  BY DEF IsAsked, Request
<1>3. d \notin l.hurried /\ (d = c => ~soon)
  BY <1>2
<1>4. l.refused[d] = 0
  BY <1>1, <1>3 DEF IsFair
<1>5. CASE d # c
  BY <1>4, <1>5, CountersOfARequest
<1>6. CASE d = c
  <2>1. Held(l, c, now) >= Cost
    <3>1. CASE c \in DOMAIN l.buckets
      <4> DEFINE last == l.buckets[c].last
                 more == Refill * B!Later(last, now)
      <4>1. l.seen[c] = <<last>> /\ IsBucket(l.buckets[c])
        BY <1>1, <3>1 DEF IsFair, IsLimiter, IsTable
      <4>2. l.seen[c] # <<>> /\ l.seen[c][1] = last
        BY <4>1
      <4>3. ~(more < Cost)
        BY <1>3, <1>6, <4>2
      <4>4. more \in Nat /\ (more >= Cost => B!Refilled(l.buckets[c], now) >= Cost)
        BY <1>1, <4>1, RefilledType
      <4>5. Held(l, c, now) = B!Refilled(l.buckets[c], now)
        BY <3>1 DEF Held
      <4> HIDE DEF more
      <4> QED
        BY <4>3, <4>4, <4>5, LimiterConstants
    <3>2. CASE c \notin DOMAIN l.buckets
      BY <3>2, LimiterConstants DEF Held
    <3> QED
      BY <3>1, <3>2
  <2> QED
    BY <1>4, <1>6, <2>1, CountersOfARequest
<1> QED
  BY <1>5, <1>6

(* No one has waited longer than the clock says, if no request is overtaken. *)
LEMMA RequestIsTimely ==
    ASSUME NEW l, NEW c, NEW now, NEW m, IsAsked(l, c, now, m), m.orderly
    PROVE  IsTimely(m.buckets, m.waited, now)
<1>1. IsLimiter(l) /\ IsFair(l) /\ c \in Callers /\ now \in Nat
  BY DEF IsAsked
<1>2. l.orderly /\ l.now <= now
  BY DEF IsAsked, Request
<1>3. IsTimely(l.buckets, l.waited, l.now) /\ l.now \in Nat
  BY <1>1, <1>2 DEF IsFair, IsLimiter
<1>4. ASSUME NEW d \in Callers
      PROVE  IF d \in DOMAIN m.asked
             THEN WaitedFor(l, c, now, d) <= m.asked[d].last /\ m.asked[d].last <= now
                  /\ m.asked[d].last \in Nat
             ELSE WaitedFor(l, c, now, d) <= now
  <2>1. /\ l.waited[d] \in Nat
        /\ d \in DOMAIN l.buckets => l.buckets[d].last \in Nat
    BY <1>1 DEF IsLimiter, IsTable, IsBucket
  <2>2. IF d \in DOMAIN l.buckets
        THEN l.waited[d] <= l.buckets[d].last /\ l.buckets[d].last <= l.now
        ELSE l.waited[d] <= l.now
    BY <1>3 DEF IsTimely
  <2>3. CASE d = c
    <3>1. d \in DOMAIN m.asked /\ m.asked[d].last = now
      BY <2>3, TablesOfARequest
    <3>2. WaitedFor(l, c, now, d) = l.waited[d] + B!Elapsed(l.buckets, c, now)
      BY <2>3 DEF WaitedFor
    <3>3. CASE c \in DOMAIN l.buckets
      <4>1. B!Elapsed(l.buckets, c, now) = B!Later(l.buckets[c].last, now)
        BY <3>3 DEF B!Elapsed
      <4>2. l.buckets[c].last \in Nat /\ l.buckets[c].last <= now
        BY <1>1, <1>2, <1>3, <2>1, <2>2, <2>3, <3>3
      <4>3. B!Elapsed(l.buckets, c, now) = now - l.buckets[c].last
        BY <1>1, <4>1, <4>2, LaterType
      <4> QED
        BY <1>1, <1>2, <1>3, <2>1, <2>2, <2>3, <3>1, <3>2, <3>3, <4>2, <4>3
    <3>4. CASE c \notin DOMAIN l.buckets
      <4>1. B!Elapsed(l.buckets, c, now) = 0
        BY <3>4 DEF B!Elapsed
      <4> QED
        BY <1>1, <1>2, <1>3, <2>1, <2>2, <2>3, <3>1, <3>2, <3>4, <4>1
    <3> QED
      BY <3>3, <3>4
  <2>4. CASE d # c
    <3>1. /\ d \in DOMAIN m.asked <=> d \in DOMAIN l.buckets
          /\ d \in DOMAIN m.asked => m.asked[d] = l.buckets[d]
      BY <2>4, TablesOfARequest
    <3>2. WaitedFor(l, c, now, d) = l.waited[d]
      BY <2>1, <2>4 DEF WaitedFor
    <3> QED
      BY <1>1, <1>2, <1>3, <2>1, <2>2, <3>1, <3>2
  <2> QED
    BY <2>3, <2>4
<1>5. ASSUME NEW d \in Callers
      PROVE  IF d \in DOMAIN m.buckets
             THEN m.waited[d] <= m.buckets[d].last /\ m.buckets[d].last <= now
             ELSE m.waited[d] <= now
  <2>1. IF d \in DOMAIN m.asked \ DOMAIN m.buckets
        THEN m.waited[d] = WaitedFor(l, c, now, d) + B!Elapsed(m.asked, d, now)
        ELSE m.waited[d] = WaitedFor(l, c, now, d)
    BY AllIsPaid
  <2>2. DOMAIN m.buckets \subseteq DOMAIN m.asked
        /\ \A e \in DOMAIN m.buckets : m.buckets[e] = m.asked[e]
    BY TablesOfARequest
  <2>3. CASE d \in DOMAIN m.buckets
    BY <1>4, <2>1, <2>2, <2>3
  <2>4. CASE d \in DOMAIN m.asked \ DOMAIN m.buckets
    <3>1. B!Elapsed(m.asked, d, now) = B!Later(m.asked[d].last, now)
      BY <2>4 DEF B!Elapsed
    <3>2. B!Elapsed(m.asked, d, now) = now - m.asked[d].last
      BY <1>1, <1>4, <2>4, <3>1, LaterType
    <3>3. WaitedFor(l, c, now, d) \in Nat
      BY AllIsPaid
    <3> QED
      BY <1>1, <1>4, <2>1, <2>4, <3>2, <3>3
  <2>5. CASE d \notin DOMAIN m.asked
    BY <1>4, <2>1, <2>2, <2>5
  <2> QED
    BY <2>2, <2>3, <2>4, <2>5
<1> QED
  BY <1>5 DEF IsTimely

(* A limiter stays one, and stays fair. *)
LEMMA RequestStaysFair ==
    ASSUME NEW l, NEW c, NEW now, NEW m, IsAsked(l, c, now, m),
           DOMAIN m = LimiterFields, m.of = "limiter"
    PROVE  IsLimiter(m) /\ IsFair(m)
<1>1. IsLimiter(l) /\ IsFair(l) /\ c \in Callers /\ now \in Nat /\ m.now = now
      /\ m.orderly = (l.orderly /\ l.now <= now)
  BY DEF IsAsked, Request
<1>2. m.orderly \in BOOLEAN
  BY <1>1
<1>3. m.waited \in [Callers -> Nat] /\ m.waived \in [Callers -> Nat]
  <2>1. \A d \in Callers : m.waited[d] \in Nat /\ m.waived[d] \in Nat
    BY AllIsPaid
  <2>2. /\ m.waited = [d \in Callers |-> m.waited[d]]
        /\ m.waived = [d \in Callers |-> m.waived[d]]
    BY DEF IsAsked, Request
  <2> QED
    BY <2>1, <2>2
<1>4. IsLimiter(m)
  BY <1>1, <1>2, <1>3, TablesOfARequest, CountersOfARequest DEF IsLimiter
<1>5. /\ DOMAIN m.buckets \subseteq DOMAIN m.asked
      /\ \A d \in DOMAIN m.buckets : m.buckets[d] = m.asked[d]
      /\ Cardinality(DOMAIN m.buckets) <= MaxKeys /\ GivesUpTheOldest(m)
      /\ \A d \in DOMAIN m.asked \ DOMAIN m.buckets :
            B!IsIndebted(m.asked, d, now) => Cardinality(DOMAIN m.asked) > MaxKeys
  BY TablesOfARequest
<1>6. /\ IsFiniteSet(Known(m)) /\ DOMAIN m.asked \subseteq Known(m)
      /\ Cardinality(Known(m)) \in Nat
      /\ Cardinality(DOMAIN m.asked) \in Nat /\ Cardinality(DOMAIN m.asked) <= Cardinality(Known(m))
      /\ Cardinality(Known(l)) \in Nat /\ Cardinality(Known(l)) <= Cardinality(Known(m))
      /\ \A d \in DOMAIN m.asked : m.seen[d] = <<m.asked[d].last>>
  BY KnownAfterARequest
<1>7. DOMAIN m.buckets \subseteq Known(m) /\ \A d \in DOMAIN m.buckets : m.seen[d] = <<m.buckets[d].last>>
  BY <1>5, <1>6
<1>8. \A d \in Callers : IsPaid(m.passed[d], Credit(m.buckets, d), m.waited[d], m.waived[d])
  BY AllIsPaid
<1>9. m.orderly => IsTimely(m.buckets, m.waited, m.now)
  BY <1>1, RequestIsTimely
<1>10. \A d \in Callers : d \notin m.hurried => m.refused[d] = 0
  BY NoneIsRefused
<1>11. ASSUME NEW d \in Callers, m.waived[d] > 0
       PROVE  Cardinality(Known(m)) > MaxKeys
  <2>1. l.waived[d] > 0 \/ (d \in DOMAIN m.asked \ DOMAIN m.buckets /\ B!IsIndebted(m.asked, d, now))
    BY <1>11, AllIsPaid
  <2>2. CASE l.waived[d] > 0
    <3>1. Cardinality(Known(l)) > MaxKeys
      BY <1>1, <2>2 DEF IsFair
    <3> QED
      BY <1>6, <3>1, LimiterConstants
  <2>3. CASE d \in DOMAIN m.asked \ DOMAIN m.buckets /\ B!IsIndebted(m.asked, d, now)
    BY <1>5, <1>6, <2>3, LimiterConstants
  <2> QED
    BY <2>1, <2>2, <2>3
<1> QED
  BY <1>4, <1>5, <1>6, <1>7, <1>8, <1>9, <1>10, <1>11 DEF IsFair

(* A limiter begins fair. *)
LEMMA NewIsFair == IsLimiter(B!NewLimiter) /\ IsFair(B!NewLimiter)
<1> DEFINE l == B!NewLimiter
<1>1. /\ DOMAIN l = LimiterFields /\ l.of = "limiter" /\ l.buckets = <<>> /\ l.asked = <<>>
      /\ l.now = 0 /\ l.orderly = TRUE
  BY DEF B!NewLimiter, LimiterFields
<1>2. /\ l.passed = [c \in Callers |-> 0] /\ l.refused = [c \in Callers |-> 0]
      /\ l.waited = [c \in Callers |-> 0] /\ l.waived = [c \in Callers |-> 0]
      /\ l.seen = [c \in Callers |-> <<>>] /\ l.hurried = {}
  BY DEF B!NewLimiter
<1> HIDE DEF l
<1>3. DOMAIN l.buckets = {} /\ DOMAIN l.asked = {}
  BY <1>1
<1>4. IsFiniteSet({}) /\ Cardinality({}) = 0
  BY FS_EmptySet
<1>5. IsLimiter(l)
  <2>1. IsTable(l.buckets) /\ IsTable(l.asked)
    BY <1>3, <1>4 DEF IsTable
  <2>2. /\ l.passed \in [Callers -> Nat] /\ l.refused \in [Callers -> Nat]
        /\ l.waited \in [Callers -> Nat] /\ l.waived \in [Callers -> Nat]
    BY <1>2
  <2>3. l.seen \in [Callers -> Sightings]
    <3> DEFINE none == <<>>
    <3>1. none \in Sightings /\ l.seen = [c \in Callers |-> none]
      BY <1>2 DEF Sightings
    <3> HIDE DEF none
    <3>2. l.seen \in [Callers -> Sightings]
      BY <3>1
    <3> QED
      BY <3>2
  <2>4. DOMAIN l = LimiterFields /\ l.of = "limiter" /\ l.orderly \in BOOLEAN
    BY <1>1
  <2>5. l.now \in Nat
    BY <1>1
  <2> QED
    BY <2>1, <2>2, <2>3, <2>4, <2>5 DEF IsLimiter
<1>6. Known(l) = {}
  BY <1>2 DEF Known
<1>7. \A d \in Callers : IsPaid(l.passed[d], Credit(l.buckets, d), l.waited[d], l.waived[d])
  <2>1. IsPaid(0, Capacity, 0, 0)
    <3>1. Cost * 0 = 0 /\ Refill * 0 = 0
      BY LimiterConstants
    <3> QED
      BY <3>1, LimiterConstants DEF IsPaid
  <2> QED
    BY <1>2, <1>3, <2>1 DEF Credit
<1>8. IsTimely(l.buckets, l.waited, l.now)
  BY <1>1, <1>2, <1>3 DEF IsTimely
<1>9. Cardinality(DOMAIN l.buckets) <= MaxKeys
  BY <1>3, <1>4, LimiterConstants
<1>10. GivesUpTheOldest(l)
  BY <1>3 DEF GivesUpTheOldest
<1>11. \A d \in Callers : l.refused[d] = 0 /\ ~(l.waived[d] > 0)
  BY <1>2
<1>12. IsFair(l)
  BY <1>3, <1>4, <1>6, <1>7, <1>8, <1>9, <1>10, <1>11 DEF IsFair
<1> QED
  BY <1>5, <1>12 DEF l

(* Whenever there is a limiter, it is a fair one. *)
LimiterIsFair == trial.of = "limiter" => IsLimiter(trial) /\ IsFair(trial)

(* A step of a ledger keeps it fair. *)
LEMMA LimiterStaysFair ==
    ASSUME IsNamed, LimiterIsFair, LedgerStep
    PROVE  LimiterIsFair'
<1> SUFFICES ASSUME trial'.of = "limiter" PROVE IsLimiter(trial') /\ IsFair(trial')
  BY DEF LimiterIsFair
<1>1. OpenLimiter \/ AskLimiter
  BY LedgersStayApart
<1>2. CASE OpenLimiter
  BY <1>2, NewIsFair DEF OpenLimiter
<1>3. CASE AskLimiter
  <2>1. IsLimiter(trial) /\ IsFair(trial)
    BY <1>3 DEF AskLimiter, LimiterIsFair
  <2>2. PICK c \in Callers, now \in 0..MaxTick : trial' \in B!Allow(trial, c, now)
    BY <1>3 DEF AskLimiter, B!AfterRequest
  <2>3. now \in Nat
    OBVIOUS
  <2>4. /\ trial'.asked = AskedFor(trial, c, now) /\ trial'.buckets \in B!Evicted(trial'.asked, now)
        /\ Request(trial, c, now, trial', DOMAIN trial'.asked \ DOMAIN trial'.buckets)
        /\ DOMAIN trial' = LimiterFields /\ trial'.of = "limiter"
    BY <2>1, <2>2, <2>3, AllowIsRequest
  <2>5. IsAsked(trial, c, now, trial')
    BY <2>1, <2>3, <2>4 DEF IsAsked
  <2> QED
    BY <2>4, <2>5, RequestStaysFair
<1> QED
  BY <1>1, <1>2, <1>3

(* A fair limiter is what LimitsHold asks for. *)
LEMMA FairLimiterHolds ==
    ASSUME LimiterIsFair
    PROVE  LimitsHold
<1> SUFFICES ASSUME trial.of = "limiter" PROVE LimitsHold
  BY DEF LimitsHold, Trying
<1>1. IsLimiter(trial) /\ IsFair(trial)
  BY DEF LimiterIsFair
<1>2. Cardinality(DOMAIN trial.buckets) <= MaxKeys
  BY <1>1 DEF IsFair
<1>3. ASSUME NEW c \in Callers
      PROVE  /\ Cost * trial.passed[c] <= Capacity + Refill * trial.waited[c] + trial.waived[c]
             /\ trial.orderly => trial.waited[c] <= trial.now
             /\ c \notin trial.hurried => trial.refused[c] = 0
             /\ trial.waived[c] > 0 => Cardinality({d \in Callers : trial.seen[d] # <<>>}) > MaxKeys
  <2> DEFINE cp == Cost * trial.passed[c]
             rw == Refill * trial.waited[c]
             t == Credit(trial.buckets, c)
             v == trial.waived[c]
  <2>1. cp \in Nat /\ rw \in Nat /\ v \in Nat
    <3>1. trial.passed[c] \in Nat /\ trial.waited[c] \in Nat /\ trial.waived[c] \in Nat
      BY <1>1 DEF IsLimiter
    <3> QED
      BY <3>1, LimiterConstants, Distributes
  <2>2. t \in Nat
    BY <1>1, LimiterConstants DEF Credit, IsLimiter, IsTable, IsBucket
  <2>3. cp + t <= Capacity + rw + v
    BY <1>1 DEF IsFair, IsPaid
  <2>4. cp <= Capacity + rw + v
    <3> HIDE DEF cp, rw, t, v
    <3> QED
      BY <2>1, <2>2, <2>3, LimiterConstants
  <2>5. trial.orderly => trial.waited[c] <= trial.now
    <3>1. /\ trial.waited[c] \in Nat /\ trial.now \in Nat
          /\ c \in DOMAIN trial.buckets => trial.buckets[c].last \in Nat
      BY <1>1 DEF IsLimiter, IsTable, IsBucket
    <3>2. ASSUME trial.orderly
          PROVE  IF c \in DOMAIN trial.buckets
                 THEN trial.waited[c] <= trial.buckets[c].last /\ trial.buckets[c].last <= trial.now
                 ELSE trial.waited[c] <= trial.now
      BY <1>1, <3>2 DEF IsFair, IsTimely
    <3> QED
      BY <3>1, <3>2
  <2>6. /\ c \notin trial.hurried => trial.refused[c] = 0
        /\ trial.waived[c] > 0 => Cardinality(Known(trial)) > MaxKeys
    BY <1>1 DEF IsFair
  <2> QED
    BY <2>4, <2>5, <2>6 DEF Known
<1>4. \A c \in DOMAIN trial.asked \ DOMAIN trial.buckets :
        B!IsIndebted(trial.asked, c, trial.now) =>
            /\ Cardinality(DOMAIN trial.buckets) = MaxKeys
            /\ \A d \in DOMAIN trial.buckets :
                B!IsIndebted(trial.buckets, d, trial.now) /\ trial.buckets[d].last >= trial.asked[c].last
  BY <1>1 DEF IsFair, GivesUpTheOldest
<1> QED
  BY <1>2, <1>3, <1>4 DEF LimitsHold, Trying

----------------------------------------------------------------------------
(* The table of routines.                                                   *)

StoreFields == {"of", "rows", "run", "answers", "late", "mined", "failed", "nights"}
RunFields == {"groups", "group", "next", "phase", "seen", "stale"}
RowFields == {"actor", "workbook", "status"}

IsRow(row) == DOMAIN row = RowFields /\ row.status \in {"proposed"} \union T!Verdicts

(* The routine the miner is at. *)
IdAt(st) == T!Group(st).ids[st.run.next]

(* A table of routines, and where the miner is with it: what it has looked  *)
(* up is still so when it writes.                                           *)
IsStore(st) ==
    /\ DOMAIN st = StoreFields /\ st.of = "store" /\ DOMAIN st.run = RunFields
    /\ \A id \in DOMAIN st.rows : IsRow(st.rows[id])

IsRunning(st) ==
    /\ st.run.phase \in {"idle", "look", "write", "delete"}
    /\ st.run.phase # "idle" => /\ st.run.groups \in Nights /\ st.run.group \in DOMAIN st.run.groups
                                /\ st.run.next \in 1..(Len(T!Group(st).ids) + 1)
                                /\ st.mined = <<>>
    /\ st.run.phase = "write" => /\ st.run.next <= Len(T!Group(st).ids)
                                 /\ st.run.seen = "none" <=> ~T!Owns(st, T!Group(st).actor, IdAt(st))
                                 /\ st.run.seen \in T!Verdicts => st.rows[IdAt(st)].status \in T!Verdicts
    /\ st.run.phase = "delete" => st.run.next = Len(T!Group(st).ids) + 1
    /\ st.run.phase # "delete" => st.run.stale = {}

(* Answers stand, but for those that came late.                             *)
AreAnswered(st) ==
    /\ \A id \in DOMAIN st.answers \ st.late : id \in DOMAIN st.rows /\ st.rows[id].status = st.answers[id]
    /\ \A id \in DOMAIN st.answers : st.answers[id] \in T!Verdicts
    /\ \A id \in DOMAIN st.rows : st.rows[id].status # "proposed" => id \in DOMAIN st.answers
    /\ \A id \in st.run.stale : id \in DOMAIN st.answers => id \in st.late

(* Every row was found by a run of its actor. *)
IsMinedOf(actor, id) == \E night \in Nights : \E g \in ToSet(night) : g.actor = actor /\ id \in T!Ids(g)

Shared ==
    \E night, other \in Nights : \E g \in ToSet(night), h \in ToSet(other) :
        g.actor # h.actor /\ T!Ids(g) \intersect T!Ids(h) # {}

AreSourced(st) ==
    /\ \A id \in DOMAIN st.rows : IsMinedOf(st.rows[id].actor, id)
    /\ st.failed => Shared

(* What a run has written so far, group by group. *)
IsUpserted(run, k, i) ==
    /\ k \in DOMAIN run.groups /\ i \in DOMAIN run.groups[k].ids
    /\ k < run.group \/ (k = run.group /\ i < run.next)

Finds(run, actor, workbook, id) ==
    \E k \in DOMAIN run.groups : \E i \in DOMAIN run.groups[k].ids :
        /\ IsUpserted(run, k, i) /\ run.groups[k].ids[i] = id
        /\ run.groups[k].actor = actor /\ run.groups[k].workbook = workbook

IsProposed(st, actor, workbook, id) ==
    T!Owns(st, actor, id) /\ st.rows[id].workbook = workbook /\ st.rows[id].status = "proposed"

(* What was written stands; a proposal in a workbook the run is done with   *)
(* is one it has found, or about to go; and none of those about to go was   *)
(* written for this actor.                                                  *)
WrittenStands(st) ==
    \A k \in DOMAIN st.run.groups : \A i \in DOMAIN st.run.groups[k].ids :
        IsUpserted(st.run, k, i) =>
            LET id == st.run.groups[k].ids[i]
                actor == st.run.groups[k].actor
            IN /\ T!Owns(st, actor, id)
               /\ st.rows[id].status = "proposed" => Finds(st.run, actor, st.rows[id].workbook, id)
               /\ actor = T!Group(st).actor => id \notin st.run.stale

DoneIsFound(st) ==
    \A k \in DOMAIN st.run.groups :
        LET actor == st.run.groups[k].actor
            workbook == st.run.groups[k].workbook
        IN \A id \in DOMAIN st.rows :
            /\ k < st.run.group /\ IsProposed(st, actor, workbook, id) => Finds(st.run, actor, workbook, id)
            /\ k = st.run.group /\ st.run.phase = "delete" /\ IsProposed(st, actor, workbook, id) =>
                id \in st.run.stale \/ Finds(st.run, actor, workbook, id)

(* The same of the last run, when it is over.                               *)
IsFoundIn(groups, actor, workbook, id) ==
    id \in UNION {T!Ids(g) : g \in {g \in ToSet(groups) : g.actor = actor /\ g.workbook = workbook}}

MinedStands(st) ==
    \A g \in ToSet(st.mined) :
        /\ \A id \in T!Ids(g) :
            /\ T!Owns(st, g.actor, id)
            /\ st.rows[id].status = "proposed" => IsFoundIn(st.mined, g.actor, st.rows[id].workbook, id)
        /\ \A id \in T!Listed(st, g.actor, g.workbook) :
            st.rows[id].status = "proposed" => IsFoundIn(st.mined, g.actor, g.workbook, id)

IsSound(st) ==
    /\ IsStore(st) /\ IsRunning(st) /\ AreAnswered(st) /\ AreSourced(st)
    /\ WrittenStands(st) /\ DoneIsFound(st) /\ MinedStands(st)

(* What the miner has at hand, element by element. *)
LEMMA RunElements ==
    /\ \A g : T!Ids(g) = {g.ids[i] : i \in DOMAIN g.ids}
    /\ \A s : ToSet(s) = {s[k] : k \in DOMAIN s}
BY DEF T!Ids, T!ToSet, ToSet

(* A run that is at work is at a routine of a group of a night. *)
LEMMA RunIsAt ==
    ASSUME NEW st, IsRunning(st), st.run.phase # "idle"
    PROVE  /\ st.run.groups \in Nights /\ st.run.group \in DOMAIN st.run.groups
           /\ Len(st.run.groups) \in Nat \ {0} /\ DOMAIN st.run.groups = 1..Len(st.run.groups)
           /\ st.run.group \in 1..Len(st.run.groups) /\ st.run.group \in Nat /\ st.run.next \in Nat \ {0}
           /\ \A k \in DOMAIN st.run.groups :
                /\ k \in Nat /\ Len(st.run.groups[k].ids) \in Nat
                /\ DOMAIN st.run.groups[k].ids = 1..Len(st.run.groups[k].ids)
           /\ T!Group(st) = st.run.groups[st.run.group]
           /\ \A j, k \in DOMAIN st.run.groups :
                st.run.groups[j].actor = st.run.groups[k].actor
                    /\ st.run.groups[j].workbook = st.run.groups[k].workbook => j = k
           /\ st.run.next <= Len(T!Group(st).ids) + 1 /\ st.mined = <<>>
<1>1. /\ st.run.groups \in Nights /\ st.run.group \in DOMAIN st.run.groups
      /\ st.run.next \in 1..(Len(T!Group(st).ids) + 1) /\ st.mined = <<>>
  BY DEF IsRunning
<1> DEFINE night == st.run.groups
<1>2. /\ Len(night) \in Nat \ {0} /\ DOMAIN night = 1..Len(night)
      /\ \A k \in DOMAIN night : Len(night[k].ids) \in Nat /\ DOMAIN night[k].ids = 1..Len(night[k].ids)
      /\ \A j, k \in DOMAIN night :
            night[j].actor = night[k].actor /\ night[j].workbook = night[k].workbook => j = k
  BY <1>1, NightsAssumption
<1>3. T!Group(st) = night[st.run.group]
  BY DEF T!Group
<1> HIDE DEF night
<1>4. Len(T!Group(st).ids) \in Nat
  BY <1>1, <1>2, <1>3 DEF night
<1>5. st.run.next \in Nat \ {0} /\ st.run.next <= Len(T!Group(st).ids) + 1
  BY <1>1, <1>4
<1>6. \A k \in DOMAIN night : k \in Nat
  BY <1>2
<1> QED
  BY <1>1, <1>2, <1>3, <1>5, <1>6 DEF night

(* What a statement leaves of the table as it is. *)
Leaves(st, m) ==
    /\ DOMAIN m = StoreFields /\ m.of = "store" /\ DOMAIN m.run = RunFields
    /\ m.rows = st.rows /\ m.answers = st.answers /\ m.late = st.late /\ m.failed = st.failed

(* A run begins with its first group. *)
LEMMA BeginIs ==
    ASSUME NEW st, IsStore(st), NEW m \in T!Begin(st)
    PROVE  /\ st.run.phase = "idle" /\ DOMAIN m = StoreFields /\ m.of = "store" /\ DOMAIN m.run = RunFields
           /\ m.rows = st.rows /\ m.answers = st.answers /\ m.late = st.late /\ m.failed = FALSE
           /\ m.mined = <<>> /\ m.run.groups \in Nights
           /\ m.run.group = 1 /\ m.run.next = 1 /\ m.run.phase = "look" /\ m.run.stale = {}
<1> DEFINE run(night) == [T!Idle EXCEPT !.groups = night, !.group = 1, !.next = 1, !.phase = "look"]
<1>1. st.run.phase = "idle"
  BY DEF T!Begin, T!At
<1>2. PICK night \in Nights :
        m = [st EXCEPT !.run = run(night), !.mined = <<>>, !.failed = FALSE, !.nights = @ + 1]
  BY DEF T!Begin
<1>3. /\ DOMAIN run(night) = RunFields /\ run(night).groups = night /\ run(night).group = 1
      /\ run(night).next = 1 /\ run(night).phase = "look" /\ run(night).stale = {}
  BY DEF T!Idle, RunFields
<1> HIDE DEF run
<1>4. DOMAIN m = StoreFields /\ m.of = "store"
  BY <1>2 DEF IsStore, StoreFields
<1>5. m.rows = st.rows /\ m.answers = st.answers /\ m.late = st.late
  BY <1>2 DEF IsStore, StoreFields
<1>6. m.failed = FALSE
  BY <1>2 DEF IsStore, StoreFields
<1>7. m.mined = <<>>
  BY <1>2 DEF IsStore, StoreFields
<1>8. m.run = run(night)
  BY <1>2 DEF IsStore, StoreFields
<1> QED
  BY <1>1, <1>3, <1>4, <1>5, <1>6, <1>7, <1>8

(* It looks for a routine of its actor. *)
LEMMA LookIs ==
    ASSUME NEW st, IsStore(st), NEW m \in T!Look(st)
    PROVE  /\ st.run.phase = "look" /\ st.run.next <= Len(T!Group(st).ids)
           /\ Leaves(st, m) /\ m.mined = st.mined
           /\ m.run.groups = st.run.groups /\ m.run.group = st.run.group /\ m.run.next = st.run.next
           /\ m.run.stale = st.run.stale /\ m.run.phase = "write"
           /\ m.run.seen = IF T!Owns(st, T!Group(st).actor, IdAt(st)) THEN st.rows[IdAt(st)].status ELSE "none"
<1> DEFINE seen == IF T!Owns(st, T!Group(st).actor, IdAt(st)) THEN st.rows[IdAt(st)].status ELSE "none"
           run == [st.run EXCEPT !.phase = "write", !.seen = seen]
<1>1. st.run.phase = "look" /\ st.run.next <= Len(T!Group(st).ids)
  BY DEF T!Look, T!At, T!Upserting
<1>2. m = [st EXCEPT !.run.phase = "write", !.run.seen = seen]
  BY DEF T!Look, IdAt
<1> HIDE DEF seen
<1>3. m = [st EXCEPT !.run = run]
  BY <1>2 DEF IsStore, StoreFields, RunFields
<1>4. /\ DOMAIN run = RunFields /\ run.groups = st.run.groups /\ run.group = st.run.group
      /\ run.next = st.run.next /\ run.stale = st.run.stale /\ run.phase = "write" /\ run.seen = seen
  BY DEF IsStore, RunFields
<1> HIDE DEF run
<1>5. Leaves(st, m) /\ m.run = run /\ m.mined = st.mined
  <2>1. m.run = run
    BY <1>3 DEF IsStore, StoreFields
  <2>2. DOMAIN m = StoreFields /\ m.of = "store" /\ m.mined = st.mined
    BY <1>3 DEF IsStore, StoreFields
  <2>3. m.rows = st.rows /\ m.answers = st.answers /\ m.late = st.late /\ m.failed = st.failed
    BY <1>3 DEF IsStore, StoreFields
  <2> QED
    BY <1>4, <2>1, <2>2, <2>3 DEF Leaves
<1> QED
  BY <1>1, <1>4, <1>5 DEF seen

(* It writes it as it was found, or fails when another actor has it. *)
LEMMA WriteIs ==
    ASSUME NEW st, IsStore(st), IsRunning(st), NEW m \in T!Write(st),
           NEW id, id = IdAt(st), NEW group, group = T!Group(st)
    PROVE  /\ st.run.phase = "write"
           /\ DOMAIN m = StoreFields /\ m.of = "store" /\ DOMAIN m.run = RunFields
           /\ m.answers = st.answers /\ m.late = st.late /\ m.mined = st.mined
           /\ \/ /\ ~T!Owns(st, group.actor, id) /\ id \in DOMAIN st.rows
                 /\ m.run = T!Idle /\ m.failed = TRUE /\ m.rows = st.rows
              \/ /\ id \notin DOMAIN st.rows \/ T!Owns(st, group.actor, id)
                 /\ m.run.groups = st.run.groups /\ m.run.group = st.run.group /\ m.run.next = st.run.next + 1
                 /\ m.run.stale = st.run.stale /\ m.run.phase = "look" /\ m.failed = st.failed
                 /\ DOMAIN m.rows = DOMAIN st.rows \union {id}
                 /\ \A z \in DOMAIN st.rows \ {id} : m.rows[z] = st.rows[z]
                 /\ IsRow(m.rows[id]) /\ m.rows[id].actor = group.actor
                 /\ m.rows[id].status = IF id \in DOMAIN st.rows THEN st.rows[id].status ELSE "proposed"
                 /\ m.rows[id].status = "proposed" => m.rows[id].workbook = group.workbook
<1> DEFINE new == [actor |-> group.actor, workbook |-> group.workbook, status |-> "proposed"]
           old == T!Refreshed(st.rows[id], st.run.seen, group.workbook)
           rows == IF st.run.seen = "none" THEN T!With(st.rows, id, new)
                   ELSE IF T!Owns(st, group.actor, id) THEN T!With(st.rows, id, old) ELSE st.rows
           run == [st.run EXCEPT !.phase = "look", !.next = @ + 1]
<1>1. st.run.phase = "write"
  BY DEF T!Write, T!At
<1>2. st.run.seen = "none" <=> ~T!Owns(st, group.actor, id)
  BY <1>1 DEF IsRunning
<1>3. \/ st.run.seen = "none" /\ id \in DOMAIN st.rows /\ m = [st EXCEPT !.run = T!Idle, !.failed = TRUE]
      \/ ~(st.run.seen = "none" /\ id \in DOMAIN st.rows)
         /\ m = [st EXCEPT !.rows = rows, !.run.phase = "look", !.run.next = @ + 1]
  BY <1>1 DEF T!Write, T!At, IdAt
<1>4. CASE st.run.seen = "none" /\ id \in DOMAIN st.rows /\ m = [st EXCEPT !.run = T!Idle, !.failed = TRUE]
  <2>1. DOMAIN T!Idle = RunFields
    BY DEF T!Idle, RunFields
  <2> DEFINE idle == T!Idle
  <2>2. m = [st EXCEPT !.run = idle, !.failed = TRUE]
    BY <1>4
  <2> HIDE DEF idle
  <2>3. m.run = idle
    BY <2>2 DEF IsStore, StoreFields
  <2>4. DOMAIN m = StoreFields /\ m.of = "store" /\ m.mined = st.mined
    BY <2>2 DEF IsStore, StoreFields
  <2>5. m.rows = st.rows /\ m.answers = st.answers /\ m.late = st.late
    BY <2>2 DEF IsStore, StoreFields
  <2>6. m.failed = TRUE
    BY <2>2 DEF IsStore, StoreFields
  <2> QED
    BY <1>1, <1>2, <1>4, <2>1, <2>3, <2>4, <2>5, <2>6 DEF idle
<1>5. CASE ~(st.run.seen = "none" /\ id \in DOMAIN st.rows)
           /\ m = [st EXCEPT !.rows = rows, !.run.phase = "look", !.run.next = @ + 1]
  <2> HIDE DEF rows
  <2>1. m = [st EXCEPT !.rows = rows, !.run = run]
    BY <1>5 DEF IsStore, StoreFields, RunFields
  <2>2. /\ DOMAIN run = RunFields /\ run.groups = st.run.groups /\ run.group = st.run.group
        /\ run.next = st.run.next + 1 /\ run.stale = st.run.stale /\ run.phase = "look"
    BY DEF IsStore, RunFields
  <2> HIDE DEF run
  <2>3. m.run = run /\ m.rows = rows
    BY <2>1 DEF IsStore, StoreFields
  <2>4. DOMAIN m = StoreFields /\ m.of = "store" /\ m.mined = st.mined
    BY <2>1 DEF IsStore, StoreFields
  <2>5. m.answers = st.answers /\ m.late = st.late /\ m.failed = st.failed
    BY <2>1 DEF IsStore, StoreFields
  <2>6. CASE st.run.seen = "none"
    <3>1. id \notin DOMAIN st.rows /\ rows = T!With(st.rows, id, new)
      BY <1>5, <2>6 DEF rows
    <3>2. /\ IsRow(new) /\ new.actor = group.actor /\ new.workbook = group.workbook
          /\ new.status = "proposed"
      BY DEF IsRow, RowFields
    <3> HIDE DEF new
    <3>3. /\ DOMAIN rows = DOMAIN st.rows \union {id} /\ rows[id] = new
          /\ \A z \in DOMAIN st.rows \ {id} : rows[z] = st.rows[z]
      BY <3>1 DEF T!With
    <3> QED
      BY <1>1, <2>2, <2>3, <2>4, <2>5, <3>1, <3>2, <3>3
  <2>7. CASE st.run.seen # "none"
    <3>1. T!Owns(st, group.actor, id) /\ rows = T!With(st.rows, id, old)
      BY <1>2, <2>7 DEF rows
    <3>2. id \in DOMAIN st.rows /\ st.rows[id].actor = group.actor /\ IsRow(st.rows[id])
      BY <3>1 DEF T!Owns, IsStore
    <3>3. /\ IsRow(old) /\ old.actor = group.actor /\ old.status = st.rows[id].status
          /\ old.status = "proposed" => old.workbook = group.workbook
      <4>1. CASE st.run.seen \in T!Verdicts
        <5>1. st.rows[id].status \in T!Verdicts
          BY <1>1, <4>1 DEF IsRunning
        <5>2. old = st.rows[id]
          BY <4>1 DEF T!Refreshed
        <5> QED
          BY <3>2, <5>1, <5>2 DEF T!Verdicts
      <4>2. CASE st.run.seen \notin T!Verdicts
        <5>1. old = [st.rows[id] EXCEPT !.workbook = group.workbook]
          BY <4>2 DEF T!Refreshed
        <5> QED
          BY <3>2, <5>1 DEF IsRow, RowFields
      <4> QED
        BY <4>1, <4>2
    <3> HIDE DEF old
    <3>4. /\ DOMAIN rows = DOMAIN st.rows \union {id} /\ rows[id] = old
          /\ \A z \in DOMAIN st.rows \ {id} : rows[z] = st.rows[z]
      BY <3>1 DEF T!With
    <3> QED
      BY <1>1, <2>2, <2>3, <2>4, <2>5, <3>1, <3>2, <3>3, <3>4
  <2> QED
    BY <2>6, <2>7
<1> QED
  BY <1>3, <1>4, <1>5

(* It selects the proposals it did not find. *)
LEMMA SelectIs ==
    ASSUME NEW st, IsStore(st), NEW m \in T!Select(st)
    PROVE  /\ st.run.phase = "look" /\ ~(st.run.next <= Len(T!Group(st).ids))
           /\ Leaves(st, m) /\ m.mined = st.mined
           /\ m.run.groups = st.run.groups /\ m.run.group = st.run.group /\ m.run.next = st.run.next
           /\ m.run.phase = "delete"
           /\ m.run.stale = {id \in DOMAIN st.rows :
                                IsProposed(st, T!Group(st).actor, T!Group(st).workbook, id)} \ T!Ids(T!Group(st))
<1> DEFINE stale == {id \in DOMAIN st.rows :
                        IsProposed(st, T!Group(st).actor, T!Group(st).workbook, id)} \ T!Ids(T!Group(st))
           run == [st.run EXCEPT !.phase = "delete", !.stale = stale]
<1>1. st.run.phase = "look" /\ ~(st.run.next <= Len(T!Group(st).ids))
  BY DEF T!Select, T!At, T!Upserting
<1>2. m = [st EXCEPT !.run.phase = "delete", !.run.stale = stale]
  BY DEF T!Select, IsProposed
<1> HIDE DEF stale
<1>3. m = [st EXCEPT !.run = run]
  BY <1>2 DEF IsStore, StoreFields, RunFields
<1>4. /\ DOMAIN run = RunFields /\ run.groups = st.run.groups /\ run.group = st.run.group
      /\ run.next = st.run.next /\ run.stale = stale /\ run.phase = "delete"
  BY DEF IsStore, RunFields
<1> HIDE DEF run
<1>5. m.run = run
  BY <1>3 DEF IsStore, StoreFields
<1>6. DOMAIN m = StoreFields /\ m.of = "store" /\ m.mined = st.mined
  BY <1>3 DEF IsStore, StoreFields
<1>7. m.rows = st.rows /\ m.answers = st.answers /\ m.late = st.late /\ m.failed = st.failed
  BY <1>3 DEF IsStore, StoreFields
<1> QED
  BY <1>1, <1>4, <1>5, <1>6, <1>7 DEF Leaves, stale

(* It deletes one of them, if it is its actor's. *)
LEMMA DeleteIs ==
    ASSUME NEW st, IsStore(st), NEW m \in T!Delete(st)
    PROVE  /\ st.run.phase = "delete" /\ DOMAIN m = StoreFields /\ m.of = "store" /\ DOMAIN m.run = RunFields
           /\ m.answers = st.answers /\ m.late = st.late /\ m.failed = st.failed /\ m.mined = st.mined
           /\ m.run.groups = st.run.groups /\ m.run.group = st.run.group /\ m.run.next = st.run.next
           /\ m.run.phase = "delete"
           /\ \E id \in st.run.stale :
                /\ m.run.stale = st.run.stale \ {id}
                /\ DOMAIN m.rows = DOMAIN st.rows \ (IF T!Owns(st, T!Group(st).actor, id) THEN {id} ELSE {})
                /\ \A z \in DOMAIN m.rows : m.rows[z] = st.rows[z]
<1>1. st.run.phase = "delete"
  BY DEF T!Delete, T!At
<1> DEFINE rows(id) == IF T!Owns(st, T!Group(st).actor, id) THEN T!Without(st.rows, id) ELSE st.rows
           stale(id) == st.run.stale \ {id}
           run(id) == [st.run EXCEPT !.stale = stale(id)]
<1>2. PICK id \in st.run.stale : m = [st EXCEPT !.rows = rows(id), !.run.stale = stale(id)]
  BY <1>1 DEF T!Delete, T!At
<1> HIDE DEF rows, stale
<1>3. m = [st EXCEPT !.rows = rows(id), !.run = run(id)]
  BY <1>2 DEF IsStore, StoreFields, RunFields
<1>4. /\ DOMAIN run(id) = RunFields /\ run(id).groups = st.run.groups /\ run(id).group = st.run.group
      /\ run(id).next = st.run.next /\ run(id).stale = stale(id) /\ run(id).phase = "delete"
  BY <1>1 DEF IsStore, RunFields
<1> HIDE DEF run
<1>5. m.run = run(id) /\ m.rows = rows(id)
  BY <1>3 DEF IsStore, StoreFields
<1>6. DOMAIN m = StoreFields /\ m.of = "store" /\ m.mined = st.mined
  BY <1>3 DEF IsStore, StoreFields
<1>7. m.answers = st.answers /\ m.late = st.late /\ m.failed = st.failed
  BY <1>3 DEF IsStore, StoreFields
<1>8. /\ DOMAIN rows(id) = DOMAIN st.rows \ (IF T!Owns(st, T!Group(st).actor, id) THEN {id} ELSE {})
      /\ \A z \in DOMAIN rows(id) : rows(id)[z] = st.rows[z]
  <2>1. CASE T!Owns(st, T!Group(st).actor, id)
    <3>1. rows(id) = T!Without(st.rows, id)
      BY <2>1 DEF rows
    <3>2. DOMAIN rows(id) = DOMAIN st.rows \ {id} /\ \A z \in DOMAIN rows(id) : rows(id)[z] = st.rows[z]
      BY <3>1 DEF T!Without
    <3> QED
      BY <2>1, <3>2
  <2>2. CASE ~T!Owns(st, T!Group(st).actor, id)
    BY <2>2 DEF rows
  <2> QED
    BY <2>1, <2>2
<1>9. /\ m.run.stale = st.run.stale \ {id}
      /\ DOMAIN m.rows = DOMAIN st.rows \ (IF T!Owns(st, T!Group(st).actor, id) THEN {id} ELSE {})
      /\ \A z \in DOMAIN m.rows : m.rows[z] = st.rows[z]
  BY <1>4, <1>5, <1>8 DEF stale
<1> QED
  BY <1>1, <1>4, <1>5, <1>6, <1>7, <1>9

(* It goes on with the next group, or is over. *)
LEMMA ProceedIs ==
    ASSUME NEW st, IsStore(st), NEW m \in T!Proceed(st)
    PROVE  /\ st.run.phase = "delete" /\ st.run.stale = {} /\ Leaves(st, m)
           /\ \/ /\ st.run.group < Len(st.run.groups) /\ m.mined = st.mined
                 /\ m.run.groups = st.run.groups /\ m.run.group = st.run.group + 1 /\ m.run.next = 1
                 /\ m.run.stale = {} /\ m.run.phase = "look"
              \/ ~(st.run.group < Len(st.run.groups)) /\ m.mined = st.run.groups /\ m.run = T!Idle
<1>1. st.run.phase = "delete" /\ st.run.stale = {}
  BY DEF T!Proceed, T!At
<1> DEFINE run == [st.run EXCEPT !.group = @ + 1, !.next = 1, !.phase = "look"]
           idle == T!Idle
<1>2. \/ st.run.group < Len(st.run.groups) /\ m = [st EXCEPT !.run = run]
      \/ ~(st.run.group < Len(st.run.groups)) /\ m = [st EXCEPT !.run = idle, !.mined = st.run.groups]
  BY <1>1 DEF T!Proceed, T!At
<1>3. /\ DOMAIN run = RunFields /\ run.groups = st.run.groups /\ run.group = st.run.group + 1
      /\ run.next = 1 /\ run.stale = {} /\ run.phase = "look" /\ DOMAIN idle = RunFields
  BY <1>1 DEF IsStore, RunFields, T!Idle
<1> HIDE DEF run, idle
<1>4. CASE st.run.group < Len(st.run.groups) /\ m = [st EXCEPT !.run = run]
  <2>1. m.run = run
    BY <1>4 DEF IsStore, StoreFields
  <2>2. DOMAIN m = StoreFields /\ m.of = "store" /\ m.mined = st.mined
    BY <1>4 DEF IsStore, StoreFields
  <2>3. m.rows = st.rows /\ m.answers = st.answers /\ m.late = st.late /\ m.failed = st.failed
    BY <1>4 DEF IsStore, StoreFields
  <2> QED
    BY <1>1, <1>3, <1>4, <2>1, <2>2, <2>3 DEF Leaves
<1>5. CASE ~(st.run.group < Len(st.run.groups)) /\ m = [st EXCEPT !.run = idle, !.mined = st.run.groups]
  <2>1. m.run = idle /\ m.mined = st.run.groups
    BY <1>5 DEF IsStore, StoreFields
  <2>2. DOMAIN m = StoreFields /\ m.of = "store"
    BY <1>5 DEF IsStore, StoreFields
  <2>3. m.rows = st.rows /\ m.answers = st.answers /\ m.late = st.late /\ m.failed = st.failed
    BY <1>5 DEF IsStore, StoreFields
  <2> QED
    BY <1>1, <1>3, <1>5, <2>1, <2>2, <2>3 DEF Leaves, idle
<1> QED
  BY <1>2, <1>4, <1>5

(* A user answers. *)
LEMMA FeedbackIs ==
    ASSUME NEW st, IsStore(st), NEW m \in T!Feedback(st)
    PROVE  /\ DOMAIN m = StoreFields /\ m.of = "store"
           /\ m.run = st.run /\ m.mined = st.mined /\ m.failed = st.failed
           /\ DOMAIN m.rows = DOMAIN st.rows
           /\ \A z \in DOMAIN st.rows :
                /\ IsRow(m.rows[z]) /\ m.rows[z].actor = st.rows[z].actor
                /\ m.rows[z].workbook = st.rows[z].workbook
           /\ \E id \in DOMAIN st.rows, verdict \in T!Verdicts :
                /\ m.rows[id].status = verdict /\ \A z \in DOMAIN st.rows \ {id} : m.rows[z] = st.rows[z]
                /\ DOMAIN m.answers = DOMAIN st.answers \union {id} /\ m.answers[id] = verdict
                /\ \A z \in DOMAIN st.answers \ {id} : m.answers[z] = st.answers[z]
                /\ m.late = IF id \in st.run.stale THEN st.late \union {id} ELSE st.late
<1>1. PICK id \in DOMAIN st.rows, verdict \in T!Verdicts : m = T!Answered(st, id, verdict)
  BY DEF T!Feedback
<1> DEFINE new == [st.rows[id] EXCEPT !.status = verdict]
           rows == T!With(st.rows, id, new)
           answers == T!With(st.answers, id, verdict)
           late == IF id \in st.run.stale THEN st.late \union {id} ELSE st.late
<1>2. m = [st EXCEPT !.rows = rows, !.answers = answers, !.late = late]
  BY <1>1 DEF T!Answered
<1>3. IsRow(new) /\ new.status = verdict /\ new.actor = st.rows[id].actor /\ new.workbook = st.rows[id].workbook
  BY DEF IsStore, IsRow, RowFields
<1> HIDE DEF new
<1>4. /\ DOMAIN rows = DOMAIN st.rows /\ rows[id] = new
      /\ \A z \in DOMAIN st.rows \ {id} : rows[z] = st.rows[z]
  BY DEF rows, T!With
<1>5. /\ DOMAIN answers = DOMAIN st.answers \union {id} /\ answers[id] = verdict
      /\ \A z \in DOMAIN st.answers \ {id} : answers[z] = st.answers[z]
  BY DEF answers, T!With
<1> HIDE DEF rows, answers, late
<1>6. m.rows = rows /\ m.answers = answers
  BY <1>2 DEF IsStore, StoreFields
<1>7. m.late = late
  BY <1>2 DEF IsStore, StoreFields
<1>8. DOMAIN m = StoreFields /\ m.of = "store" /\ m.mined = st.mined
  BY <1>2 DEF IsStore, StoreFields
<1>9. m.run = st.run /\ m.failed = st.failed
  BY <1>2 DEF IsStore, StoreFields
<1>10. \A z \in DOMAIN st.rows :
            /\ IsRow(rows[z]) /\ rows[z].actor = st.rows[z].actor
            /\ rows[z].workbook = st.rows[z].workbook
  BY <1>3, <1>4 DEF IsStore
<1> QED
  BY <1>3, <1>4, <1>5, <1>6, <1>7, <1>8, <1>9, <1>10 DEF late

(* Where the run is at the same place, it has written the same. *)
LEMMA SamePlace ==
    ASSUME NEW st, NEW m, m.run.groups = st.run.groups, m.run.group = st.run.group, m.run.next = st.run.next
    PROVE  /\ T!Group(m) = T!Group(st) /\ IdAt(m) = IdAt(st)
           /\ \A k, i : IsUpserted(m.run, k, i) <=> IsUpserted(st.run, k, i)
           /\ \A actor, workbook, id : Finds(m.run, actor, workbook, id) <=> Finds(st.run, actor, workbook, id)
<1>1. T!Group(m) = T!Group(st)
  BY DEF T!Group
<1>2. IdAt(m) = IdAt(st)
  BY <1>1 DEF IdAt
<1>3. \A k, i : IsUpserted(m.run, k, i) <=> IsUpserted(st.run, k, i)
  BY DEF IsUpserted
<1>4. \A actor, workbook, id : Finds(m.run, actor, workbook, id) <=> Finds(st.run, actor, workbook, id)
  BY <1>3 DEF Finds
<1> QED
  BY <1>1, <1>2, <1>3, <1>4

(* A run that has just begun has written nothing, and one that is over      *)
(* neither.                                                                 *)
LEMMA NothingWritten ==
    ASSUME NEW m, m.run.phase # "delete", m.run.stale = {},
           m.run.groups = <<>> \/ (m.run.groups \in Nights /\ m.run.group = 1 /\ m.run.next = 1)
    PROVE  WrittenStands(m) /\ DoneIsFound(m)
<1>1. CASE m.run.groups = <<>>
  <2>1. DOMAIN m.run.groups = {}
    BY <1>1
  <2> QED
    BY <2>1 DEF WrittenStands, DoneIsFound
<1>2. CASE m.run.groups \in Nights /\ m.run.group = 1 /\ m.run.next = 1
  <2> DEFINE night == m.run.groups
  <2>1. /\ DOMAIN night = 1..Len(night) /\ Len(night) \in Nat
        /\ \A k \in DOMAIN night : Len(night[k].ids) \in Nat /\ DOMAIN night[k].ids = 1..Len(night[k].ids)
    BY <1>2, NightsAssumption
  <2> HIDE DEF night
  <2>2. \A k \in DOMAIN night : ~(k < 1) /\ \A i \in DOMAIN night[k].ids : ~(i < 1)
    BY <2>1
  <2>3. \A k, i : ~IsUpserted(m.run, k, i)
    BY <1>2, <2>2 DEF IsUpserted, night
  <2>4. \A k \in DOMAIN m.run.groups : ~(k < m.run.group)
    BY <1>2, <2>2 DEF night
  <2>5. WrittenStands(m)
    BY <2>3 DEF WrittenStands
  <2>6. DoneIsFound(m)
    BY <2>4 DEF DoneIsFound
  <2> QED
    BY <2>5, <2>6
<1> QED
  BY <1>1, <1>2

(* Nothing is claimed of a run that failed. *)
LEMMA NothingMined ==
    ASSUME NEW m, m.mined = <<>>
    PROVE  MinedStands(m)
<1>1. ToSet(m.mined) = {}
  BY RunElements
<1> QED
  BY <1>1 DEF MinedStands

(* A run begins. *)
LEMMA BeginIsSound ==
    ASSUME NEW st, IsSound(st), NEW m \in T!Begin(st)
    PROVE  IsSound(m)
<1>1. /\ IsStore(st) /\ IsRunning(st) /\ AreAnswered(st) /\ AreSourced(st)
  BY DEF IsSound
<1>2. /\ st.run.phase = "idle" /\ DOMAIN m = StoreFields /\ m.of = "store" /\ DOMAIN m.run = RunFields
      /\ m.rows = st.rows /\ m.answers = st.answers /\ m.late = st.late /\ m.failed = FALSE
      /\ m.mined = <<>> /\ m.run.groups \in Nights
      /\ m.run.group = 1 /\ m.run.next = 1 /\ m.run.phase = "look" /\ m.run.stale = {}
  BY <1>1, BeginIs
<1>3. IsStore(m)
  BY <1>1, <1>2 DEF IsStore
<1>4. IsRunning(m)
  <2> DEFINE night == m.run.groups
  <2>1. 1 \in DOMAIN night /\ Len(night[1].ids) \in Nat
    BY <1>2, NightsAssumption
  <2>2. T!Group(m) = night[1]
    BY <1>2 DEF T!Group
  <2> HIDE DEF night
  <2>3. 1 \in 1..(Len(T!Group(m).ids) + 1)
    BY <2>1, <2>2
  <2> QED
    BY <1>2, <2>1, <2>3 DEF IsRunning, night
<1>5. AreAnswered(m)
  BY <1>1, <1>2 DEF AreAnswered
<1>6. AreSourced(m)
  BY <1>1, <1>2 DEF AreSourced
<1>7. WrittenStands(m) /\ DoneIsFound(m)
  BY <1>2, NothingWritten
<1>8. MinedStands(m)
  BY <1>2, NothingMined
<1> QED
  BY <1>3, <1>4, <1>5, <1>6, <1>7, <1>8 DEF IsSound

(* A routine is looked for. *)
LEMMA LookIsSound ==
    ASSUME NEW st, IsSound(st), NEW m \in T!Look(st)
    PROVE  IsSound(m)
<1>1. /\ IsStore(st) /\ IsRunning(st) /\ AreAnswered(st) /\ AreSourced(st)
      /\ WrittenStands(st) /\ DoneIsFound(st) /\ MinedStands(st)
  BY DEF IsSound
<1>2. /\ st.run.phase = "look" /\ st.run.next <= Len(T!Group(st).ids)
      /\ Leaves(st, m) /\ m.mined = st.mined
      /\ m.run.groups = st.run.groups /\ m.run.group = st.run.group /\ m.run.next = st.run.next
      /\ m.run.stale = st.run.stale /\ m.run.phase = "write"
      /\ m.run.seen = IF T!Owns(st, T!Group(st).actor, IdAt(st)) THEN st.rows[IdAt(st)].status ELSE "none"
  BY <1>1, LookIs
<1>3. /\ T!Group(m) = T!Group(st) /\ IdAt(m) = IdAt(st)
      /\ \A k, i : IsUpserted(m.run, k, i) <=> IsUpserted(st.run, k, i)
      /\ \A actor, workbook, id : Finds(m.run, actor, workbook, id) <=> Finds(st.run, actor, workbook, id)
  BY <1>2, SamePlace
<1>4. /\ DOMAIN m = StoreFields /\ m.of = "store" /\ DOMAIN m.run = RunFields
      /\ m.rows = st.rows /\ m.answers = st.answers /\ m.late = st.late /\ m.failed = st.failed
  BY <1>2 DEF Leaves
<1>5. IsStore(m)
  BY <1>1, <1>4 DEF IsStore
<1>6. IsRunning(m)
  <2>1. /\ m.run.groups \in Nights /\ m.run.group \in DOMAIN m.run.groups
        /\ m.run.next \in 1..(Len(T!Group(m).ids) + 1) /\ m.mined = <<>> /\ m.run.stale = {}
    BY <1>1, <1>2, <1>3 DEF IsRunning
  <2>2. \A actor, id : T!Owns(m, actor, id) <=> T!Owns(st, actor, id)
    BY <1>4 DEF T!Owns
  <2>3. T!Owns(st, T!Group(st).actor, IdAt(st)) =>
            st.rows[IdAt(st)].status # "none"
    <3>1. T!Owns(st, T!Group(st).actor, IdAt(st)) => IsRow(st.rows[IdAt(st)])
      BY <1>1 DEF T!Owns, IsStore
    <3> QED
      BY <3>1 DEF IsRow, T!Verdicts
  <2>4. m.run.seen = "none" <=> ~T!Owns(m, T!Group(m).actor, IdAt(m))
    BY <1>2, <1>3, <2>2, <2>3
  <2>5. m.run.seen \in T!Verdicts => m.rows[IdAt(m)].status \in T!Verdicts
    BY <1>2, <1>3, <1>4 DEF T!Verdicts
  <2> QED
    BY <1>2, <1>3, <2>1, <2>4, <2>5 DEF IsRunning
<1>7. AreAnswered(m)
  BY <1>1, <1>2, <1>4 DEF AreAnswered
<1>8. AreSourced(m)
  BY <1>1, <1>4 DEF AreSourced
<1>9. WrittenStands(m)
  <2>1. \A actor, id : T!Owns(m, actor, id) <=> T!Owns(st, actor, id)
    BY <1>4 DEF T!Owns
  <2> QED
    BY <1>1, <1>2, <1>3, <1>4, <2>1 DEF WrittenStands
<1>10. DoneIsFound(m)
  <2>1. \A actor, workbook, id : IsProposed(m, actor, workbook, id) <=> IsProposed(st, actor, workbook, id)
    BY <1>4 DEF IsProposed, T!Owns
  <2> QED
    BY <1>1, <1>2, <1>3, <1>4, <2>1 DEF DoneIsFound
<1>11. MinedStands(m)
  BY <1>1, <1>2, <1>4 DEF MinedStands, T!Owns, T!Listed
<1> QED
  BY <1>5, <1>6, <1>7, <1>8, <1>9, <1>10, <1>11 DEF IsSound

(* The routine a run is at is one of its night. *)
LEMMA RoutineIsMined ==
    ASSUME NEW st, IsRunning(st), st.run.phase # "idle", st.run.next <= Len(T!Group(st).ids)
    PROVE  /\ IsMinedOf(T!Group(st).actor, IdAt(st))
           /\ \A other : IsMinedOf(other, IdAt(st)) => other = T!Group(st).actor \/ Shared
<1> DEFINE night == st.run.groups
           group == T!Group(st)
<1>1. /\ night \in Nights /\ group = night[st.run.group] /\ st.run.group \in DOMAIN night
      /\ st.run.next \in DOMAIN group.ids
  BY RunIsAt
<1>2. group \in ToSet(night)
  BY <1>1, RunElements
<1>3. IdAt(st) \in T!Ids(group)
  BY <1>1, RunElements DEF IdAt
<1> HIDE DEF night, group
<1>4. IsMinedOf(group.actor, IdAt(st))
  BY <1>1, <1>2, <1>3 DEF IsMinedOf
<1>5. ASSUME NEW other, IsMinedOf(other, IdAt(st)), other # group.actor
      PROVE  Shared
  <2>1. PICK night2 \in Nights : \E h \in ToSet(night2) : h.actor = other /\ IdAt(st) \in T!Ids(h)
    BY <1>5 DEF IsMinedOf
  <2>2. PICK h \in ToSet(night2) : h.actor = other /\ IdAt(st) \in T!Ids(h)
    BY <2>1
  <2>3. group.actor # h.actor /\ T!Ids(group) \intersect T!Ids(h) # {}
    BY <1>3, <1>5, <2>2
  <2> QED
    BY <1>1, <1>2, <2>2, <2>3 DEF Shared
<1> QED
  BY <1>4, <1>5 DEF group

(* A routine is written, or the run fails. *)
LEMMA WriteIsSound ==
    ASSUME NEW st, IsSound(st), NEW m \in T!Write(st)
    PROVE  IsSound(m)
<1> DEFINE id == IdAt(st)
           group == T!Group(st)
           night == st.run.groups
<1>1. /\ IsStore(st) /\ IsRunning(st) /\ AreAnswered(st) /\ AreSourced(st)
      /\ WrittenStands(st) /\ DoneIsFound(st) /\ MinedStands(st)
  BY DEF IsSound
<1>2. /\ st.run.phase = "write"
      /\ DOMAIN m = StoreFields /\ m.of = "store" /\ DOMAIN m.run = RunFields
      /\ m.answers = st.answers /\ m.late = st.late /\ m.mined = st.mined
      /\ \/ /\ ~T!Owns(st, group.actor, id) /\ id \in DOMAIN st.rows
            /\ m.run = T!Idle /\ m.failed = TRUE /\ m.rows = st.rows
         \/ /\ id \notin DOMAIN st.rows \/ T!Owns(st, group.actor, id)
            /\ m.run.groups = st.run.groups /\ m.run.group = st.run.group /\ m.run.next = st.run.next + 1
            /\ m.run.stale = st.run.stale /\ m.run.phase = "look" /\ m.failed = st.failed
            /\ DOMAIN m.rows = DOMAIN st.rows \union {id}
            /\ \A z \in DOMAIN st.rows \ {id} : m.rows[z] = st.rows[z]
            /\ IsRow(m.rows[id]) /\ m.rows[id].actor = group.actor
            /\ m.rows[id].status = IF id \in DOMAIN st.rows THEN st.rows[id].status ELSE "proposed"
            /\ m.rows[id].status = "proposed" => m.rows[id].workbook = group.workbook
  BY <1>1, WriteIs
<1>3. /\ st.run.next <= Len(group.ids) /\ st.run.stale = {} /\ st.mined = <<>>
  BY <1>1, <1>2 DEF IsRunning
<1>4. /\ night \in Nights /\ group = night[st.run.group] /\ st.run.group \in DOMAIN night
      /\ st.run.next \in DOMAIN group.ids /\ st.run.next \in Nat /\ Len(group.ids) \in Nat
      /\ \A k \in DOMAIN night : k \in Nat /\ \A i \in DOMAIN night[k].ids : i \in Nat
      /\ st.run.group \in Nat
  BY <1>1, <1>2, <1>3, RunIsAt
<1>5. /\ IsMinedOf(group.actor, id)
      /\ \A other : IsMinedOf(other, id) => other = group.actor \/ Shared
  BY <1>1, <1>2, <1>3, RoutineIsMined
<1>6. MinedStands(m)
  BY <1>2, <1>3, NothingMined
<1>7. id = group.ids[st.run.next]
  BY DEF IdAt
<1> HIDE DEF id, group
<1>8. ASSUME ~T!Owns(st, group.actor, id), id \in DOMAIN st.rows,
             m.run = T!Idle, m.failed = TRUE, m.rows = st.rows
      PROVE  IsSound(m)
  <2>1. m.run.phase = "idle" /\ m.run.stale = {} /\ m.run.groups = <<>>
    BY <1>8 DEF T!Idle
  <2>2. IsStore(m)
    BY <1>1, <1>2, <1>8 DEF IsStore
  <2>3. IsRunning(m)
    BY <2>1 DEF IsRunning
  <2>4. AreAnswered(m)
    BY <1>1, <1>2, <1>8, <2>1 DEF AreAnswered
  <2>5. Shared
    <3>1. st.rows[id].actor # group.actor /\ IsMinedOf(st.rows[id].actor, id)
      BY <1>1, <1>8 DEF T!Owns, AreSourced
    <3> QED
      BY <1>5, <3>1
  <2>6. AreSourced(m)
    BY <1>1, <1>8, <2>5 DEF AreSourced
  <2>7. WrittenStands(m) /\ DoneIsFound(m)
    <3>1. m.run.phase # "delete"
      BY <2>1
    <3> QED
      BY <2>1, <3>1, NothingWritten
  <2> QED
    BY <1>6, <2>2, <2>3, <2>4, <2>6, <2>7 DEF IsSound
<1>9. ASSUME id \notin DOMAIN st.rows \/ T!Owns(st, group.actor, id),
             m.run.groups = night, m.run.group = st.run.group, m.run.next = st.run.next + 1,
             m.run.stale = st.run.stale, m.run.phase = "look", m.failed = st.failed,
             DOMAIN m.rows = DOMAIN st.rows \union {id},
             \A z \in DOMAIN st.rows \ {id} : m.rows[z] = st.rows[z],
             IsRow(m.rows[id]), m.rows[id].actor = group.actor,
             m.rows[id].status = IF id \in DOMAIN st.rows THEN st.rows[id].status ELSE "proposed",
             m.rows[id].status = "proposed" => m.rows[id].workbook = group.workbook
      PROVE  IsSound(m)
  <2>1. T!Group(m) = group
    BY <1>4, <1>9 DEF T!Group
  <2>2. IsStore(m)
    BY <1>1, <1>2, <1>9 DEF IsStore
  <2>3. IsRunning(m)
    <3>1. m.run.next \in 1..(Len(T!Group(m).ids) + 1)
      BY <1>3, <1>4, <1>9, <2>1
    <3> QED
      BY <1>2, <1>3, <1>4, <1>9, <3>1 DEF IsRunning
  <2>4. AreAnswered(m)
    <3>1. ASSUME NEW d \in DOMAIN m.answers \ m.late
          PROVE  d \in DOMAIN m.rows /\ m.rows[d].status = m.answers[d]
      <4>1. d \in DOMAIN st.rows /\ st.rows[d].status = st.answers[d]
        BY <1>1, <1>2, <3>1 DEF AreAnswered
      <4> QED
        BY <1>2, <1>9, <4>1
    <3>2. ASSUME NEW d \in DOMAIN m.rows, m.rows[d].status # "proposed"
          PROVE  d \in DOMAIN m.answers
      <4>1. d \in DOMAIN st.rows /\ st.rows[d].status # "proposed"
        BY <1>9, <3>2
      <4> QED
        BY <1>1, <1>2, <4>1 DEF AreAnswered
    <3> QED
      BY <1>1, <1>2, <1>3, <1>9, <3>1, <3>2 DEF AreAnswered
  <2>5. AreSourced(m)
    <3>1. ASSUME NEW d \in DOMAIN m.rows
          PROVE  IsMinedOf(m.rows[d].actor, d)
      BY <1>1, <1>5, <1>9 DEF AreSourced
    <3> QED
      BY <1>1, <1>9, <3>1 DEF AreSourced
  <2>6. \A k \in DOMAIN night : \A i \in DOMAIN night[k].ids :
            IsUpserted(m.run, k, i) <=> IsUpserted(st.run, k, i) \/ (k = st.run.group /\ i = st.run.next)
    BY <1>4, <1>9 DEF IsUpserted
  <2>7. \A actor, workbook, z : Finds(st.run, actor, workbook, z) => Finds(m.run, actor, workbook, z)
    BY <1>9, <2>6 DEF Finds
  <2>8. Finds(m.run, group.actor, group.workbook, id)
    BY <1>4, <1>7, <1>9, <2>6 DEF Finds
  <2>9. \A actor, z : T!Owns(st, actor, z) => T!Owns(m, actor, z)
    BY <1>9 DEF T!Owns
  <2>10. WrittenStands(m)
    <3> SUFFICES ASSUME NEW k \in DOMAIN night, NEW i \in DOMAIN night[k].ids, IsUpserted(m.run, k, i),
                        NEW z, z = night[k].ids[i], NEW actor, actor = night[k].actor
                 PROVE  /\ T!Owns(m, actor, z)
                        /\ m.rows[z].status = "proposed" => Finds(m.run, actor, m.rows[z].workbook, z)
                        /\ z \notin m.run.stale
      BY <1>9 DEF WrittenStands
    <3>1. z \notin m.run.stale
      BY <1>3, <1>9
    <3>2. CASE z = id
      <4>1. T!Owns(m, actor, z)
        <5>1. CASE IsUpserted(st.run, k, i)
          BY <1>1, <2>9, <5>1 DEF WrittenStands
        <5>2. CASE k = st.run.group /\ i = st.run.next
          BY <1>4, <1>9, <3>2, <5>2 DEF T!Owns
        <5> QED
          BY <2>6, <5>1, <5>2
      <4>2. actor = group.actor
        BY <1>9, <3>2, <4>1 DEF T!Owns
      <4> QED
        BY <1>9, <2>8, <3>1, <3>2, <4>1, <4>2
    <3>3. CASE z # id
      <4>1. IsUpserted(st.run, k, i)
        BY <1>4, <1>7, <2>6, <3>3
      <4>2. T!Owns(st, actor, z) /\ (st.rows[z].status = "proposed" => Finds(st.run, actor, st.rows[z].workbook, z))
        BY <1>1, <4>1 DEF WrittenStands
      <4>3. m.rows[z] = st.rows[z]
        BY <1>9, <3>3, <4>2 DEF T!Owns
      <4> QED
        BY <2>7, <2>9, <3>1, <4>2, <4>3
    <3> QED
      BY <3>2, <3>3
  <2>11. DoneIsFound(m)
    <3> SUFFICES ASSUME NEW k \in DOMAIN night, NEW actor, actor = night[k].actor,
                        NEW workbook, workbook = night[k].workbook,
                        NEW z \in DOMAIN m.rows, k < m.run.group, IsProposed(m, actor, workbook, z)
                 PROVE  Finds(m.run, actor, workbook, z)
      BY <1>9 DEF DoneIsFound
    <3>1. CASE z = id
      BY <1>9, <2>8, <3>1 DEF IsProposed, T!Owns
    <3>2. CASE z # id
      <4>1. z \in DOMAIN st.rows /\ IsProposed(st, actor, workbook, z)
        BY <1>9, <3>2 DEF IsProposed, T!Owns
      <4>2. Finds(st.run, actor, workbook, z)
        BY <1>1, <1>9, <4>1 DEF DoneIsFound
      <4> QED
        BY <2>7, <4>2
    <3> QED
      BY <3>1, <3>2
  <2> QED
    BY <1>6, <2>2, <2>3, <2>4, <2>5, <2>10, <2>11 DEF IsSound
<1> QED
  BY <1>2, <1>8, <1>9

(* Proposals no longer found are selected. *)
LEMMA SelectIsSound ==
    ASSUME NEW st, IsSound(st), NEW m \in T!Select(st)
    PROVE  IsSound(m)
<1> DEFINE group == T!Group(st)
           night == st.run.groups
<1>1. /\ IsStore(st) /\ IsRunning(st) /\ AreAnswered(st) /\ AreSourced(st)
      /\ WrittenStands(st) /\ DoneIsFound(st) /\ MinedStands(st)
  BY DEF IsSound
<1>2. /\ st.run.phase = "look" /\ ~(st.run.next <= Len(group.ids))
      /\ Leaves(st, m) /\ m.mined = st.mined
      /\ m.run.groups = st.run.groups /\ m.run.group = st.run.group /\ m.run.next = st.run.next
      /\ m.run.phase = "delete"
      /\ m.run.stale = {id \in DOMAIN st.rows :
                            IsProposed(st, group.actor, group.workbook, id)} \ T!Ids(group)
  BY <1>1, SelectIs
<1>3. /\ T!Group(m) = group /\ IdAt(m) = IdAt(st)
      /\ \A k, i : IsUpserted(m.run, k, i) <=> IsUpserted(st.run, k, i)
      /\ \A actor, workbook, id : Finds(m.run, actor, workbook, id) <=> Finds(st.run, actor, workbook, id)
  BY <1>2, SamePlace
<1>4. /\ DOMAIN m = StoreFields /\ m.of = "store" /\ DOMAIN m.run = RunFields
      /\ m.rows = st.rows /\ m.answers = st.answers /\ m.late = st.late /\ m.failed = st.failed
  BY <1>2 DEF Leaves
<1>5. /\ night \in Nights /\ group = night[st.run.group] /\ st.run.group \in DOMAIN night
      /\ st.run.next \in Nat /\ Len(group.ids) \in Nat /\ DOMAIN group.ids = 1..Len(group.ids)
      /\ st.run.next <= Len(group.ids) + 1 /\ st.mined = <<>> /\ st.run.group \in Nat
      /\ \A j, k \in DOMAIN night :
            night[j].actor = night[k].actor /\ night[j].workbook = night[k].workbook => j = k
  BY <1>1, <1>2, RunIsAt
<1>6. \A actor, id : T!Owns(m, actor, id) <=> T!Owns(st, actor, id)
  BY <1>4 DEF T!Owns
<1>7. \A actor, workbook, id : IsProposed(m, actor, workbook, id) <=> IsProposed(st, actor, workbook, id)
  BY <1>4, <1>6 DEF IsProposed
<1>8. T!Ids(group) = {group.ids[i] : i \in DOMAIN group.ids}
  BY RunElements
<1> HIDE DEF group
<1>9. IsStore(m)
  BY <1>1, <1>4 DEF IsStore
<1>10. IsRunning(m)
  <2>1. m.run.next = Len(T!Group(m).ids) + 1
    BY <1>2, <1>3, <1>5
  <2>2. m.run.next \in 1..(Len(T!Group(m).ids) + 1)
    BY <1>3, <1>5, <2>1
  <2> QED
    BY <1>2, <1>5, <2>1, <2>2 DEF IsRunning
<1>11. AreAnswered(m)
  <2>1. ASSUME NEW id \in m.run.stale, id \in DOMAIN m.answers, id \notin m.late
        PROVE  FALSE
    <3>1. id \in DOMAIN st.rows /\ st.rows[id].status = "proposed"
      BY <1>2, <2>1 DEF IsProposed
    <3>2. st.rows[id].status = st.answers[id] /\ st.answers[id] \in T!Verdicts
      BY <1>1, <1>4, <2>1 DEF AreAnswered
    <3> QED
      BY <3>1, <3>2 DEF T!Verdicts
  <2> QED
    BY <1>1, <1>4, <2>1 DEF AreAnswered
<1>12. AreSourced(m)
  BY <1>1, <1>4 DEF AreSourced
<1>13. WrittenStands(m)
  <2> SUFFICES ASSUME NEW k \in DOMAIN night, NEW i \in DOMAIN night[k].ids, IsUpserted(m.run, k, i),
                      NEW id, id = night[k].ids[i], NEW actor, actor = night[k].actor
               PROVE  /\ T!Owns(m, actor, id)
                      /\ m.rows[id].status = "proposed" => Finds(m.run, actor, m.rows[id].workbook, id)
                      /\ actor = T!Group(m).actor => id \notin m.run.stale
    BY <1>2 DEF WrittenStands
  <2>1. /\ T!Owns(st, actor, id)
        /\ st.rows[id].status = "proposed" => Finds(st.run, actor, st.rows[id].workbook, id)
    BY <1>1, <1>3 DEF WrittenStands
  <2>2. ASSUME actor = group.actor, id \in m.run.stale
        PROVE  FALSE
    <3>1. st.rows[id].status = "proposed" /\ st.rows[id].workbook = group.workbook /\ id \notin T!Ids(group)
      BY <1>2, <2>2 DEF IsProposed
    <3>2. Finds(st.run, group.actor, group.workbook, id)
      BY <2>1, <2>2, <3>1
    <3>3. PICK j \in DOMAIN night : \E n \in DOMAIN night[j].ids :
            night[j].ids[n] = id /\ night[j].actor = group.actor /\ night[j].workbook = group.workbook
      BY <3>2 DEF Finds
    <3>4. j = st.run.group
      BY <1>5, <3>3
    <3> QED
      BY <1>5, <1>8, <3>1, <3>3, <3>4
  <2> QED
    BY <1>3, <1>4, <1>6, <2>1, <2>2
<1>14. DoneIsFound(m)
  <2> SUFFICES ASSUME NEW k \in DOMAIN night, NEW actor, actor = night[k].actor,
                      NEW workbook, workbook = night[k].workbook,
                      NEW id \in DOMAIN m.rows, IsProposed(m, actor, workbook, id)
               PROVE  /\ k < m.run.group => Finds(m.run, actor, workbook, id)
                      /\ k = m.run.group => id \in m.run.stale \/ Finds(m.run, actor, workbook, id)
    BY <1>2 DEF DoneIsFound
  <2>1. ASSUME k < m.run.group
        PROVE  Finds(m.run, actor, workbook, id)
    <3>1. IsProposed(st, actor, workbook, id) /\ id \in DOMAIN st.rows /\ k < st.run.group
      BY <1>2, <1>4, <1>7, <2>1
    <3>2. Finds(st.run, actor, workbook, id)
      BY <1>1, <3>1 DEF DoneIsFound
    <3> QED
      BY <1>3, <3>2
  <2>2. ASSUME k = m.run.group, id \notin m.run.stale
        PROVE  Finds(m.run, actor, workbook, id)
    <3>1. IsProposed(st, group.actor, group.workbook, id) /\ id \in DOMAIN st.rows
      BY <1>2, <1>4, <1>5, <1>7, <2>2
    <3>2. id \in T!Ids(group)
      BY <1>2, <2>2, <3>1
    <3>3. PICK i \in DOMAIN group.ids : group.ids[i] = id
      BY <1>8, <3>2
    <3>4. i < st.run.next
      BY <1>2, <1>5
    <3>5. IsUpserted(m.run, k, i)
      BY <1>2, <1>5, <2>2, <3>4 DEF IsUpserted
    <3> QED
      BY <1>2, <1>5, <2>2, <3>3, <3>5 DEF Finds
  <2> QED
    BY <2>1, <2>2
<1>15. MinedStands(m)
  BY <1>2, <1>5, NothingMined
<1> QED
  BY <1>9, <1>10, <1>11, <1>12, <1>13, <1>14, <1>15 DEF IsSound

(* A proposal is deleted. *)
LEMMA DeleteIsSound ==
    ASSUME NEW st, IsSound(st), NEW m \in T!Delete(st)
    PROVE  IsSound(m)
<1> DEFINE group == T!Group(st)
           night == st.run.groups
<1>1. /\ IsStore(st) /\ IsRunning(st) /\ AreAnswered(st) /\ AreSourced(st)
      /\ WrittenStands(st) /\ DoneIsFound(st) /\ MinedStands(st)
  BY DEF IsSound
<1>2. /\ st.run.phase = "delete" /\ DOMAIN m = StoreFields /\ m.of = "store" /\ DOMAIN m.run = RunFields
      /\ m.answers = st.answers /\ m.late = st.late /\ m.failed = st.failed /\ m.mined = st.mined
      /\ m.run.groups = st.run.groups /\ m.run.group = st.run.group /\ m.run.next = st.run.next
      /\ m.run.phase = "delete"
  BY <1>1, DeleteIs
<1>3. PICK gone \in st.run.stale :
        /\ m.run.stale = st.run.stale \ {gone}
        /\ DOMAIN m.rows = DOMAIN st.rows \ (IF T!Owns(st, group.actor, gone) THEN {gone} ELSE {})
        /\ \A z \in DOMAIN m.rows : m.rows[z] = st.rows[z]
  BY <1>1, DeleteIs
<1>4. /\ T!Group(m) = group /\ IdAt(m) = IdAt(st)
      /\ \A k, i : IsUpserted(m.run, k, i) <=> IsUpserted(st.run, k, i)
      /\ \A actor, workbook, id : Finds(m.run, actor, workbook, id) <=> Finds(st.run, actor, workbook, id)
  BY <1>2, SamePlace
<1>5. st.mined = <<>> /\ group = night[st.run.group]
  BY <1>1, <1>2, RunIsAt
<1> HIDE DEF group
<1>6. DOMAIN m.rows \subseteq DOMAIN st.rows /\ \A z \in DOMAIN st.rows : z # gone => z \in DOMAIN m.rows
  BY <1>3
<1>7. IsStore(m)
  BY <1>1, <1>2, <1>3, <1>6 DEF IsStore
<1>8. IsRunning(m)
  <2>1. /\ m.run.groups \in Nights /\ m.run.group \in DOMAIN m.run.groups /\ m.mined = <<>>
        /\ m.run.next \in 1..(Len(T!Group(m).ids) + 1)
    BY <1>1, <1>2, <1>4 DEF IsRunning, group
  <2>2. m.run.next = Len(T!Group(m).ids) + 1
    BY <1>1, <1>2, <1>4 DEF IsRunning, group
  <2> QED
    BY <1>2, <2>1, <2>2 DEF IsRunning
<1>9. AreAnswered(m)
  <2>1. gone \in DOMAIN st.answers => gone \in st.late
    BY <1>1 DEF AreAnswered
  <2>2. ASSUME NEW d \in DOMAIN m.answers \ m.late
        PROVE  d \in DOMAIN m.rows /\ m.rows[d].status = m.answers[d]
    <3>1. d \in DOMAIN st.rows /\ st.rows[d].status = st.answers[d] /\ d # gone
      BY <1>1, <1>2, <2>1, <2>2 DEF AreAnswered
    <3> QED
      BY <1>2, <1>3, <1>6, <3>1
  <2> QED
    BY <1>1, <1>2, <1>3, <1>6, <2>2 DEF AreAnswered
<1>10. AreSourced(m)
  BY <1>1, <1>2, <1>3, <1>6 DEF AreSourced
<1>11. WrittenStands(m)
  <2> SUFFICES ASSUME NEW k \in DOMAIN night, NEW i \in DOMAIN night[k].ids, IsUpserted(m.run, k, i),
                      NEW id, id = night[k].ids[i], NEW actor, actor = night[k].actor
               PROVE  /\ T!Owns(m, actor, id)
                      /\ m.rows[id].status = "proposed" => Finds(m.run, actor, m.rows[id].workbook, id)
                      /\ actor = T!Group(m).actor => id \notin m.run.stale
    BY <1>2 DEF WrittenStands
  <2>1. /\ T!Owns(st, actor, id)
        /\ st.rows[id].status = "proposed" => Finds(st.run, actor, st.rows[id].workbook, id)
        /\ actor = group.actor => id \notin st.run.stale
    BY <1>1, <1>4 DEF WrittenStands, group
  <2>2. id \in DOMAIN st.rows /\ st.rows[id].actor = actor
    BY <2>1 DEF T!Owns
  <2>3. id \in DOMAIN m.rows
    <3>1. CASE T!Owns(st, group.actor, gone) /\ id = gone
      BY <2>1, <2>2, <3>1 DEF T!Owns
    <3>2. CASE ~T!Owns(st, group.actor, gone) \/ id # gone
      BY <1>3, <2>2, <3>2
    <3> QED
      BY <3>1, <3>2
  <2>4. m.rows[id] = st.rows[id]
    BY <1>3, <2>3
  <2>5. T!Owns(m, actor, id)
    BY <2>2, <2>3, <2>4 DEF T!Owns
  <2> QED
    BY <1>3, <1>4, <2>1, <2>4, <2>5
<1>12. DoneIsFound(m)
  <2> SUFFICES ASSUME NEW k \in DOMAIN night, NEW actor, actor = night[k].actor,
                      NEW workbook, workbook = night[k].workbook,
                      NEW id \in DOMAIN m.rows, IsProposed(m, actor, workbook, id)
               PROVE  /\ k < m.run.group => Finds(m.run, actor, workbook, id)
                      /\ k = m.run.group => id \in m.run.stale \/ Finds(m.run, actor, workbook, id)
    BY <1>2 DEF DoneIsFound
  <2>1. IsProposed(st, actor, workbook, id) /\ id \in DOMAIN st.rows
    BY <1>3, <1>6 DEF IsProposed, T!Owns
  <2>2. ASSUME k < m.run.group
        PROVE  Finds(m.run, actor, workbook, id)
    <3>1. Finds(st.run, actor, workbook, id)
      BY <1>1, <1>2, <2>1, <2>2 DEF DoneIsFound
    <3> QED
      BY <1>4, <3>1
  <2>3. ASSUME k = m.run.group
        PROVE  id \in m.run.stale \/ Finds(m.run, actor, workbook, id)
    <3>1. id \in st.run.stale \/ Finds(st.run, actor, workbook, id)
      BY <1>1, <1>2, <2>1, <2>3 DEF DoneIsFound
    <3>2. T!Owns(st, group.actor, id)
      BY <1>2, <1>5, <2>1, <2>3 DEF IsProposed
    <3>3. id # gone
      BY <1>3, <3>2
    <3> QED
      BY <1>3, <1>4, <3>1, <3>3
  <2> QED
    BY <2>2, <2>3
<1>13. MinedStands(m)
  BY <1>2, <1>5, NothingMined
<1> QED
  BY <1>7, <1>8, <1>9, <1>10, <1>11, <1>12, <1>13 DEF IsSound

(* A run finds in its groups what it has written. *)
LEMMA FindsIsFoundIn ==
    ASSUME NEW run, NEW actor, NEW workbook, NEW id, Finds(run, actor, workbook, id)
    PROVE  IsFoundIn(run.groups, actor, workbook, id)
<1>1. PICK k \in DOMAIN run.groups : \E i \in DOMAIN run.groups[k].ids :
            run.groups[k].ids[i] = id /\ run.groups[k].actor = actor /\ run.groups[k].workbook = workbook
  BY DEF Finds
<1> DEFINE g == run.groups[k]
<1>2. g \in ToSet(run.groups) /\ id \in T!Ids(g) /\ g.actor = actor /\ g.workbook = workbook
  BY <1>1, RunElements
<1> QED
  BY <1>2 DEF IsFoundIn

(* The run goes on with the next group, or is over. *)
LEMMA ProceedIsSound ==
    ASSUME NEW st, IsSound(st), NEW m \in T!Proceed(st)
    PROVE  IsSound(m)
<1> DEFINE group == T!Group(st)
           night == st.run.groups
           at == st.run.group
<1>1. /\ IsStore(st) /\ IsRunning(st) /\ AreAnswered(st) /\ AreSourced(st)
      /\ WrittenStands(st) /\ DoneIsFound(st) /\ MinedStands(st)
  BY DEF IsSound
<1>2. /\ st.run.phase = "delete" /\ st.run.stale = {} /\ Leaves(st, m)
      /\ \/ /\ at < Len(night) /\ m.mined = st.mined
            /\ m.run.groups = night /\ m.run.group = at + 1 /\ m.run.next = 1
            /\ m.run.stale = {} /\ m.run.phase = "look"
         \/ ~(at < Len(night)) /\ m.mined = night /\ m.run = T!Idle
  BY <1>1, ProceedIs
<1>3. /\ DOMAIN m = StoreFields /\ m.of = "store" /\ DOMAIN m.run = RunFields
      /\ m.rows = st.rows /\ m.answers = st.answers /\ m.late = st.late /\ m.failed = st.failed
  BY <1>2 DEF Leaves
<1>4. /\ night \in Nights /\ group = night[at] /\ at \in 1..Len(night) /\ at \in Nat
      /\ DOMAIN night = 1..Len(night) /\ Len(night) \in Nat /\ st.mined = <<>>
      /\ \A k \in DOMAIN night : /\ k \in Nat /\ Len(night[k].ids) \in Nat
                                 /\ DOMAIN night[k].ids = 1..Len(night[k].ids)
  BY <1>1, <1>2, RunIsAt
<1>5. st.run.next = Len(night[at].ids) + 1
  BY <1>1, <1>2, <1>4 DEF IsRunning
<1>6. \A actor, id : T!Owns(m, actor, id) <=> T!Owns(st, actor, id)
  BY <1>3 DEF T!Owns
<1>7. \A actor, workbook, id : IsProposed(m, actor, workbook, id) <=> IsProposed(st, actor, workbook, id)
  BY <1>3, <1>6 DEF IsProposed
<1> HIDE DEF group
<1>8. IsStore(m)
  BY <1>1, <1>3 DEF IsStore
<1>9. AreSourced(m)
  BY <1>1, <1>3 DEF AreSourced
<1>10. \A k \in DOMAIN night : \A i \in DOMAIN night[k].ids : IsUpserted(st.run, k, i) <=> k <= at
  <2> TAKE k \in DOMAIN night
  <2> TAKE i \in DOMAIN night[k].ids
  <2>1. i \in Nat /\ i <= Len(night[k].ids) /\ k \in Nat /\ Len(night[k].ids) \in Nat
    BY <1>4
  <2>2. k = at => i < st.run.next
    BY <1>5, <2>1
  <2> QED
    BY <1>4, <2>1, <2>2 DEF IsUpserted
<1>11. \A k \in DOMAIN night : \A id \in DOMAIN st.rows :
            k <= at /\ IsProposed(st, night[k].actor, night[k].workbook, id) =>
                Finds(st.run, night[k].actor, night[k].workbook, id)
  <2> TAKE k \in DOMAIN night
  <2> TAKE id \in DOMAIN st.rows
  <2> DEFINE actor == night[k].actor
             workbook == night[k].workbook
  <2>1. /\ k < at /\ IsProposed(st, actor, workbook, id) => Finds(st.run, actor, workbook, id)
        /\ k = at /\ IsProposed(st, actor, workbook, id) => Finds(st.run, actor, workbook, id)
    BY <1>1, <1>2 DEF DoneIsFound
  <2> QED
    BY <1>4, <2>1
<1>12. ASSUME at < Len(night), m.mined = st.mined, m.run.groups = night, m.run.group = at + 1,
              m.run.next = 1, m.run.stale = {}, m.run.phase = "look"
       PROVE  IsSound(m)
  <2>1. at + 1 \in DOMAIN night /\ T!Group(m) = night[at + 1] /\ Len(night[at + 1].ids) \in Nat
    <3>1. at + 1 \in DOMAIN night
      BY <1>4, <1>12
    <3> QED
      BY <1>4, <1>12, <3>1 DEF T!Group
  <2>2. IsRunning(m)
    <3>1. 1 \in 1..(Len(T!Group(m).ids) + 1)
      BY <2>1
    <3> QED
      BY <1>4, <1>12, <2>1, <3>1 DEF IsRunning
  <2>3. AreAnswered(m)
    BY <1>1, <1>3, <1>12 DEF AreAnswered
  <2>4. \A k \in DOMAIN night : \A i \in DOMAIN night[k].ids : IsUpserted(m.run, k, i) <=> IsUpserted(st.run, k, i)
    <3> TAKE k \in DOMAIN night
    <3> TAKE i \in DOMAIN night[k].ids
    <3>1. k \in Nat /\ ~(i < 1)
      BY <1>4
    <3>2. IsUpserted(m.run, k, i) <=> k <= at
      BY <1>4, <1>12, <3>1 DEF IsUpserted
    <3> QED
      BY <1>10, <3>2
  <2>5. \A actor, workbook, id : Finds(m.run, actor, workbook, id) <=> Finds(st.run, actor, workbook, id)
    BY <1>12, <2>4 DEF Finds
  <2>6. WrittenStands(m)
    BY <1>1, <1>3, <1>6, <1>12, <2>4, <2>5 DEF WrittenStands
  <2>7. DoneIsFound(m)
    <3> SUFFICES ASSUME NEW k \in DOMAIN night, NEW id \in DOMAIN m.rows, k < m.run.group,
                        IsProposed(m, night[k].actor, night[k].workbook, id)
                 PROVE  Finds(m.run, night[k].actor, night[k].workbook, id)
      BY <1>12 DEF DoneIsFound
    <3>1. k <= at
      BY <1>4, <1>12
    <3> QED
      BY <1>3, <1>7, <1>11, <2>5, <3>1
  <2>8. MinedStands(m)
    BY <1>4, <1>12, NothingMined
  <2> QED
    BY <1>8, <1>9, <2>2, <2>3, <2>6, <2>7, <2>8 DEF IsSound
<1>13. ASSUME ~(at < Len(night)), m.mined = night, m.run = T!Idle
       PROVE  IsSound(m)
  <2>1. m.run.phase = "idle" /\ m.run.stale = {} /\ m.run.groups = <<>>
    BY <1>13 DEF T!Idle
  <2>2. IsRunning(m)
    BY <2>1 DEF IsRunning
  <2>3. AreAnswered(m)
    BY <1>1, <1>3, <2>1 DEF AreAnswered
  <2>4. WrittenStands(m) /\ DoneIsFound(m)
    <3>1. m.run.phase # "delete"
      BY <2>1
    <3> QED
      BY <2>1, <3>1, NothingWritten
  <2>5. MinedStands(m)
    <3> SUFFICES ASSUME NEW g \in ToSet(night)
                 PROVE  /\ \A id \in T!Ids(g) :
                            /\ T!Owns(m, g.actor, id)
                            /\ m.rows[id].status = "proposed" => IsFoundIn(night, g.actor, m.rows[id].workbook, id)
                        /\ \A id \in T!Listed(m, g.actor, g.workbook) :
                            m.rows[id].status = "proposed" => IsFoundIn(night, g.actor, g.workbook, id)
      BY <1>13 DEF MinedStands
    <3>1. PICK k \in DOMAIN night : g = night[k]
      BY RunElements
    <3>2. k <= at
      BY <1>4, <1>13
    <3>3. ASSUME NEW id \in T!Ids(g)
          PROVE  /\ T!Owns(m, g.actor, id)
                 /\ m.rows[id].status = "proposed" => IsFoundIn(night, g.actor, m.rows[id].workbook, id)
      <4>1. PICK i \in DOMAIN night[k].ids : night[k].ids[i] = id
        BY <3>1, <3>3, RunElements
      <4>2. IsUpserted(st.run, k, i)
        BY <1>10, <3>2
      <4>3. /\ T!Owns(st, night[k].actor, id)
            /\ st.rows[id].status = "proposed" => Finds(st.run, night[k].actor, st.rows[id].workbook, id)
        BY <1>1, <4>1, <4>2 DEF WrittenStands
      <4>4. st.rows[id].status = "proposed" => IsFoundIn(night, night[k].actor, st.rows[id].workbook, id)
        BY <4>3, FindsIsFoundIn
      <4> QED
        BY <1>3, <1>6, <3>1, <4>3, <4>4
    <3>4. ASSUME NEW id \in T!Listed(m, g.actor, g.workbook), m.rows[id].status = "proposed"
          PROVE  IsFoundIn(night, g.actor, g.workbook, id)
      <4>1. id \in DOMAIN st.rows /\ IsProposed(st, night[k].actor, night[k].workbook, id)
        BY <1>3, <3>1, <3>4 DEF T!Listed, T!Owns, IsProposed
      <4>2. Finds(st.run, night[k].actor, night[k].workbook, id)
        BY <1>11, <3>2, <4>1
      <4>3. IsFoundIn(night, night[k].actor, night[k].workbook, id)
        BY <4>2, FindsIsFoundIn
      <4> QED
        BY <3>1, <4>3
    <3> QED
      BY <3>3, <3>4
  <2> QED
    BY <1>8, <1>9, <2>2, <2>3, <2>4, <2>5 DEF IsSound
<1> QED
  BY <1>2, <1>12, <1>13

(* A proposal is answered. *)
LEMMA FeedbackIsSound ==
    ASSUME NEW st, IsSound(st), NEW m \in T!Feedback(st)
    PROVE  IsSound(m)
<1>1. /\ IsStore(st) /\ IsRunning(st) /\ AreAnswered(st) /\ AreSourced(st)
      /\ WrittenStands(st) /\ DoneIsFound(st) /\ MinedStands(st)
  BY DEF IsSound
<1>2. /\ DOMAIN m = StoreFields /\ m.of = "store"
      /\ m.run = st.run /\ m.mined = st.mined /\ m.failed = st.failed /\ DOMAIN m.rows = DOMAIN st.rows
      /\ \A z \in DOMAIN st.rows :
            IsRow(m.rows[z]) /\ m.rows[z].actor = st.rows[z].actor /\ m.rows[z].workbook = st.rows[z].workbook
  BY <1>1, FeedbackIs
<1>3. PICK id \in DOMAIN st.rows, verdict \in T!Verdicts :
        /\ m.rows[id].status = verdict /\ \A z \in DOMAIN st.rows \ {id} : m.rows[z] = st.rows[z]
        /\ DOMAIN m.answers = DOMAIN st.answers \union {id} /\ m.answers[id] = verdict
        /\ \A z \in DOMAIN st.answers \ {id} : m.answers[z] = st.answers[z]
        /\ m.late = IF id \in st.run.stale THEN st.late \union {id} ELSE st.late
  BY <1>1, FeedbackIs
<1>4. verdict # "proposed"
  BY DEF T!Verdicts
<1>5. T!Group(m) = T!Group(st) /\ IdAt(m) = IdAt(st)
  BY <1>2 DEF T!Group, IdAt
<1>6. \A actor, z : T!Owns(m, actor, z) <=> T!Owns(st, actor, z)
  BY <1>2 DEF T!Owns
<1>7. \A z \in DOMAIN st.rows : m.rows[z].status = "proposed" => st.rows[z].status = "proposed"
  BY <1>3, <1>4
<1>8. \A actor, workbook, z : IsProposed(m, actor, workbook, z) => IsProposed(st, actor, workbook, z)
  <2> SUFFICES ASSUME NEW actor, NEW workbook, NEW z, IsProposed(m, actor, workbook, z)
               PROVE  IsProposed(st, actor, workbook, z)
    OBVIOUS
  <2>1. z \in DOMAIN st.rows
    BY <1>6 DEF IsProposed, T!Owns
  <2> QED
    BY <1>2, <1>6, <1>7, <2>1 DEF IsProposed
<1>9. IsStore(m)
  BY <1>1, <1>2 DEF IsStore
<1>10. IsRunning(m)
  <2>1. ASSUME st.run.phase = "write", st.run.seen \in T!Verdicts
        PROVE  m.rows[IdAt(m)].status \in T!Verdicts
    <3>1. T!Owns(st, T!Group(st).actor, IdAt(st)) /\ st.rows[IdAt(st)].status \in T!Verdicts
      BY <1>1, <2>1 DEF IsRunning, T!Verdicts
    <3>2. IdAt(st) \in DOMAIN st.rows
      BY <3>1 DEF T!Owns
    <3> QED
      BY <1>3, <1>5, <3>1, <3>2
  <2>2. st.run.phase = "write" =>
            (m.run.seen = "none" <=> ~T!Owns(m, T!Group(m).actor, IdAt(m)))
    BY <1>1, <1>2, <1>5, <1>6 DEF IsRunning
  <2> QED
    BY <1>1, <1>2, <1>5, <2>1, <2>2 DEF IsRunning
<1>11. AreAnswered(m)
  <2>1. ASSUME NEW d \in DOMAIN m.answers \ m.late
        PROVE  d \in DOMAIN m.rows /\ m.rows[d].status = m.answers[d]
    <3>1. CASE d = id
      BY <1>2, <1>3, <3>1
    <3>2. CASE d # id
      <4>1. d \in DOMAIN st.answers \ st.late
        BY <1>3, <2>1, <3>2
      <4>2. d \in DOMAIN st.rows /\ st.rows[d].status = st.answers[d]
        BY <1>1, <4>1 DEF AreAnswered
      <4> QED
        BY <1>2, <1>3, <3>2, <4>1, <4>2
    <3> QED
      BY <3>1, <3>2
  <2>2. \A d \in DOMAIN m.answers : m.answers[d] \in T!Verdicts
    BY <1>1, <1>3 DEF AreAnswered
  <2>3. \A d \in DOMAIN m.rows : m.rows[d].status # "proposed" => d \in DOMAIN m.answers
    BY <1>1, <1>2, <1>3 DEF AreAnswered
  <2>4. \A d \in m.run.stale : d \in DOMAIN m.answers => d \in m.late
    BY <1>1, <1>2, <1>3 DEF AreAnswered
  <2> QED
    BY <2>1, <2>2, <2>3, <2>4 DEF AreAnswered
<1>12. AreSourced(m)
  BY <1>1, <1>2 DEF AreSourced
<1>13. WrittenStands(m)
  <2> DEFINE night == st.run.groups
  <2> SUFFICES ASSUME NEW k \in DOMAIN night, NEW i \in DOMAIN night[k].ids, IsUpserted(st.run, k, i),
                      NEW z, z = night[k].ids[i], NEW actor, actor = night[k].actor
               PROVE  /\ T!Owns(m, actor, z)
                      /\ m.rows[z].status = "proposed" => Finds(st.run, actor, m.rows[z].workbook, z)
                      /\ actor = T!Group(m).actor => z \notin st.run.stale
    BY <1>2 DEF WrittenStands
  <2>1. /\ T!Owns(st, actor, z)
        /\ st.rows[z].status = "proposed" => Finds(st.run, actor, st.rows[z].workbook, z)
        /\ actor = T!Group(st).actor => z \notin st.run.stale
    BY <1>1 DEF WrittenStands
  <2>2. z \in DOMAIN st.rows
    BY <2>1 DEF T!Owns
  <2> QED
    BY <1>2, <1>5, <1>6, <1>7, <2>1, <2>2
<1>14. DoneIsFound(m)
  BY <1>1, <1>2, <1>8 DEF DoneIsFound
<1>15. MinedStands(m)
  <2> SUFFICES ASSUME NEW g \in ToSet(st.mined)
               PROVE  /\ \A z \in T!Ids(g) :
                        /\ T!Owns(m, g.actor, z)
                        /\ m.rows[z].status = "proposed" => IsFoundIn(st.mined, g.actor, m.rows[z].workbook, z)
                      /\ \A z \in T!Listed(m, g.actor, g.workbook) :
                        m.rows[z].status = "proposed" => IsFoundIn(st.mined, g.actor, g.workbook, z)
    BY <1>2 DEF MinedStands
  <2>1. ASSUME NEW z \in T!Ids(g)
        PROVE  /\ T!Owns(m, g.actor, z)
               /\ m.rows[z].status = "proposed" => IsFoundIn(st.mined, g.actor, m.rows[z].workbook, z)
    <3>1. /\ T!Owns(st, g.actor, z)
          /\ st.rows[z].status = "proposed" => IsFoundIn(st.mined, g.actor, st.rows[z].workbook, z)
      BY <1>1 DEF MinedStands
    <3>2. z \in DOMAIN st.rows
      BY <3>1 DEF T!Owns
    <3> QED
      BY <1>2, <1>6, <1>7, <3>1, <3>2
  <2>2. ASSUME NEW z \in T!Listed(m, g.actor, g.workbook), m.rows[z].status = "proposed"
        PROVE  IsFoundIn(st.mined, g.actor, g.workbook, z)
    <3>1. z \in DOMAIN st.rows /\ z \in T!Listed(st, g.actor, g.workbook)
      BY <1>2 DEF T!Listed, T!Owns
    <3>2. st.rows[z].status = "proposed"
      BY <1>7, <2>2, <3>1
    <3> QED
      BY <1>1, <3>1, <3>2 DEF MinedStands
  <2> QED
    BY <2>1, <2>2
<1> QED
  BY <1>9, <1>10, <1>11, <1>12, <1>13, <1>14, <1>15 DEF IsSound

(* A table that is new is sound, and one that is used stays so. *)
LEMMA StoreIsSound ==
    /\ IsSound(T!NewStore)
    /\ \A st : IsSound(st) => \A m \in T!AfterStatement(st) : IsSound(m)
<1>1. IsSound(T!NewStore)
  <2> DEFINE st == T!NewStore
  <2>1. /\ DOMAIN st = StoreFields /\ st.of = "store" /\ st.rows = <<>> /\ st.run = T!Idle
        /\ st.answers = <<>> /\ st.late = {} /\ st.mined = <<>>
    BY DEF T!NewStore, StoreFields
  <2>2. st.failed = FALSE
    BY DEF T!NewStore
  <2>3. /\ DOMAIN T!Idle = RunFields /\ T!Idle.phase = "idle" /\ T!Idle.stale = {} /\ T!Idle.groups = <<>>
    BY DEF T!Idle, RunFields
  <2> HIDE DEF st
  <2>4. DOMAIN st.rows = {} /\ DOMAIN st.answers = {}
    BY <2>1
  <2>5. IsStore(st)
    BY <2>1, <2>3, <2>4 DEF IsStore
  <2>6. IsRunning(st)
    BY <2>1, <2>3 DEF IsRunning
  <2>7. AreAnswered(st)
    BY <2>1, <2>3, <2>4 DEF AreAnswered
  <2>8. AreSourced(st)
    BY <2>2, <2>4 DEF AreSourced
  <2>9. WrittenStands(st) /\ DoneIsFound(st)
    <3>1. st.run.phase # "delete" /\ st.run.stale = {} /\ st.run.groups = <<>>
      BY <2>1, <2>3
    <3> QED
      BY <3>1, NothingWritten
  <2>10. MinedStands(st)
    BY <2>1, NothingMined
  <2> QED
    BY <2>5, <2>6, <2>7, <2>8, <2>9, <2>10 DEF IsSound, st
<1>2. ASSUME NEW st, IsSound(st), NEW m \in T!AfterStatement(st)
      PROVE  IsSound(m)
  <2>1. \/ m \in T!Begin(st) \/ m \in T!Look(st) \/ m \in T!Write(st) \/ m \in T!Select(st)
        \/ m \in T!Delete(st) \/ m \in T!Proceed(st) \/ m \in T!Feedback(st)
    BY DEF T!AfterStatement
  <2> QED
    BY <1>2, <2>1, BeginIsSound, LookIsSound, WriteIsSound, SelectIsSound, DeleteIsSound,
       ProceedIsSound, FeedbackIsSound
<1> QED
  BY <1>1, <1>2

(* Whenever there is a table of routines, it is sound. *)
StoreStaysSound == trial.of = "store" => IsSound(trial)

(* A step of a ledger keeps it sound. *)
LEMMA StoreKeptSound ==
    ASSUME IsNamed, StoreStaysSound, LedgerStep
    PROVE  StoreStaysSound'
<1> SUFFICES ASSUME trial'.of = "store" PROVE IsSound(trial')
  BY DEF StoreStaysSound
<1>1. OpenStore \/ UseStore
  BY LedgersStayApart
<1>2. CASE OpenStore
  BY <1>2, StoreIsSound DEF OpenStore
<1>3. CASE UseStore
  <2>1. IsSound(trial) /\ trial' \in T!AfterStatement(trial)
    BY <1>3 DEF UseStore, StoreStaysSound
  <2> QED
    BY <2>1, StoreIsSound
<1> QED
  BY <1>1, <1>2, <1>3

(* A sound table is what AnswersStay asks for. *)
LEMMA SoundStoreAnswers ==
    ASSUME StoreStaysSound
    PROVE  AnswersStay
<1> SUFFICES ASSUME trial.of = "store" PROVE AnswersStay
  BY DEF AnswersStay, Trying
<1>1. AreAnswered(trial) /\ AreSourced(trial) /\ MinedStands(trial)
  BY DEF StoreStaysSound, IsSound
<1>2. /\ \A id \in DOMAIN trial.answers \ trial.late :
            id \in DOMAIN trial.rows /\ trial.rows[id].status = trial.answers[id]
      /\ \A id \in DOMAIN trial.rows : trial.rows[id].status # "proposed" => id \in DOMAIN trial.answers
  BY <1>1 DEF AreAnswered
<1>3. trial.failed => Shared
  BY <1>1 DEF AreSourced
<1> QED
  BY <1>1, <1>2, <1>3 DEF AnswersStay, MinedStands, IsFoundIn, Shared

----------------------------------------------------------------------------
(* A page.                                                                  *)

IsId(x) == x \in Nat \X (0..LastRandom)

EventFields == {"id", "session", "seq", "ts"}
PageFields == {"of", "ulid", "session", "seq", "active", "events"}

IsEvent(e) == DOMAIN e = EventFields /\ IsId(e.id) /\ IsId(e.session) /\ e.seq \in Nat /\ e.ts \in Nat

IsPage(page) ==
    /\ DOMAIN page = PageFields /\ page.of = "page"
    /\ IsId(page.ulid) /\ IsId(page.session) /\ page.seq \in Nat /\ page.active \in Nat
    /\ Len(page.events) \in Nat /\ page.events = [k \in 1..Len(page.events) |-> page.events[k]]
    /\ \A k \in 1..Len(page.events) : IsEvent(page.events[k])

(* Neither an id nor a place in a session is given twice: what a page has   *)
(* recorded comes before what it will.                                      *)
AreStamped(page) ==
    LET events == page.events IN
    /\ page.session = page.ulid \/ K!Ascends(page.session, page.ulid)
    /\ \A k \in 1..Len(events) :
        /\ events[k].id = page.ulid \/ K!Ascends(events[k].id, page.ulid)
        /\ K!Ascends(events[k].session, page.session) \/ (events[k].session = page.session /\ events[k].seq <= page.seq)
    /\ \A i, j \in 1..Len(events) : i < j =>
        /\ K!Ascends(events[i].id, events[j].id)
        /\ K!BySession(events[i], events[j])

(* The session changes where there was a long gap, and only there.          *)
AreSplit(page) ==
    LET events == page.events IN
    /\ events # <<>> => page.active = events[Len(events)].ts /\ page.session = events[Len(events)].session
    /\ \A k \in 1..(Len(events) - 1) :
        events[k + 1].session = events[k].session <=> events[k + 1].ts - events[k].ts <= SessionIdle

IsOrderly(page) == IsPage(page) /\ AreStamped(page) /\ AreSplit(page)

(* Ids are in one order. *)
LEMMA IdsAreOrdered ==
    /\ \A a, b : IsId(a) /\ IsId(b) => a = b \/ K!Ascends(a, b) \/ K!Ascends(b, a)
    /\ \A a, b : IsId(a) /\ IsId(b) /\ K!Ascends(a, b) => a # b /\ ~K!Ascends(b, a)
    /\ \A a, b, c : IsId(a) /\ IsId(b) /\ IsId(c) /\ K!Ascends(a, b) /\ K!Ascends(b, c) => K!Ascends(a, c)
<1>1. LastRandom \in Nat
  BY StampsAssumption
<1>2. \A a : IsId(a) => a = <<a[1], a[2]>> /\ a[1] \in Nat /\ a[2] \in Nat
  BY <1>1 DEF IsId
<1>3. \A a, b : IsId(a) /\ IsId(b) /\ a[1] = b[1] /\ a[2] = b[2] => a = b
  BY <1>2
<1> QED
  BY <1>2, <1>3 DEF K!Ascends

(* An id that is made comes after the last. *)
LEMMA UlidAscends ==
    ASSUME NEW last, last = <<-1, 0>> \/ IsId(last), NEW now \in Nat, NEW draw \in K!Draws
    PROVE  IsId(K!Ulid(last, now, draw)) /\ K!Ascends(last, K!Ulid(last, now, draw))
<1> DEFINE t == last[1]
           r == last[2]
           later == IF now > t THEN now ELSE t + 1
<1>1. LastRandom \in Nat /\ draw \in 0..LastRandom
  BY StampsAssumption DEF K!Draws
<1>2. t \in Int /\ t >= -1 /\ r \in 0..LastRandom
  BY <1>1 DEF IsId
<1> HIDE DEF t, r
<1>3. CASE now = t /\ r < LastRandom
  <2>1. K!Ulid(last, now, draw) = <<now, r + 1>>
    BY <1>3 DEF K!Ulid, t, r
  <2>2. IsId(<<now, r + 1>>)
    BY <1>1, <1>2, <1>3 DEF IsId
  <2>3. K!Ascends(last, <<now, r + 1>>)
    <3>1. t = now /\ r < r + 1
      BY <1>1, <1>2, <1>3
    <3> QED
      BY <3>1 DEF K!Ascends, t, r
  <2> QED
    BY <2>1, <2>2, <2>3
<1>4. CASE ~(now = t /\ r < LastRandom)
  <2>1. K!Ulid(last, now, draw) = <<later, draw>>
    BY <1>4 DEF K!Ulid, t, r
  <2>2. later \in Nat /\ t < later
    BY <1>2
  <2>3. IsId(<<later, draw>>)
    BY <1>1, <2>2 DEF IsId
  <2>4. K!Ascends(last, <<later, draw>>)
    BY <2>2 DEF K!Ascends, t
  <2> QED
    BY <2>1, <2>3, <2>4
<1> QED
  BY <1>3, <1>4

(* A page that is new has given the id of its session, and no other.        *)
LEMMA NewPageIsOrderly ==
    ASSUME NEW page \in K!NewPages
    PROVE  IsOrderly(page)
<1>1. PICK now \in Readings, draw \in K!Draws :
        page = LET id == K!Ulid(<<-1, 0>>, now, draw) IN
               [of |-> "page", ulid |-> id, session |-> id, seq |-> 0, active |-> now, events |-> <<>>]
  BY DEF K!NewPages
<1> DEFINE id == K!Ulid(<<-1, 0>>, now, draw)
<1>2. now \in Nat
  BY StampsAssumption
<1>3. IsId(id)
  BY <1>2, UlidAscends
<1> HIDE DEF id
<1>4. page = [of |-> "page", ulid |-> id, session |-> id, seq |-> 0, active |-> now, events |-> <<>>]
  BY <1>1 DEF id
<1>5. IsPage(page)
  BY <1>2, <1>3, <1>4 DEF IsPage, PageFields
<1>6. AreStamped(page)
  BY <1>4 DEF AreStamped
<1>7. AreSplit(page)
  BY <1>4 DEF AreSplit
<1> QED
  BY <1>5, <1>6, <1>7 DEF IsOrderly

(* The stamps of the next event. *)
IsRotated(page, now) == now - page.active > SessionIdle
NextSession(page, now, draws) == IF IsRotated(page, now) THEN K!Ulid(page.ulid, now, draws[1]) ELSE page.session
NextSeq(page, now) == IF IsRotated(page, now) THEN 1 ELSE page.seq + 1
NextId(page, now, draws) ==
    K!Ulid(IF IsRotated(page, now) THEN NextSession(page, now, draws) ELSE page.ulid, now, draws[2])
NextEvent(page, now, draws) ==
    [id |-> NextId(page, now, draws), session |-> NextSession(page, now, draws), seq |-> NextSeq(page, now), ts |-> now]

(* What a page is after an event. *)
LEMMA RecordedIs ==
    ASSUME NEW page, IsPage(page), NEW now \in Readings, NEW draws \in K!Draws \X K!Draws
    PROVE  LET m == K!Recorded(page, now, draws)
               n == Len(page.events)
           IN /\ DOMAIN m = PageFields /\ m.of = "page"
              /\ m.ulid = NextId(page, now, draws) /\ m.session = NextSession(page, now, draws)
              /\ m.seq = NextSeq(page, now) /\ m.active = now
              /\ Len(m.events) = n + 1 /\ m.events = [k \in 1..(n + 1) |-> m.events[k]]
              /\ \A k \in 1..n : m.events[k] = page.events[k]
              /\ m.events[n + 1] = NextEvent(page, now, draws)
<1> DEFINE m == K!Recorded(page, now, draws)
           n == Len(page.events)
           e == NextEvent(page, now, draws)
<1>1. m = [page EXCEPT !.ulid = NextId(page, now, draws), !.session = NextSession(page, now, draws),
                       !.seq = NextSeq(page, now), !.active = now, !.events = Append(@, e)]
  BY DEF K!Recorded, NextId, NextSession, NextSeq, NextEvent, IsRotated
<1>2. DOMAIN page = PageFields /\ page.of = "page" /\ n \in Nat /\ page.events = [k \in 1..n |-> page.events[k]]
  BY DEF IsPage
<1> HIDE DEF e, m
<1>3. /\ DOMAIN m = PageFields /\ m.of = "page"
      /\ m.ulid = NextId(page, now, draws) /\ m.session = NextSession(page, now, draws)
      /\ m.seq = NextSeq(page, now) /\ m.active = now
  BY <1>1, <1>2 DEF PageFields
<1>4. m.events = Append(page.events, e)
  BY <1>1, <1>2 DEF PageFields
<1>5. page.events \in Seq({page.events[k] : k \in 1..n} \union {e})
  <2> DEFINE S == {page.events[k] : k \in 1..n} \union {e}
  <2>1. page.events \in [1..n -> S]
    BY <1>2
  <2> QED
    BY <1>2, <2>1
<1>6. /\ Len(m.events) = n + 1 /\ m.events = [k \in 1..(n + 1) |-> m.events[k]]
      /\ \A k \in 1..n : m.events[k] = page.events[k]
      /\ m.events[n + 1] = e
  BY <1>2, <1>4, <1>5
<1> QED
  BY <1>3, <1>6 DEF e, m

(* The stamps of an event come after those there are; its session is new    *)
(* exactly after a long gap.                                                *)
LEMMA StampsMoveOn ==
    ASSUME NEW page, IsPage(page), AreStamped(page),
           NEW now \in Readings, NEW draws \in K!Draws \X K!Draws
    PROVE  LET s == NextSession(page, now, draws)
               id == NextId(page, now, draws)
           IN /\ IsId(s) /\ IsId(id) /\ K!Ascends(s, id) /\ K!Ascends(page.ulid, id)
              /\ IF IsRotated(page, now) THEN K!Ascends(page.session, s) ELSE s = page.session
<1> DEFINE s == NextSession(page, now, draws)
           id == NextId(page, now, draws)
<1>1. now \in Nat /\ draws[1] \in K!Draws /\ draws[2] \in K!Draws
  BY StampsAssumption
<1>2. IsId(page.ulid) /\ IsId(page.session)
  BY DEF IsPage
<1>3. page.session = page.ulid \/ K!Ascends(page.session, page.ulid)
  BY DEF AreStamped
<1>4. CASE IsRotated(page, now)
  <2>1. s = K!Ulid(page.ulid, now, draws[1]) /\ id = K!Ulid(s, now, draws[2])
    BY <1>4 DEF NextSession, NextId
  <2> HIDE DEF s, id
  <2>2. IsId(s) /\ K!Ascends(page.ulid, s)
    BY <1>1, <1>2, <2>1, UlidAscends
  <2>3. IsId(id) /\ K!Ascends(s, id)
    BY <1>1, <2>1, <2>2, UlidAscends
  <2>4. K!Ascends(page.ulid, id) /\ K!Ascends(page.session, s)
    BY <1>2, <1>3, <2>2, <2>3, IdsAreOrdered
  <2> QED
    BY <1>4, <2>2, <2>3, <2>4 DEF s, id
<1>5. CASE ~IsRotated(page, now)
  <2>1. s = page.session /\ id = K!Ulid(page.ulid, now, draws[2])
    BY <1>5 DEF NextSession, NextId
  <2> HIDE DEF s, id
  <2>2. IsId(id) /\ K!Ascends(page.ulid, id)
    BY <1>1, <1>2, <2>1, UlidAscends
  <2>3. K!Ascends(s, id)
    BY <1>2, <1>3, <2>1, <2>2, IdsAreOrdered
  <2> QED
    BY <1>2, <1>5, <2>1, <2>2, <2>3 DEF s, id
<1> QED
  BY <1>4, <1>5

(* A page stays orderly when an event is recorded. *)
LEMMA PageStaysOrderly ==
    ASSUME NEW page, IsOrderly(page), NEW m \in K!AfterEvent(page)
    PROVE  IsOrderly(m)
<1>1. PICK now \in Readings, draws \in K!Draws \X K!Draws : m = K!Recorded(page, now, draws)
  BY DEF K!AfterEvent
<1>2. IsPage(page) /\ AreStamped(page) /\ AreSplit(page)
  BY DEF IsOrderly
<1> DEFINE n == Len(page.events)
           s == NextSession(page, now, draws)
           id == NextId(page, now, draws)
           q == NextSeq(page, now)
           old == page.events
           new == m.events
<1>3. /\ DOMAIN m = PageFields /\ m.of = "page" /\ m.ulid = id /\ m.session = s /\ m.seq = q /\ m.active = now
      /\ Len(new) = n + 1 /\ new = [k \in 1..(n + 1) |-> new[k]]
      /\ \A k \in 1..n : new[k] = old[k]
      /\ new[n + 1] = NextEvent(page, now, draws)
  BY <1>1, <1>2, RecordedIs
<1>4. /\ IsId(s) /\ IsId(id) /\ K!Ascends(s, id) /\ K!Ascends(page.ulid, id)
      /\ IF IsRotated(page, now) THEN K!Ascends(page.session, s) ELSE s = page.session
  BY <1>2, StampsMoveOn
<1>5. /\ n \in Nat /\ page.seq \in Nat /\ page.active \in Nat /\ IsId(page.ulid) /\ IsId(page.session)
      /\ \A k \in 1..n : IsEvent(old[k])
  BY <1>2 DEF IsPage
<1>6. now \in Nat /\ q \in Nat /\ (q = page.seq + 1 \/ IsRotated(page, now))
  BY <1>5, StampsAssumption DEF NextSeq
<1>7. LET e == new[n + 1] IN
      DOMAIN e = EventFields /\ e.id = id /\ e.session = s /\ e.seq = q /\ e.ts = now
  BY <1>3 DEF NextEvent, EventFields
<1> HIDE DEF n, s, id, q
<1>8. \A k \in 1..(n + 1) : k = n + 1 \/ k \in 1..n
  BY <1>5
<1>9. IsPage(m)
  <2>1. \A k \in 1..(n + 1) : IsEvent(new[k])
    BY <1>3, <1>4, <1>5, <1>6, <1>7, <1>8 DEF IsEvent
  <2>2. Len(new) \in Nat
    BY <1>3, <1>5
  <2> QED
    BY <1>3, <1>4, <1>6, <2>1, <2>2 DEF IsPage
<1>10. \A k \in 1..n :
        /\ K!Ascends(old[k].id, id)
        /\ K!Ascends(old[k].session, s) \/ (old[k].session = s /\ old[k].seq < q)
  <2> SUFFICES ASSUME NEW k \in 1..n
               PROVE  /\ K!Ascends(old[k].id, id)
                      /\ K!Ascends(old[k].session, s) \/ (old[k].session = s /\ old[k].seq < q)
    OBVIOUS
  <2>1. IsId(old[k].id) /\ IsId(old[k].session) /\ old[k].seq \in Nat
    BY <1>5 DEF IsEvent
  <2>2. /\ old[k].id = page.ulid \/ K!Ascends(old[k].id, page.ulid)
        /\ \/ K!Ascends(old[k].session, page.session)
           \/ old[k].session = page.session /\ old[k].seq <= page.seq
    BY <1>2 DEF AreStamped, n
  <2>3. K!Ascends(old[k].id, id)
    BY <1>4, <1>5, <2>1, <2>2, IdsAreOrdered
  <2>4. CASE IsRotated(page, now)
    BY <1>4, <1>5, <2>1, <2>2, <2>3, <2>4, IdsAreOrdered
  <2>5. CASE ~IsRotated(page, now)
    BY <1>4, <1>5, <1>6, <2>1, <2>2, <2>3, <2>5
  <2> QED
    BY <2>4, <2>5
<1>11. AreStamped(m)
  <2>1. \A k \in 1..(n + 1) :
        /\ new[k].id = m.ulid \/ K!Ascends(new[k].id, m.ulid)
        /\ K!Ascends(new[k].session, m.session) \/ (new[k].session = m.session /\ new[k].seq <= m.seq)
    <3> SUFFICES ASSUME NEW k \in 1..(n + 1)
                 PROVE  /\ new[k].id = m.ulid \/ K!Ascends(new[k].id, m.ulid)
                        /\ K!Ascends(new[k].session, m.session) \/ (new[k].session = m.session /\ new[k].seq <= m.seq)
      OBVIOUS
    <3>1. CASE k = n + 1
      BY <1>3, <1>6, <1>7, <3>1
    <3>2. CASE k \in 1..n
      <4>1. new[k] = old[k] /\ old[k].seq \in Nat
        BY <1>3, <1>5, <3>2 DEF IsEvent
      <4> QED
        BY <1>3, <1>6, <1>10, <3>2, <4>1
    <3> QED
      BY <1>8, <3>1, <3>2
  <2>2. \A i, j \in 1..(n + 1) : i < j => K!Ascends(new[i].id, new[j].id) /\ K!BySession(new[i], new[j])
    <3> SUFFICES ASSUME NEW i \in 1..(n + 1), NEW j \in 1..(n + 1), i < j
                 PROVE  K!Ascends(new[i].id, new[j].id) /\ K!BySession(new[i], new[j])
      OBVIOUS
    <3>1. i \in 1..n /\ new[i] = old[i]
      <4>1. n \in Nat
        BY <1>5
      <4>2. i \in 1..n
        BY <4>1
      <4> QED
        BY <1>3, <4>2
    <3>2. CASE j = n + 1
      BY <1>7, <1>10, <3>1, <3>2 DEF K!BySession
    <3>3. CASE j \in 1..n
      <4>1. K!Ascends(old[i].id, old[j].id) /\ K!BySession(old[i], old[j])
        BY <1>2, <3>1, <3>3 DEF AreStamped, n
      <4> QED
        BY <1>3, <3>1, <3>3, <4>1
    <3> QED
      BY <1>8, <3>2, <3>3
  <2> QED
    BY <1>3, <1>4, <2>1, <2>2 DEF AreStamped
<1>12. AreSplit(m)
  <2>1. \A k \in 1..n : new[k + 1].session = new[k].session <=> new[k + 1].ts - new[k].ts <= SessionIdle
    <3> SUFFICES ASSUME NEW k \in 1..n
                 PROVE  new[k + 1].session = new[k].session <=> new[k + 1].ts - new[k].ts <= SessionIdle
      OBVIOUS
    <3>1. CASE k = n
      <4>1. old # <<>> /\ n = Len(old)
        BY <1>5, <3>1 DEF n
      <4>2. page.active = old[n].ts /\ page.session = old[n].session
        BY <1>2, <4>1 DEF AreSplit
      <4>3. new[k] = old[n] /\ new[k + 1].session = s /\ new[k + 1].ts = now
        BY <1>3, <1>7, <3>1
      <4>4. SessionIdle \in Nat
        BY StampsAssumption
      <4>5. IsRotated(page, now) <=> ~(now - page.active <= SessionIdle)
        BY <1>5, <1>6, <4>4 DEF IsRotated
      <4>6. IsRotated(page, now) => s # page.session
        BY <1>4, <1>5, IdsAreOrdered
      <4> QED
        BY <1>4, <4>2, <4>3, <4>5, <4>6
    <3>2. CASE k # n
      <4>1. k \in 1..(n - 1) /\ k + 1 \in 1..n
        BY <1>5, <3>2
      <4>2. old[k + 1].session = old[k].session <=> old[k + 1].ts - old[k].ts <= SessionIdle
        BY <1>2, <4>1 DEF AreSplit, n
      <4> QED
        BY <1>3, <4>1, <4>2
    <3> QED
      BY <3>1, <3>2
  <2>2. (n + 1) - 1 = n
    BY <1>5
  <2> QED
    BY <1>3, <1>7, <2>1, <2>2 DEF AreSplit
<1> QED
  BY <1>9, <1>11, <1>12 DEF IsOrderly

----------------------------------------------------------------------------
(* Events in order.                                                         *)

(* Places that are dealt anew in ascending order stay as they are. *)
LEMMA AscendingIsSame ==
    ASSUME NEW n \in Nat, NEW p \in Bijection(1..n, 1..n),
           \A i, j \in 1..n : i < j => p[i] < p[j]
    PROVE  \A i \in 1..n : p[i] = i
<1> DEFINE Bad == {i \in 1..n : p[i] # i}
<1>1. /\ p \in [1..n -> 1..n] /\ \A i, j \in 1..n : p[i] = p[j] => i = j
      /\ \A i \in 1..n : \E j \in 1..n : p[j] = i
  BY DEF Bijection, Injection, Surjection, IsInjective
<1> SUFFICES ASSUME Bad # {} PROVE FALSE
  OBVIOUS
<1>2. Bad \subseteq Nat
  OBVIOUS
<1> HIDE DEF Bad
<1>3. PICK i \in Bad : \A j \in Bad : i <= j
  BY <1>2, LeastNumber
<1>4. i \in 1..n /\ p[i] # i /\ \A j \in 1..n : j < i => p[j] = j
  <2>1. i \in 1..n /\ p[i] # i
    BY <1>3 DEF Bad
  <2>2. ASSUME NEW j \in 1..n, j < i PROVE p[j] = j
    <3>1. j \notin Bad
      BY <1>2, <1>3, <2>1, <2>2
    <3> QED
      BY <3>1 DEF Bad
  <2> QED
    BY <2>1, <2>2
<1>5. p[i] > i
  <2>1. p[i] \in 1..n
    BY <1>1, <1>4
  <2> SUFFICES ASSUME p[i] < i PROVE FALSE
    BY <1>4, <2>1
  <2>2. p[p[i]] = p[i]
    BY <1>4, <2>1
  <2> QED
    BY <1>1, <1>4, <2>1, <2>2
<1>6. PICK j \in 1..n : p[j] = i
  BY <1>1, <1>4
<1>7. j > i
  BY <1>4, <1>6
<1>8. p[j] > p[i] /\ p[i] \in 1..n
  BY <1>1, <1>4, <1>7
<1> QED
  BY <1>4, <1>5, <1>6, <1>8

(* A dealing that keeps an order in which the places are already, changes   *)
(* nothing.                                                                 *)
LEMMA KeptIsSame ==
    ASSUME NEW n \in Nat, NEW p \in Bijection(1..n, 1..n), NEW R,
           \A i, j \in 1..n : i < j => <<i, j>> \in R,
           \A i, j \in 1..n : i < j => <<p[j], p[i]>> \notin R
    PROVE  \A i \in 1..n : p[i] = i
<1>1. p \in [1..n -> 1..n] /\ \A i, j \in 1..n : p[i] = p[j] => i = j
  BY DEF Bijection, Injection, IsInjective
<1>2. ASSUME NEW i \in 1..n, NEW j \in 1..n, i < j
      PROVE  p[i] < p[j]
  <2>1. p[i] \in 1..n /\ p[j] \in 1..n /\ p[i] # p[j]
    BY <1>1, <1>2
  <2>2. ~(p[j] < p[i])
    BY <1>2, <2>1
  <2> QED
    BY <2>1, <2>2
<1> QED
  BY <1>2, AscendingIsSame

(* Places may stay as they are. *)
LEMMA SameIsBijection ==
    ASSUME NEW n
    PROVE  [i \in 1..n |-> i] \in Bijection(1..n, 1..n)
BY DEF Bijection, Injection, Surjection, IsInjective

(* Places are dealt alike in every module. *)
LEMMA DealtAlike == \A X, Y : K!Bijection(X, Y) = Bijection(X, Y)
BY DEF K!Bijection, K!Injection, K!Surjection, K!IsInjective, Bijection, Injection, Surjection, IsInjective

(* Events whose sessions and places ascend are exported in their order. *)
LEMMA ExportedInOrder ==
    ASSUME NEW events, Len(events) \in Nat, events = [k \in 1..Len(events) |-> events[k]],
           \A k \in 1..Len(events) : IsEvent(events[k]),
           \A i, j \in 1..Len(events) : i < j => K!BySession(events[i], events[j])
    PROVE  K!Exported(events) = {events}
<1> DEFINE n == Len(events)
           R == {x \in (1..n) \X (1..n) : K!BySession(events[x[1]], events[x[2]])}
           Kept(p) == \A i, j \in 1..n : i < j => ~K!BySession(events[p[j]], events[p[i]])
           same == [i \in 1..n |-> i]
<1>1. K!Exported(events) = {[i \in 1..n |-> events[p[i]]] : p \in {p \in Bijection(1..n, 1..n) : Kept(p)}}
  BY DealtAlike DEF K!Exported, K!Ordered
<1>2. \A p \in Bijection(1..n, 1..n) : Kept(p) => [i \in 1..n |-> events[p[i]]] = events
  <2> SUFFICES ASSUME NEW p \in Bijection(1..n, 1..n), Kept(p) PROVE [i \in 1..n |-> events[p[i]]] = events
    OBVIOUS
  <2>1. p \in [1..n -> 1..n]
    BY DEF Bijection, Injection
  <2>2. \A i, j \in 1..n : i < j => <<i, j>> \in R
    OBVIOUS
  <2>3. \A i, j \in 1..n : i < j => <<p[j], p[i]>> \notin R
    BY <2>1
  <2> HIDE DEF n, R, Kept
  <2>4. \A i \in 1..n : p[i] = i
    BY <2>2, <2>3, KeptIsSame DEF n
  <2> QED
    BY <2>4 DEF n
<1>3. same \in Bijection(1..n, 1..n)
  BY SameIsBijection
<1>4. Kept(same)
  <2> SUFFICES ASSUME NEW i \in 1..n, NEW j \in 1..n, i < j
               PROVE  ~K!BySession(events[j], events[i])
    OBVIOUS
  <2>1. IsEvent(events[i]) /\ IsEvent(events[j]) /\ K!BySession(events[i], events[j])
    OBVIOUS
  <2> QED
    BY <2>1, IdsAreOrdered DEF IsEvent, K!BySession
<1>5. [i \in 1..n |-> events[same[i]]] = events
  OBVIOUS
<1> HIDE DEF n, Kept, same
<1> QED
  BY <1>1, <1>2, <1>3, <1>4, <1>5

(* So it is with events whose times ascend, and places where they do not. *)
LEMMA TimedInOrder ==
    ASSUME NEW events, Len(events) \in Nat, events = [k \in 1..Len(events) |-> events[k]],
           \A k \in 1..Len(events) : IsEvent(events[k]),
           \A i, j \in 1..Len(events) : i < j => K!ByTime(events[i], events[j])
    PROVE  K!Timed(events) = {events}
<1> DEFINE n == Len(events)
           R == {x \in (1..n) \X (1..n) : K!ByTime(events[x[1]], events[x[2]])}
           Kept(p) == \A i, j \in 1..n : i < j => ~K!ByTime(events[p[j]], events[p[i]])
           same == [i \in 1..n |-> i]
<1>1. K!Timed(events) = {[i \in 1..n |-> events[p[i]]] : p \in {p \in Bijection(1..n, 1..n) : Kept(p)}}
  BY DealtAlike DEF K!Timed, K!Ordered
<1>2. \A p \in Bijection(1..n, 1..n) : Kept(p) => [i \in 1..n |-> events[p[i]]] = events
  <2> SUFFICES ASSUME NEW p \in Bijection(1..n, 1..n), Kept(p) PROVE [i \in 1..n |-> events[p[i]]] = events
    OBVIOUS
  <2>1. p \in [1..n -> 1..n]
    BY DEF Bijection, Injection
  <2>2. \A i, j \in 1..n : i < j => <<i, j>> \in R
    OBVIOUS
  <2>3. \A i, j \in 1..n : i < j => <<p[j], p[i]>> \notin R
    BY <2>1
  <2> HIDE DEF n, R, Kept
  <2>4. \A i \in 1..n : p[i] = i
    BY <2>2, <2>3, KeptIsSame DEF n
  <2> QED
    BY <2>4 DEF n
<1>3. same \in Bijection(1..n, 1..n)
  BY SameIsBijection
<1>4. Kept(same)
  <2> SUFFICES ASSUME NEW i \in 1..n, NEW j \in 1..n, i < j
               PROVE  ~K!ByTime(events[j], events[i])
    OBVIOUS
  <2>1. IsEvent(events[i]) /\ IsEvent(events[j]) /\ K!ByTime(events[i], events[j])
    OBVIOUS
  <2> QED
    BY <2>1 DEF IsEvent, K!ByTime
<1>5. [i \in 1..n |-> events[same[i]]] = events
  OBVIOUS
<1> HIDE DEF n, Kept, same
<1> QED
  BY <1>1, <1>2, <1>3, <1>4, <1>5

(* In whatever order events of one time come, they are those events. *)
LEMMA TimedAreEvents ==
    ASSUME NEW events, Len(events) \in Nat, events = [k \in 1..Len(events) |-> events[k]],
           \A k \in 1..Len(events) : IsEvent(events[k]),
           NEW ordered \in K!Timed(events)
    PROVE  /\ Len(ordered) = Len(events) /\ ordered = [k \in 1..Len(events) |-> ordered[k]]
           /\ \A k \in 1..Len(events) : IsEvent(ordered[k])
<1> DEFINE n == Len(events)
<1>1. PICK p \in Bijection(1..n, 1..n) : ordered = [i \in 1..n |-> events[p[i]]]
  BY DealtAlike DEF K!Timed, K!Ordered
<1>2. p \in [1..n -> 1..n]
  BY DEF Bijection, Injection
<1>3. \A k \in 1..n : IsEvent(ordered[k])
  BY <1>1, <1>2
<1> QED
  BY <1>1, <1>3

----------------------------------------------------------------------------
(* The sessions the server derives.                                         *)

(* The sessions after each event. *)
IsDerivation(g, ordered) ==
    g = [n \in 0..Len(ordered) |-> IF n = 0 THEN <<>> ELSE K!With(g[n - 1], ordered[n])]

(* Events are taken one after the other. *)
LEMMA SessionsAreDerived ==
    ASSUME NEW ordered, Len(ordered) \in Nat
    PROVE  \E g : IsDerivation(g, ordered) /\ K!SessionsFor(ordered) = g[Len(ordered)]
<1> DEFINE Rec(g, m) == g = [n \in 0..m |-> IF n = 0 THEN <<>> ELSE K!With(g[n - 1], ordered[n])]
           Good == {m \in Nat : \E g : Rec(g, m)}
<1>1. 0 \in Good
  <2>1. Rec([n \in 0..0 |-> <<>>], 0)
    OBVIOUS
  <2> QED
    BY <2>1
<1>2. ASSUME NEW m \in Nat, m \in Good
      PROVE  m + 1 \in Good
  <2>1. PICK g : Rec(g, m)
    BY <1>2
  <2> DEFINE h == [n \in 0..(m + 1) |-> IF n = 0 THEN <<>> ELSE K!With(g[n - 1], ordered[n])]
  <2>2. \A n \in 0..m : h[n] = g[n]
    BY <2>1
  <2>3. \A n \in 0..(m + 1) : n # 0 => n - 1 \in 0..m /\ h[n - 1] = g[n - 1]
    <3>1. \A n \in 0..(m + 1) : n # 0 => n - 1 \in 0..m
      OBVIOUS
    <3> HIDE DEF h
    <3> QED
      BY <2>2, <3>1
  <2>4. Rec(h, m + 1)
    BY <2>3
  <2> HIDE DEF h
  <2>5. \E x : Rec(x, m + 1)
    BY <2>4
  <2> QED
    BY <2>5
<1>3. Len(ordered) \in Good
  <2> HIDE DEF Good
  <2>1. \A k \in 0..(Len(ordered) - 1) : k \in Good => k + 1 \in Good
    BY <1>2
  <2>2. 0..Len(ordered) \subseteq Good
    BY <1>1, <2>1, GoesOn
  <2> QED
    BY <2>2
<1>4. PICK g : Rec(g, Len(ordered))
  BY <1>3
<1> QED
  BY <1>4 DEF IsDerivation, K!SessionsFor

IsList(s) == Len(s) \in Nat /\ s = [i \in 1..Len(s) |-> s[i]]

(* A session is the run of the events from one place to another. *)
IsRun(session, ordered, from, to) ==
    /\ from < to /\ session.count = to - from
    /\ session.started = ordered[from + 1].ts /\ session.ended = ordered[to].ts
    /\ session.claimed = {ordered[k].session : k \in (from + 1)..to}
    /\ \A k \in (from + 1)..(to - 1) : ordered[k + 1].ts - ordered[k].ts <= SessionGap

(* Sessions are the runs of the first events between some places. *)
AreCut(sessions, ordered, cut, k) ==
    /\ cut \in [0..Len(sessions) -> 0..k] /\ cut[0] = 0 /\ cut[Len(sessions)] = k
    /\ \A i \in 1..Len(sessions) :
        /\ IsRun(sessions[i], ordered, cut[i - 1], cut[i])
        /\ i > 1 => sessions[i].started - sessions[i - 1].ended > SessionGap

(* An event that joins the last session goes on with its run. *)
LEMMA JoiningGoesOn ==
    ASSUME NEW session, NEW ordered, NEW from \in Nat, NEW k \in Nat, IsRun(session, ordered, from, k),
           ordered[k + 1].ts - session.ended <= SessionGap
    PROVE  IsRun(K!Joined(session, ordered[k + 1]), ordered, from, k + 1)
<1> DEFINE m == K!Joined(session, ordered[k + 1])
<1>1. /\ m.started = session.started /\ m.ended = ordered[k + 1].ts /\ m.count = session.count + 1
      /\ m.claimed = session.claimed \union {ordered[k + 1].session}
  BY DEF K!Joined
<1> HIDE DEF m
<1>2. from < k + 1 /\ m.count = (k + 1) - from
  BY <1>1 DEF IsRun
<1>3. m.claimed = {ordered[j].session : j \in (from + 1)..(k + 1)}
  <2>1. \A j \in (from + 1)..(k + 1) : j = k + 1 \/ j \in (from + 1)..k
    OBVIOUS
  <2>2. k + 1 \in (from + 1)..(k + 1) /\ (from + 1)..k \subseteq (from + 1)..(k + 1)
    BY <1>2
  <2>3. session.claimed = {ordered[j].session : j \in (from + 1)..k}
    BY DEF IsRun
  <2> QED
    BY <1>1, <2>1, <2>2, <2>3
<1>4. ASSUME NEW j \in (from + 1)..((k + 1) - 1)
      PROVE  ordered[j + 1].ts - ordered[j].ts <= SessionGap
  <2>1. CASE j = k
    BY <2>1 DEF IsRun
  <2>2. CASE j # k
    <3>1. j \in (from + 1)..(k - 1)
      BY <2>2
    <3> QED
      BY <3>1 DEF IsRun
  <2> QED
    BY <2>1, <2>2
<1> QED
  BY <1>1, <1>2, <1>3, <1>4 DEF IsRun, m

(* An event by itself is a run. *)
LEMMA BeginningIsRun ==
    ASSUME NEW ordered, NEW k \in Nat
    PROVE  IsRun(K!Begun(ordered[k + 1]), ordered, k, k + 1)
<1> DEFINE m == K!Begun(ordered[k + 1])
<1>1. /\ m.started = ordered[k + 1].ts /\ m.ended = ordered[k + 1].ts /\ m.count = 1
      /\ m.claimed = {ordered[k + 1].session}
  BY DEF K!Begun
<1> HIDE DEF m
<1>2. (k + 1)..(k + 1) = {k + 1} /\ (k + 1)..((k + 1) - 1) = {} /\ (k + 1) - k = 1 /\ k < k + 1
  OBVIOUS
<1>3. {ordered[j].session : j \in (k + 1)..(k + 1)} = {ordered[k + 1].session}
  BY <1>2
<1> QED
  BY <1>1, <1>2, <1>3 DEF IsRun, m

(* Sessions stay runs when an event is taken. *)
LEMMA SessionsStayRuns ==
    ASSUME NEW s, IsList(s), NEW ordered, NEW k \in Nat, NEW cut, AreCut(s, ordered, cut, k),
           \A j \in 1..(k + 1) : ordered[j].ts \in Int
    PROVE  LET m == K!With(s, ordered[k + 1])
           IN  IsList(m) /\ \E c : AreCut(m, ordered, c, k + 1)
<1> DEFINE n == Len(s)
           e == ordered[k + 1]
           m == K!With(s, e)
<1>0. n \in Nat /\ SessionGap \in Int
  BY StampsAssumption DEF IsList
<1>1. /\ cut \in [0..n -> 0..k] /\ cut[0] = 0 /\ cut[n] = k
      /\ \A i \in 1..n : /\ IsRun(s[i], ordered, cut[i - 1], cut[i])
                         /\ i > 1 => s[i].started - s[i - 1].ended > SessionGap
  BY DEF AreCut
<1>2. CASE K!Joins(s, e)
  <2> DEFINE c == [cut EXCEPT ![n] = k + 1]
             last == K!Joined(s[n], e)
  <2>1. n # 0 /\ e.ts - s[n].ended <= SessionGap
    BY <1>0, <1>2 DEF K!Joins, IsList
  <2>2. m = [s EXCEPT ![n] = last]
    BY <1>2 DEF K!With
  <2> HIDE DEF last, e
  <2>3. /\ Len(m) = n /\ m = [i \in 1..n |-> m[i]] /\ m[n] = last
        /\ \A i \in 1..n : i # n => m[i] = s[i]
    <3> HIDE DEF m
    <3>1. s = [i \in 1..n |-> s[i]]
      BY DEF IsList
    <3>2. m = [i \in 1..n |-> IF i = n THEN last ELSE s[i]]
      BY <2>2, <3>1
    <3> QED
      BY <1>0, <2>1, <3>2
  <2>4. /\ c \in [0..n -> 0..(k + 1)] /\ c[0] = 0 /\ c[n] = k + 1
        /\ \A i \in 0..n : i # n => c[i] = cut[i]
    BY <1>0, <1>1, <2>1
  <2>5. IsRun(last, ordered, cut[n - 1], k + 1)
    <3>1. n \in 1..n /\ n - 1 \in 0..n
      BY <1>0, <2>1
    <3>2. cut[n - 1] \in Nat /\ IsRun(s[n], ordered, cut[n - 1], k)
      BY <1>1, <3>1
    <3> QED
      BY <2>1, <3>2, JoiningGoesOn DEF last, e
  <2>6. last.started = s[n].started
    BY DEF K!Joined, last
  <2> HIDE DEF m, c
  <2>7. ASSUME NEW i \in 1..n
        PROVE  /\ IsRun(m[i], ordered, c[i - 1], c[i])
               /\ i > 1 => m[i].started - m[i - 1].ended > SessionGap
    <3>1. i - 1 \in 0..n /\ i - 1 # n /\ i \in 0..n /\ (i > 1 => i - 1 \in 1..n)
      BY <1>0
    <3>2. c[i - 1] = cut[i - 1] /\ (i > 1 => m[i - 1] = s[i - 1])
      BY <2>3, <2>4, <3>1
    <3>3. CASE i = n
      BY <1>1, <2>3, <2>4, <2>5, <2>6, <3>2, <3>3
    <3>4. CASE i # n
      BY <1>1, <2>3, <2>4, <3>1, <3>2, <3>4
    <3> QED
      BY <3>3, <3>4
  <2>8. AreCut(m, ordered, c, k + 1)
    BY <2>3, <2>4, <2>7 DEF AreCut
  <2> QED
    BY <1>0, <2>3, <2>8 DEF IsList, m, e
<1>3. CASE ~K!Joins(s, e)
  <2> DEFINE c == [i \in 0..(n + 1) |-> IF i = n + 1 THEN k + 1 ELSE cut[i]]
             last == K!Begun(e)
  <2>1. n # 0 => ~(e.ts - s[n].ended <= SessionGap)
    <3>1. n # 0 => s # <<>>
      OBVIOUS
    <3> QED
      BY <1>3, <3>1 DEF K!Joins
  <2>2. m = Append(s, last)
    BY <1>3 DEF K!With
  <2>3. IsRun(last, ordered, k, k + 1) /\ last.started = e.ts
    BY BeginningIsRun DEF K!Begun
  <2>4. n # 0 => s[n].ended \in Int
    <3> SUFFICES ASSUME n # 0 PROVE s[n].ended \in Int
      OBVIOUS
    <3>1. n \in 1..n /\ n - 1 \in 0..n
      BY <1>0
    <3>2. IsRun(s[n], ordered, cut[n - 1], k) /\ cut[n - 1] \in 0..k
      BY <1>1, <3>1
    <3>3. s[n].ended = ordered[k].ts /\ k \in 1..(k + 1)
      BY <3>2 DEF IsRun
    <3> QED
      BY <3>3
  <2>5. e.ts \in Int
    OBVIOUS
  <2> HIDE DEF last, e
  <2>6. n # 0 => e.ts - s[n].ended > SessionGap
    BY <1>0, <2>1, <2>4, <2>5
  <2>7. /\ Len(m) = n + 1 /\ m = [i \in 1..(n + 1) |-> m[i]] /\ m[n + 1] = last
        /\ \A i \in 1..n : m[i] = s[i]
    <3> HIDE DEF m
    <3>1. s = [i \in 1..n |-> s[i]]
      BY DEF IsList
    <3> DEFINE S == {s[i] : i \in 1..n} \union {last}
    <3>2. s \in Seq(S) /\ last \in S
      <4>1. s \in [1..n -> S]
        BY <3>1
      <4>2. n \in Nat
        BY <1>0
      <4> QED
        BY <4>1, <4>2
    <3> HIDE DEF S
    <3>3. /\ Append(s, last) \in Seq(S) /\ Len(Append(s, last)) = n + 1 /\ Append(s, last)[n + 1] = last
          /\ \A i \in 1..n : Append(s, last)[i] = s[i]
      BY <3>2
    <3>4. Append(s, last) = [i \in 1..(n + 1) |-> Append(s, last)[i]]
      <4> DEFINE a == Append(s, last)
      <4>1. a \in Seq(S) /\ Len(a) = n + 1
        BY <3>3
      <4> HIDE DEF a
      <4>2. a = [i \in 1..Len(a) |-> a[i]]
        BY <4>1
      <4> QED
        BY <4>1, <4>2 DEF a
    <3> QED
      BY <2>2, <3>3, <3>4
  <2>8. /\ c \in [0..(n + 1) -> 0..(k + 1)] /\ c[0] = 0 /\ c[n + 1] = k + 1 /\ c[n] = k
        /\ \A i \in 0..n : c[i] = cut[i]
    BY <1>0, <1>1
  <2> HIDE DEF m, c
  <2>9. ASSUME NEW i \in 1..(n + 1)
        PROVE  /\ IsRun(m[i], ordered, c[i - 1], c[i])
               /\ i > 1 => m[i].started - m[i - 1].ended > SessionGap
    <3>1. CASE i = n + 1
      <4>1. i - 1 = n /\ (i > 1 => n \in 1..n /\ n # 0)
        BY <1>0, <3>1
      <4>2. i > 1 => m[i - 1] = s[n]
        BY <2>7, <4>1
      <4> QED
        BY <2>3, <2>6, <2>7, <2>8, <3>1, <4>1, <4>2
    <3>2. CASE i # n + 1
      <4>1. i \in 1..n /\ i \in 0..n /\ i - 1 \in 0..n /\ (i > 1 => i - 1 \in 1..n)
        BY <1>0, <3>2
      <4>2. m[i] = s[i] /\ c[i] = cut[i] /\ c[i - 1] = cut[i - 1] /\ (i > 1 => m[i - 1] = s[i - 1])
        BY <2>7, <2>8, <4>1
      <4> QED
        BY <1>1, <4>1, <4>2
    <3> QED
      BY <3>1, <3>2
  <2>10. AreCut(m, ordered, c, k + 1)
    BY <2>7, <2>8, <2>9 DEF AreCut
  <2>11. IsList(m)
    BY <1>0, <2>7 DEF IsList
  <2> QED
    BY <2>10, <2>11 DEF m, e
<1> QED
  BY <1>2, <1>3

(* The sessions of some events are the runs they are cut into. *)
LEMMA SessionsAreRuns ==
    ASSUME NEW ordered, Len(ordered) \in Nat, \A k \in 1..Len(ordered) : ordered[k].ts \in Int
    PROVE  /\ IsList(K!SessionsFor(ordered))
           /\ \E cut : AreCut(K!SessionsFor(ordered), ordered, cut, Len(ordered))
<1> DEFINE n == Len(ordered)
<1>1. PICK g : IsDerivation(g, ordered) /\ K!SessionsFor(ordered) = g[n]
  BY SessionsAreDerived
<1> DEFINE S == {k \in 0..n : IsList(g[k]) /\ \E cut : AreCut(g[k], ordered, cut, k)}
<1>2. g[0] = <<>> /\ \A k \in 1..n : g[k] = K!With(g[k - 1], ordered[k])
  BY <1>1 DEF IsDerivation
<1>3. 0 \in S
  <2>1. IsList(<<>>)
    BY DEF IsList
  <2>2. AreCut(<<>>, ordered, [i \in 0..0 |-> 0], 0)
    BY DEF AreCut
  <2> QED
    BY <1>2, <2>1, <2>2
<1>4. ASSUME NEW k \in 0..(n - 1), k \in S
      PROVE  k + 1 \in S
  <2>1. IsList(g[k]) /\ k \in Nat /\ k + 1 \in 1..n
    BY <1>4
  <2>2. PICK cut : AreCut(g[k], ordered, cut, k)
    BY <1>4
  <2>3. g[k + 1] = K!With(g[k], ordered[k + 1])
    BY <1>2, <2>1
  <2>4. \A j \in 1..(k + 1) : ordered[j].ts \in Int
    BY <2>1
  <2>5. IsList(g[k + 1]) /\ \E c : AreCut(g[k + 1], ordered, c, k + 1)
    BY <2>1, <2>2, <2>3, <2>4, SessionsStayRuns
  <2> QED
    BY <2>1, <2>5
<1> HIDE DEF S
<1>5. n \in Nat
  OBVIOUS
<1>6. 0..n \subseteq S
  BY <1>3, <1>4, <1>5, GoesOn
<1>7. n \in S
  BY <1>5, <1>6
<1> QED
  BY <1>1, <1>7 DEF S

(* Such sessions are what the promise calls runs. *)
LEMMA CutAreRuns ==
    ASSUME NEW sessions, IsList(sessions), NEW ordered, NEW cut, AreCut(sessions, ordered, cut, Len(ordered))
    PROVE  AreRuns(sessions, ordered)
<1>1. DOMAIN sessions = 1..Len(sessions) /\ Len(sessions) \in Nat
  BY DEF IsList
<1>2. /\ cut \in [0..Len(sessions) -> 0..Len(ordered)] /\ cut[0] = 0 /\ cut[Len(sessions)] = Len(ordered)
      /\ \A i \in 1..Len(sessions) :
            /\ cut[i - 1] < cut[i] /\ sessions[i].count = cut[i] - cut[i - 1]
            /\ sessions[i].started = ordered[cut[i - 1] + 1].ts /\ sessions[i].ended = ordered[cut[i]].ts
            /\ sessions[i].claimed = {ordered[k].session : k \in (cut[i - 1] + 1)..cut[i]}
            /\ \A k \in (cut[i - 1] + 1)..(cut[i] - 1) : ordered[k + 1].ts - ordered[k].ts <= SessionGap
            /\ i > 1 => sessions[i].started - sessions[i - 1].ended > SessionGap
  BY DEF AreCut, IsRun
<1> QED
  BY <1>1, <1>2 DEF AreRuns

(* Cuts ascend. *)
LEMMA CutsAscend ==
    ASSUME NEW sessions, IsList(sessions), NEW ordered, NEW k \in Nat, NEW cut, AreCut(sessions, ordered, cut, k),
           NEW i \in 1..Len(sessions), NEW j \in 1..Len(sessions), i < j
    PROVE  cut[i] <= cut[j - 1]
<1> DEFINE n == Len(sessions)
           S == {m \in 0..n : cut[i] <= cut[m]}
<1>1. n \in Nat
  BY DEF IsList
<1>2. cut \in [0..n -> 0..k] /\ \A m \in 1..n : cut[m - 1] < cut[m]
  BY DEF AreCut, IsRun
<1>3. i \in Nat /\ j - 1 \in Nat /\ i \in 0..n /\ j - 1 \in i..(j - 1) /\ j - 1 \in 0..n
  BY <1>1
<1>4. i \in S
  BY <1>2, <1>3
<1>5. ASSUME NEW m \in i..((j - 1) - 1), m \in S
      PROVE  m + 1 \in S
  <2>1. m \in 0..n /\ m + 1 \in 1..n /\ (m + 1) - 1 = m /\ m + 1 \in 0..n
    BY <1>1, <1>3
  <2>2. cut[m] < cut[m + 1]
    BY <1>2, <2>1
  <2>3. cut[i] \in 0..k /\ cut[m] \in 0..k /\ cut[m + 1] \in 0..k /\ cut[i] <= cut[m]
    BY <1>2, <1>3, <1>5, <2>1
  <2> QED
    BY <2>1, <2>2, <2>3
<1> HIDE DEF S
<1>6. i..(j - 1) \subseteq S
  BY <1>3, <1>4, <1>5, GoesOn
<1>7. j - 1 \in S
  BY <1>3, <1>6
<1> QED
  BY <1>7 DEF S

(* Where no gap is long, the page goes on with its session. *)
LEMMA AlikeWithin ==
    ASSUME NEW page, IsOrderly(page), NEW from \in 1..Len(page.events), NEW to \in 1..Len(page.events),
           \A k \in from..(to - 1) : page.events[k + 1].ts - page.events[k].ts <= SessionIdle
    PROVE  \A k \in from..to : page.events[k].session = page.events[from].session
<1> DEFINE n == Len(page.events)
           S == {k \in 1..n : page.events[k].session = page.events[from].session}
<1>1. n \in Nat
  BY DEF IsOrderly, IsPage
<1>2. \A k \in 1..(n - 1) : page.events[k + 1].session = page.events[k].session
                                <=> page.events[k + 1].ts - page.events[k].ts <= SessionIdle
  BY DEF IsOrderly, AreSplit
<1>3. from \in Nat /\ to \in Nat /\ from \in S
  BY <1>1
<1>4. ASSUME NEW k \in from..(to - 1), k \in S
      PROVE  k + 1 \in S
  <2>1. k \in 1..(n - 1) /\ k + 1 \in 1..n
    BY <1>1
  <2> QED
    BY <1>2, <1>4, <2>1
<1> HIDE DEF S
<1>5. from..to \subseteq S
  BY <1>3, <1>4, GoesOn
<1> QED
  BY <1>5 DEF S

(* After a long gap all sessions are later than those before. *)
LEMMA LaterAfterGap ==
    ASSUME NEW page, IsOrderly(page), NEW c \in 1..(Len(page.events) - 1),
           page.events[c + 1].ts - page.events[c].ts > SessionIdle,
           NEW i \in 1..c, NEW j \in (c + 1)..Len(page.events)
    PROVE  K!Ascends(page.events[i].session, page.events[j].session)
<1> DEFINE n == Len(page.events)
           s(k) == page.events[k].session
<1>1. /\ n \in Nat
      /\ \A k \in 1..n : IsId(s(k)) /\ page.events[k].ts \in Nat
  BY DEF IsOrderly, IsPage, IsEvent
<1>2. \A k, m \in 1..n : k < m => s(k) = s(m) \/ K!Ascends(s(k), s(m))
  BY DEF IsOrderly, AreStamped, K!BySession
<1>3. c \in 1..n /\ c + 1 \in 1..n /\ i \in 1..n /\ j \in 1..n /\ c < c + 1
  BY <1>1
<1>4. s(c + 1) # s(c)
  <2>1. SessionIdle \in Nat
    BY StampsAssumption
  <2>2. ~(page.events[c + 1].ts - page.events[c].ts <= SessionIdle)
    BY <1>1, <1>3, <2>1
  <2> QED
    BY <2>2 DEF IsOrderly, AreSplit
<1>5. K!Ascends(s(c), s(c + 1))
  BY <1>2, <1>3, <1>4
<1>6. (s(i) = s(c) \/ K!Ascends(s(i), s(c))) /\ (s(c + 1) = s(j) \/ K!Ascends(s(c + 1), s(j)))
  <2>1. (i = c \/ i < c) /\ (j = c + 1 \/ c + 1 < j)
    BY <1>1, <1>3
  <2> QED
    BY <1>2, <1>3, <2>1
<1>7. IsId(s(i)) /\ IsId(s(c)) /\ IsId(s(c + 1)) /\ IsId(s(j))
  BY <1>1, <1>3
<1> HIDE DEF s
<1>8. K!Ascends(s(i), s(c + 1))
  BY <1>5, <1>6, <1>7, IdsAreOrdered
<1>9. K!Ascends(s(i), s(j))
  BY <1>6, <1>7, <1>8, IdsAreOrdered
<1> QED
  BY <1>9 DEF s

(* The clock is not set back. *)
IsForward(events) == \A i, j \in DOMAIN events : i < j => events[i].ts <= events[j].ts

(* When the clock is not set back, time and place order the events as the   *)
(* page has recorded them.                                                  *)
LEMMA ForwardIsByTime ==
    ASSUME NEW page, IsOrderly(page), IsForward(page.events),
           NEW i \in 1..Len(page.events), NEW j \in 1..Len(page.events), i < j
    PROVE  K!ByTime(page.events[i], page.events[j])
<1> DEFINE e == page.events
           n == Len(e)
<1>1. /\ n \in Nat /\ DOMAIN e = 1..n
      /\ \A k \in 1..n : IsEvent(e[k])
  BY DEF IsOrderly, IsPage
<1>2. \A k, m \in 1..n : k < m => e[k].ts <= e[m].ts
  BY <1>1 DEF IsForward
<1>3. \A k \in 1..n : e[k].ts \in Nat /\ IsId(e[k].session) /\ e[k].seq \in Nat
  BY <1>1 DEF IsEvent
<1>4. SessionIdle \in Nat
  BY StampsAssumption
<1>5. K!BySession(e[i], e[j])
  BY DEF IsOrderly, AreStamped
<1>6. CASE e[i].ts = e[j].ts
  <2>1. \A k \in 1..n : i <= k /\ k <= j => e[k].ts = e[i].ts
    <3>1. \A k \in 1..n : i <= k /\ k <= j => e[i].ts <= e[k].ts /\ e[k].ts <= e[j].ts
      <4>1. \A k \in 1..n : (i <= k => i = k \/ i < k) /\ (k <= j => k = j \/ k < j)
        BY <1>1
      <4> QED
        BY <1>2, <1>3, <4>1
    <3> QED
      BY <1>3, <1>6, <3>1
  <2>2. \A k \in i..(j - 1) : e[k + 1].ts - e[k].ts <= SessionIdle
    <3> TAKE k \in i..(j - 1)
    <3>1. k \in 1..n /\ k + 1 \in 1..n /\ i <= k /\ k <= j /\ i <= k + 1 /\ k + 1 <= j
      BY <1>1
    <3>2. e[k].ts = e[i].ts /\ e[k + 1].ts = e[i].ts
      BY <2>1, <3>1
    <3> QED
      BY <1>3, <1>4, <3>2
  <2>3. e[j].session = e[i].session
    <3>1. j \in i..j
      BY <1>1
    <3> QED
      BY <2>2, <3>1, AlikeWithin
  <2>4. ~K!Ascends(e[i].session, e[j].session)
    BY <1>3, <2>3, IdsAreOrdered
  <2> QED
    BY <1>5, <1>6, <2>4 DEF K!BySession, K!ByTime
<1>7. CASE e[i].ts # e[j].ts
  BY <1>2, <1>3, <1>7 DEF K!ByTime
<1> QED
  BY <1>6, <1>7

(* Taken in the order of the page, its events are cut into its sessions. *)
LEMMA SessionsAreClaimed ==
    ASSUME NEW page, IsOrderly(page), NEW sessions, IsList(sessions),
           NEW cut, AreCut(sessions, page.events, cut, Len(page.events))
    PROVE  /\ \A i \in 1..Len(sessions) : \A a, b \in sessions[i].claimed : a = b
           /\ \A i, j \in 1..Len(sessions) : i < j =>
                \A a \in sessions[i].claimed, b \in sessions[j].claimed : K!Ascends(a, b)
<1> DEFINE e == page.events
           n == Len(e)
           r == Len(sessions)
<1>1. n \in Nat /\ r \in Nat /\ SessionGap = SessionIdle
  BY StampsAssumption DEF IsOrderly, IsPage, IsList
<1>2. /\ cut \in [0..r -> 0..n]
      /\ \A i \in 1..r : /\ IsRun(sessions[i], e, cut[i - 1], cut[i])
                         /\ i > 1 => sessions[i].started - sessions[i - 1].ended > SessionGap
  BY DEF AreCut
<1>3. ASSUME NEW i \in 1..r
      PROVE  /\ cut[i - 1] \in 0..n /\ cut[i] \in 0..n /\ cut[i - 1] < cut[i]
             /\ cut[i - 1] + 1 \in 1..n /\ cut[i] \in 1..n
             /\ sessions[i].claimed = {e[k].session : k \in (cut[i - 1] + 1)..cut[i]}
  <2>1. i \in 0..r /\ i - 1 \in 0..r
    BY <1>1
  <2>2. cut[i - 1] \in 0..n /\ cut[i] \in 0..n
    BY <1>2, <2>1
  <2>3. cut[i - 1] < cut[i] /\ sessions[i].claimed = {e[k].session : k \in (cut[i - 1] + 1)..cut[i]}
    BY <1>2 DEF IsRun
  <2>4. cut[i - 1] + 1 \in 1..n /\ cut[i] \in 1..n
    BY <1>1, <2>2, <2>3
  <2> QED
    BY <2>2, <2>3, <2>4
<1>4. ASSUME NEW i \in 1..r, NEW a \in sessions[i].claimed
      PROVE  a = e[cut[i - 1] + 1].session
  <2>0. a \in {e[k].session : k \in (cut[i - 1] + 1)..cut[i]}
    <3>1. sessions[i].claimed = {e[k].session : k \in (cut[i - 1] + 1)..cut[i]}
      BY <1>3
    <3> QED
      BY <3>1
  <2>1. PICK k \in (cut[i - 1] + 1)..cut[i] : a = e[k].session
    BY <2>0
  <2>2. \A m \in (cut[i - 1] + 1)..(cut[i] - 1) : e[m + 1].ts - e[m].ts <= SessionIdle
    BY <1>1, <1>2 DEF IsRun
  <2>3. cut[i - 1] + 1 \in 1..n /\ cut[i] \in 1..n
    BY <1>3
  <2>4. \A m \in (cut[i - 1] + 1)..cut[i] : e[m].session = e[cut[i - 1] + 1].session
    BY <2>2, <2>3, AlikeWithin
  <2> QED
    BY <2>1, <2>4
<1>5. ASSUME NEW i \in 1..r, NEW j \in 1..r, i < j, NEW a \in sessions[i].claimed, NEW b \in sessions[j].claimed
      PROVE  K!Ascends(a, b)
  <2> DEFINE c == cut[j - 1]
  <2>0. a \in {e[k].session : k \in (cut[i - 1] + 1)..cut[i]} /\ b \in {e[k].session : k \in (c + 1)..cut[j]}
    <3>1. /\ sessions[i].claimed = {e[k].session : k \in (cut[i - 1] + 1)..cut[i]}
          /\ sessions[j].claimed = {e[k].session : k \in (c + 1)..cut[j]}
      BY <1>3
    <3> QED
      BY <3>1
  <2>1. PICK p \in (cut[i - 1] + 1)..cut[i] : a = e[p].session
    BY <2>0
  <2>2. PICK q \in (c + 1)..cut[j] : b = e[q].session
    BY <2>0
  <2>3. cut[i] <= c
    BY <1>1, <1>5, CutsAscend
  <2>4. j - 1 \in 1..r /\ j > 1
    BY <1>1, <1>5
  <2>5. c \in 1..(n - 1) /\ p \in 1..c /\ q \in (c + 1)..n
    <3>1. cut[i] \in 1..n /\ cut[i - 1] \in 0..n
      BY <1>3
    <3>2. c \in 0..n /\ cut[j] \in 1..n /\ c < cut[j]
      BY <1>3
    <3>3. n \in Nat /\ c \in Int /\ cut[i] \in Int /\ cut[i - 1] \in Int /\ cut[j] \in Int
      BY <1>1, <3>1, <3>2
    <3>4. p \in Int /\ cut[i - 1] + 1 <= p /\ p <= cut[i] /\ q \in Int /\ c + 1 <= q /\ q <= cut[j]
      BY <2>1, <2>2, <3>3
    <3> HIDE DEF c, n
    <3>5. 1 <= c /\ c <= n - 1 /\ 1 <= p /\ p <= c /\ q <= n
      BY <2>3, <3>1, <3>2, <3>3, <3>4
    <3> QED
      BY <3>3, <3>4, <3>5
  <2>6. e[c + 1].ts - e[c].ts > SessionIdle
    <3>1. sessions[j].started = e[c + 1].ts
      BY <1>2 DEF IsRun
    <3>2. sessions[j - 1].ended = e[c].ts
      BY <1>2, <2>4 DEF IsRun
    <3> QED
      BY <1>1, <1>2, <2>4, <3>1, <3>2
  <2> HIDE DEF c
  <2> QED
    BY <2>1, <2>2, <2>5, <2>6, LaterAfterGap
<1> QED
  BY <1>4, <1>5

(* A page that is kept is in order. *)
PageIsOrderly == trial.of = "page" => IsOrderly(trial)

(* What a step of a ledger makes of a page is in order. *)
LEMMA PageKeptOrderly ==
    ASSUME IsNamed, PageIsOrderly, LedgerStep
    PROVE  PageIsOrderly'
<1>1. CASE OpenPage
  <2>1. trial' \in K!NewPages
    BY <1>1 DEF OpenPage
  <2> QED
    BY <2>1, NewPageIsOrderly DEF PageIsOrderly
<1>2. CASE RecordEvent
  <2>1. trial.of = "page" /\ trial' \in K!AfterEvent(trial)
    BY <1>2 DEF RecordEvent
  <2>2. IsOrderly(trial)
    BY <2>1 DEF PageIsOrderly
  <2> QED
    BY <2>1, <2>2, PageStaysOrderly DEF PageIsOrderly
<1> QED
  BY <1>1, <1>2, LedgersStayApart DEF PageIsOrderly

(* A page that is in order agrees with what is made of its stamps. *)
LEMMA OrderlyPageAgrees ==
    ASSUME PageIsOrderly
    PROVE  StampsAgree
<1> SUFFICES ASSUME trial.of = "page"
             PROVE  LET events == trial.events
                        forward == \A i, j \in DOMAIN events : i < j => events[i].ts <= events[j].ts
                    IN /\ \A i, j \in DOMAIN events : i < j => K!Ascends(events[i].id, events[j].id)
                       /\ K!Exported(events) = {events}
                       /\ \A ordered \in K!Timed(events) : AreRuns(K!SessionsFor(ordered), ordered)
                       /\ forward =>
                            LET sessions == K!SessionsFor(events) IN
                            /\ K!Timed(events) = {events}
                            /\ \A i \in DOMAIN sessions : \A a, b \in sessions[i].claimed : a = b
                            /\ \A i, j \in DOMAIN sessions : i < j =>
                                    \A a \in sessions[i].claimed, b \in sessions[j].claimed : K!Ascends(a, b)
  BY DEF StampsAgree, Trying
<1> DEFINE events == trial.events
           n == Len(events)
           sessions == K!SessionsFor(events)
<1>1. IsOrderly(trial)
  BY DEF PageIsOrderly
<1>2. n \in Nat /\ events = [k \in 1..n |-> events[k]] /\ DOMAIN events = 1..n /\ \A k \in 1..n : IsEvent(events[k])
  BY <1>1 DEF IsOrderly, IsPage
<1>3. \A i, j \in 1..n : i < j => K!Ascends(events[i].id, events[j].id) /\ K!BySession(events[i], events[j])
  BY <1>1 DEF IsOrderly, AreStamped
<1>4. K!Exported(events) = {events}
  <2> HIDE DEF events
  <2> QED
    BY <1>2, <1>3, ExportedInOrder
<1>5. ASSUME NEW ordered \in K!Timed(events)
      PROVE  AreRuns(K!SessionsFor(ordered), ordered)
  <2> HIDE DEF events
  <2>1. Len(ordered) = n /\ \A k \in 1..n : IsEvent(ordered[k])
    BY <1>2, TimedAreEvents
  <2>2. Len(ordered) \in Nat /\ \A k \in 1..Len(ordered) : ordered[k].ts \in Int
    BY <1>2, <2>1 DEF IsEvent
  <2>3. IsList(K!SessionsFor(ordered)) /\ \E cut : AreCut(K!SessionsFor(ordered), ordered, cut, Len(ordered))
    BY <2>2, SessionsAreRuns
  <2> QED
    BY <2>3, CutAreRuns
<1>6. ASSUME IsForward(events)
      PROVE  K!Timed(events) = {events}
  <2>1. \A i, j \in 1..n : i < j => K!ByTime(events[i], events[j])
    BY <1>1, <1>6, ForwardIsByTime
  <2> HIDE DEF events
  <2> QED
    BY <1>2, <2>1, TimedInOrder
<1>7. /\ \A i \in DOMAIN sessions : \A a, b \in sessions[i].claimed : a = b
      /\ \A i, j \in DOMAIN sessions : i < j =>
            \A a \in sessions[i].claimed, b \in sessions[j].claimed : K!Ascends(a, b)
  <2>1. \A k \in 1..n : events[k].ts \in Int
    BY <1>2 DEF IsEvent
  <2>2. IsList(sessions) /\ \E cut : AreCut(sessions, events, cut, n)
    <3> HIDE DEF events
    <3> QED
      BY <1>2, <2>1, SessionsAreRuns
  <2>3. DOMAIN sessions = 1..Len(sessions)
    BY <2>2 DEF IsList
  <2> HIDE DEF sessions
  <2> QED
    BY <1>1, <2>2, <2>3, SessionsAreClaimed
<1>8. (\A i, j \in DOMAIN events : i < j => events[i].ts <= events[j].ts) => IsForward(events)
  BY DEF IsForward
<1> QED
  BY <1>2, <1>3, <1>4, <1>5, <1>6, <1>7, <1>8
==============================================================================
