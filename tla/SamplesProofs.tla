--------------------------- MODULE SamplesProofs ---------------------------
(***************************************************************************)
(* Proofs about the computations that Samples holds against definitions    *)
(* that are not the code's, for every year, day and view of a store: the   *)
(* calendar and the windows of relative dates (Calendar), and the graph of *)
(* where things come from (SourceGraph).                                   *)
(***************************************************************************)
EXTENDS Samples, FiniteSetTheorems, WellFoundedInduction, TLAPS

-----------------------------------------------------------------------------
(***************************************************************************)
(* Years, months and eras                                                  *)
(***************************************************************************)

(* The days of a year before a month.                                      *)
Before(y, m) ==
  LET leap == IF DaysInMonth(y, 2) = 29 THEN 1 ELSE 0
  IN  CASE m = 1 -> 0 [] m = 2 -> 31 [] m = 3 -> 59 + leap [] m = 4 -> 90 + leap
        [] m = 5 -> 120 + leap [] m = 6 -> 151 + leap [] m = 7 -> 181 + leap
        [] m = 8 -> 212 + leap [] m = 9 -> 243 + leap [] m = 10 -> 273 + leap
        [] m = 11 -> 304 + leap [] m = 12 -> 334 + leap

(* The day number of the first of January.                                 *)
NewYear(y) ==
  365 * (y - 1) + (y - 1) \div 4 - (y - 1) \div 100 + (y - 1) \div 400 - 719162

(* The days before each month of a year that begins in March.              *)
LEMMA MonthLengths ==
  /\ (153 * 0 + 2) \div 5 = 0 /\ (153 * 1 + 2) \div 5 = 31
  /\ (153 * 2 + 2) \div 5 = 61 /\ (153 * 3 + 2) \div 5 = 92
  /\ (153 * 4 + 2) \div 5 = 122 /\ (153 * 5 + 2) \div 5 = 153
  /\ (153 * 6 + 2) \div 5 = 184 /\ (153 * 7 + 2) \div 5 = 214
  /\ (153 * 8 + 2) \div 5 = 245 /\ (153 * 9 + 2) \div 5 = 275
  /\ (153 * 10 + 2) \div 5 = 306 /\ (153 * 11 + 2) \div 5 = 337
OBVIOUS

(* A year is a leap year exactly when the count of leap days grows in it.  *)
LEMMA Leap ==
  ASSUME NEW y \in Int
  PROVE  /\ DaysInMonth(y, 2) \in {28, 29}
         /\ DaysInMonth(y, 2) = 29 <=> y \div 4 - y \div 100 + y \div 400
               = 1 + (y - 1) \div 4 - (y - 1) \div 100 + (y - 1) \div 400
         /\ DaysInMonth(y, 2) = 28 <=> y \div 4 - y \div 100 + y \div 400
               = (y - 1) \div 4 - (y - 1) \div 100 + (y - 1) \div 400
<1>1. y \div 4 = (y - 1) \div 4 + (IF y % 4 = 0 THEN 1 ELSE 0)
  OBVIOUS
<1>2. y \div 100 = (y - 1) \div 100 + (IF y % 100 = 0 THEN 1 ELSE 0)
  OBVIOUS
<1>3. y \div 400 = (y - 1) \div 400 + (IF y % 400 = 0 THEN 1 ELSE 0)
  OBVIOUS
<1>4. (y % 400 = 0 => y % 100 = 0) /\ (y % 100 = 0 => y % 4 = 0)
  OBVIOUS
<1> QED
  BY <1>1, <1>2, <1>3, <1>4 DEF DaysInMonth

(* DayNumber in two closed forms. *)
LEMMA DayNumberIs ==
  ASSUME NEW y \in Int, NEW m \in 1 .. 12, NEW d \in Int
  PROVE  DayNumber(<<y, m, d>>) = NewYear(y) + Before(y, m) + d - 1
<1> DEFINE c == IF m <= 2 THEN y - 1 ELSE y
           era == c \div 400
           yoe == c - era * 400
           mp == IF m > 2 THEN m - 3 ELSE m + 9
<1>1. DayNumber(<<y, m, d>>) =
        era * 146097 + yoe * 365 + yoe \div 4 - yoe \div 100
          + ((153 * mp + 2) \div 5 + d - 1) - 719468
  BY DEF DayNumber
<1>2. /\ c \in Int /\ era \in Int /\ yoe \in Int
      /\ yoe \div 4 = c \div 4 - 100 * era /\ yoe \div 100 = c \div 100 - 4 * era
  OBVIOUS
<1>3. DayNumber(<<y, m, d>>) =
        365 * c + c \div 4 - c \div 100 + c \div 400
          + (153 * mp + 2) \div 5 + d - 719469
  BY <1>1, <1>2
<1> HIDE DEF era, yoe
<1>4. CASE m <= 2
  <2>1. (153 * mp + 2) \div 5 = 306 + Before(y, m)
    BY <1>4, MonthLengths DEF Before
  <2> QED
    BY <1>3, <1>4, <2>1 DEF NewYear, Before
<1>5. CASE m > 2
  <2> DEFINE leap == IF DaysInMonth(y, 2) = 29 THEN 1 ELSE 0
  <2>1. y \div 4 - y \div 100 + y \div 400
          = leap + (y - 1) \div 4 - (y - 1) \div 100 + (y - 1) \div 400
    BY Leap
  <2>2. (153 * mp + 2) \div 5 + 59 + leap = Before(y, m)
    BY <1>5, MonthLengths DEF Before
  <2>3. c = y /\ leap \in Int /\ mp \in Int
    BY <1>5
  <2>4. (153 * mp + 2) \div 5 \in Int
    BY <2>3
  <2> HIDE DEF leap, c, mp
  <2> QED
    BY <1>3, <2>1, <2>2, <2>3, <2>4 DEF NewYear
<1> QED
  BY <1>4, <1>5

(* A year is as long as its February makes it.                             *)
LEMMA YearLength ==
  ASSUME NEW y \in Int
  PROVE  /\ NewYear(y) \in Int /\ NewYear(y + 1) \in Int
         /\ NewYear(y + 1) = NewYear(y) + Before(y, 12) + 31
<1>1. NewYear(y) \in Int /\ NewYear(y + 1) \in Int /\ y + 1 - 1 = y
  BY DEF NewYear
<1>2. Before(y, 12) = 334 + IF DaysInMonth(y, 2) = 29 THEN 1 ELSE 0
  BY DEF Before
<1>3. Before(y, 12) = 334 + (y \div 4 - y \div 100 + y \div 400)
        - ((y - 1) \div 4 - (y - 1) \div 100 + (y - 1) \div 400)
  BY <1>2, Leap
<1> QED
  BY <1>1, <1>3 DEF NewYear

(* A month is as long as the days before the next month say.               *)
LEMMA MonthLength ==
  ASSUME NEW y \in Int, NEW m \in 1 .. 12
  PROVE  /\ Before(y, m) \in 0 .. 335 /\ DaysInMonth(y, m) \in 28 .. 31
         /\ m < 12 => Before(y, m + 1) = Before(y, m) + DaysInMonth(y, m)
         /\ m = 12 => DaysInMonth(y, m) = 31
<1>1. DaysInMonth(y, 2) \in {28, 29}
  BY Leap
<1> QED
  BY <1>1 DEF Before, DaysInMonth

(* A year of an era is a century, a group of four and a year of these; a   *)
(* leap year is the last of a group that does not end a century, or ends   *)
(* the era.                                                                *)
LEMMA EraYear ==
  ASSUME NEW y \in Int, NEW yoe \in 0 .. 399, y = 400 * (y \div 400) + yoe
  PROVE  \E a \in 0 .. 3, q \in 0 .. 24, r \in 0 .. 3 :
           /\ yoe = 100 * a + 4 * q + r
           /\ yoe \div 4 = 25 * a + q /\ yoe \div 100 = a
           /\ DaysInMonth(y + 1, 2) = 29 <=> r = 3 /\ (q # 24 \/ a = 3)
<1> DEFINE a == yoe \div 100
           q == (yoe - 100 * a) \div 4
           r == yoe - 100 * a - 4 * q
<1>1. /\ a \in 0 .. 3 /\ q \in 0 .. 24 /\ r \in 0 .. 3
      /\ yoe = 100 * a + 4 * q + r
      /\ yoe \div 4 = 25 * a + q
  OBVIOUS
<1> HIDE DEF q, r, a
<1>2. PICK k \in Int : y = 400 * k + 100 * a + 4 * q + r
  BY <1>1
<1>3. (y + 1) % 4 = 0 <=> r = 3
  BY <1>1, <1>2
<1>4. (y + 1) % 100 = 0 <=> r = 3 /\ q = 24
  BY <1>1, <1>2
<1>5. (y + 1) % 400 = 0 <=> r = 3 /\ q = 24 /\ a = 3
  BY <1>1, <1>2
<1>6. DaysInMonth(y + 1, 2) = 29 <=> r = 3 /\ (q # 24 \/ a = 3)
  BY <1>3, <1>4, <1>5, <1>1 DEF DaysInMonth
<1> QED
  BY <1>1, <1>6 DEF a

(* An era is 400 years: four centuries, of 25 groups of four years each.   *)
(* Day x of year r of group q of century a.                                *)
DayInEra(a, q, r, x) == 36524 * a + 1461 * q + 365 * r + x

YearOfEra(a, q, r) == 100 * a + 4 * q + r

InEra(w) == w \in Int /\ 0 <= w /\ w < 146097

DaysOfYear == 0 .. 365

(* The year of an era that civil_from_days finds for a day of it.          *)
YearOfDay(doe) == (doe - doe \div 1460 + doe \div 36524 - doe \div 146096) \div 365

(* A day of a year of an era is a day of the era.                          *)
LEMMA EraBounds ==
  ASSUME NEW a \in 0 .. 3, NEW q \in 0 .. 24, NEW r \in 0 .. 3, NEW x \in DaysOfYear
  PROVE  InEra(DayInEra(a, q, r, x))
BY SMT DEF DayInEra, InEra, DaysOfYear

(* What civil_from_days divides a day of an era by finds its year and the  *)
(* day of that year.                                                       *)
LEMMA DayOfEra ==
  ASSUME NEW a \in 0 .. 3, NEW q \in 0 .. 24, NEW r \in 0 .. 3, NEW doy \in DaysOfYear,
         doy = 365 => r = 3 /\ (q # 24 \/ a = 3)
  PROVE  YearOfDay(DayInEra(a, q, r, doy)) = YearOfEra(a, q, r)
<1> USE DEF DaysOfYear
<1> DEFINE doe == 36524 * a + 1461 * q + 365 * r + doy
           last == a = 3 /\ q = 24 /\ r = 3 /\ doy = 365
<1>2. doe \div 146096 = IF last THEN 1 ELSE 0
  BY SMT
<1>3. doe \div 36524 = a + IF last THEN 1 ELSE 0
  BY SMT
<1> DEFINE k == IF 24 * a + q + 365 * r + doy >= 1460 THEN 1 ELSE 0
<1>4. doe \div 1460 = 25 * a + q + k
  BY SMT
<1>5. 0 <= doy - k /\ doy - k <= 364
  BY SMT
<1>6. doe - doe \div 1460 + doe \div 36524 - doe \div 146096
        = 36500 * a + 1460 * q + 365 * r + (doy - k)
  BY SMT, <1>2, <1>3, <1>4
<1> HIDE DEF k
<1>7. PICK e \in 0 .. 364 : e = doy - k
  BY SMT, <1>5 DEF k
<1> DEFINE w == doe - doe \div 1460 + doe \div 36524 - doe \div 146096
<1>8. w = 36500 * a + 1460 * q + 365 * r + e
  BY SMT, <1>6, <1>7
<1> HIDE DEF w
<1>9. w \div 365 = 100 * a + 4 * q + r
  BY SMT, <1>8
<1>10. YearOfDay(DayInEra(a, q, r, doy)) = w \div 365
  BY SMT DEF w, DayInEra, YearOfDay
<1> QED
  BY SMT, <1>9, <1>10 DEF YearOfEra

(* Months and days of a year that begins in March, as the code counts      *)
(* them.                                                                   *)
MonthOf(mp) == IF mp < 10 THEN mp + 3 ELSE mp - 9

DaysBefore(mp) == (153 * mp + 2) \div 5

InMarchMonth(mp, d) ==
  /\ mp \in 0 .. 11 /\ d \in 1 .. 31
  /\ mp < 11 => DaysBefore(mp) + d <= DaysBefore(mp + 1)
  /\ mp = 11 => d <= 29

(* A date of the year that begins in March. *)
InMarchYear(a, q, r, mp, d) ==
  /\ a \in 0 .. 3 /\ q \in 0 .. 24 /\ r \in 0 .. 3 /\ InMarchMonth(mp, d)
  /\ mp = 11 /\ d = 29 => r = 3 /\ (q # 24 \/ a = 3)

DayOf(mp, d) == DaysBefore(mp) + d - 1

(* The division by 153 finds the month and its day.                        *)
LEMMA MonthOfDay ==
  ASSUME NEW mp, NEW d, InMarchMonth(mp, d)
  PROVE  /\ DayOf(mp, d) \in 0 .. 365 /\ DaysBefore(mp) \in Int /\ d \in Int
         /\ (5 * DayOf(mp, d) + 2) \div 153 = mp
         /\ DayOf(mp, d) = 365 <=> mp = 11 /\ d = 29
<1> USE DEF InMarchMonth, DayOf
<1>1. CASE mp = 0
  BY <1>1, MonthLengths DEF DaysBefore
<1>2. CASE mp = 1
  BY <1>2, MonthLengths DEF DaysBefore
<1>3. CASE mp = 2
  BY <1>3, MonthLengths DEF DaysBefore
<1>4. CASE mp = 3
  BY <1>4, MonthLengths DEF DaysBefore
<1>5. CASE mp = 4
  BY <1>5, MonthLengths DEF DaysBefore
<1>6. CASE mp = 5
  BY <1>6, MonthLengths DEF DaysBefore
<1>7. CASE mp = 6
  BY <1>7, MonthLengths DEF DaysBefore
<1>8. CASE mp = 7
  BY <1>8, MonthLengths DEF DaysBefore
<1>9. CASE mp = 8
  BY <1>9, MonthLengths DEF DaysBefore
<1>10. CASE mp = 9
  BY <1>10, MonthLengths DEF DaysBefore
<1>11. CASE mp = 10
  BY <1>11, MonthLengths DEF DaysBefore
<1>12. CASE mp = 11
  BY <1>12, MonthLengths DEF DaysBefore
<1>13. mp \in 0 .. 11
  OBVIOUS
<1> QED
  BY <1>13, <1>1, <1>2, <1>3, <1>4, <1>5, <1>6, <1>7, <1>8, <1>9, <1>10, <1>11, <1>12

(* The number of a day, and its date, by the place in its era. *)
(* The date <<y, m, d>> has day number n, and its place in its era.        *)
Placed(y, m, d, n, era, a, q, r, mp) ==
  /\ era \in Int /\ n \in Int /\ InMarchYear(a, q, r, mp, d) /\ m = MonthOf(mp)
  /\ y = 400 * era + YearOfEra(a, q, r) + (IF mp < 10 THEN 0 ELSE 1)
  /\ n = 146097 * era + DayInEra(a, q, r, DayOf(mp, d)) - 719468

(* CivilDate of a placed day is its date.                                  *)
LEMMA CivilDateIs ==
  ASSUME NEW y, NEW m, NEW d, NEW n, NEW era, NEW a, NEW q, NEW r, NEW mp,
         Placed(y, m, d, n, era, a, q, r, mp)
  PROVE  CivilDate(n) = <<y, m, d>>
<1>1. /\ a \in 0 .. 3 /\ q \in 0 .. 24 /\ r \in 0 .. 3 /\ InMarchMonth(mp, d)
      /\ mp \in 0 .. 11 /\ d \in 1 .. 31
      /\ mp = 11 /\ d = 29 => r = 3 /\ (q # 24 \/ a = 3)
  BY SMT DEF Placed, InMarchYear, InMarchMonth
<1>3. PICK x \in DaysOfYear :
        /\ x = DayOf(mp, d) /\ x = DaysBefore(mp) + d - 1 /\ (5 * x + 2) \div 153 = mp
        /\ x = 365 => r = 3 /\ (q # 24 \/ a = 3)
  BY SMT, <1>1, MonthOfDay DEF DayOf, DaysOfYear
<1>4. InEra(DayInEra(a, q, r, x)) /\ YearOfDay(DayInEra(a, q, r, x)) = YearOfEra(a, q, r)
  BY <1>1, <1>3, EraBounds, DayOfEra, Zenon
<1> DEFINE z == n + 719468
           zera == z \div 146097
           doe == z - zera * 146097
           yoe == (doe - doe \div 1460 + doe \div 36524 - doe \div 146096) \div 365
           doy == doe - (365 * yoe + yoe \div 4 - yoe \div 100)
           zmp == (5 * doy + 2) \div 153
           w == DayInEra(a, q, r, x)
<1>2. CivilDate(n) =
        <<IF (IF zmp < 10 THEN zmp + 3 ELSE zmp - 9) <= 2 THEN yoe + zera * 400 + 1 ELSE yoe + zera * 400,
          IF zmp < 10 THEN zmp + 3 ELSE zmp - 9, doy - (153 * zmp + 2) \div 5 + 1>>
  BY SMT DEF CivilDate
<1>5. z = 146097 * era + w /\ era \in Int
  <2>1. era \in Int /\ n = 146097 * era + w - 719468
    BY SMT, <1>3 DEF Placed
  <2>2. InEra(w)
    BY SMT, <1>4
  <2> HIDE DEF w
  <2> QED
    BY SMT, <2>1, <2>2 DEF InEra
<1>6. zera = era /\ doe = w
  <2>1. InEra(w)
    BY SMT, <1>4
  <2> HIDE DEF w, z
  <2> QED
    BY SMT, <2>1, <1>5 DEF InEra
<1>7. w = 36524 * a + 1461 * q + 365 * r + x
  BY SMT DEF DayInEra
<1>8. yoe = 100 * a + 4 * q + r
  <2>2. yoe = YearOfDay(w)
    <3> HIDE DEF w
    <3> QED
      BY SMT, <1>6 DEF YearOfDay
  <2> QED
    BY SMT, <1>4, <2>2 DEF YearOfEra
<1> HIDE DEF w
<1> HIDE DEF zera, doe, yoe
<1>9. yoe \div 4 = 25 * a + q /\ yoe \div 100 = a
  BY SMT, <1>1, <1>8
<1>10. doy = x
  BY SMT, <1>1, <1>3, <1>7, <1>6, <1>8, <1>9 DEF DaysOfYear
<1>11. zmp = mp
  BY SMT, <1>3, <1>10
<1> HIDE DEF zmp, doy
<1>12. doy - (153 * zmp + 2) \div 5 + 1 = d
  BY SMT, <1>1, <1>3, <1>10, <1>11 DEF DaysBefore
<1>13. (IF zmp < 10 THEN zmp + 3 ELSE zmp - 9) = m /\ (m <= 2 <=> ~ (mp < 10))
  BY SMT, <1>1, <1>11 DEF MonthOf, Placed
<1>14. y = 400 * era + (100 * a + 4 * q + r) + (IF mp < 10 THEN 0 ELSE 1)
  BY SMT DEF Placed, YearOfEra
<1>15. (IF m <= 2 THEN yoe + zera * 400 + 1 ELSE yoe + zera * 400) = y
  BY SMT, <1>1, <1>5, <1>6, <1>8, <1>13, <1>14
<1> QED
  BY SMT, <1>2, <1>12, <1>13, <1>15

(* Months of the year that begins in March are as long as the calendar's.  *)
LEMMA MarchMonths ==
  ASSUME NEW y \in Int, NEW m \in 1 .. 12, NEW d \in 1 .. DaysInMonth(y, m), NEW mp,
         mp = IF m > 2 THEN m - 3 ELSE m + 9
  PROVE  /\ mp \in 0 .. 11 /\ d \in 1 .. 31 /\ m = MonthOf(mp) /\ (mp < 10 <=> m > 2)
         /\ InMarchMonth(mp, d)
         /\ mp = 11 /\ d = 29 => DaysInMonth(y, 2) = 29
<1>1. mp = 0 \/ mp = 1 \/ mp = 2 \/ mp = 3 \/ mp = 4 \/ mp = 5
        \/ mp = 6 \/ mp = 7 \/ mp = 8 \/ mp = 9 \/ mp = 10 \/ mp = 11
  OBVIOUS
<1>2. DaysInMonth(y, m) \in 28 .. 31 /\ DaysInMonth(y, 2) \in {28, 29}
  BY MonthLength, Leap
<1>3. /\ mp \in 0 .. 11 /\ d \in 1 .. 31 /\ m = MonthOf(mp) /\ (mp < 10 <=> m > 2)
  BY <1>1, <1>2 DEF MonthOf
<1>4. ASSUME mp < 11 PROVE DaysBefore(mp) + d <= DaysBefore(mp + 1)
  BY <1>1, <1>2, <1>4, MonthLengths DEF DaysBefore, DaysInMonth
<1>5. mp = 11 => m = 2
  OBVIOUS
<1> QED
  BY <1>2, <1>3, <1>4, <1>5 DEF InMarchMonth

(* A date has a place in its era, which is the place of its day number.    *)
LEMMA DateIsPlaced ==
  ASSUME NEW y \in Int, NEW m \in 1 .. 12, NEW d \in 1 .. DaysInMonth(y, m)
  PROVE  \E era, a, q, r, mp : Placed(y, m, d, DayNumber(<<y, m, d>>), era, a, q, r, mp)
<1> DEFINE mp == IF m > 2 THEN m - 3 ELSE m + 9
           c == IF m <= 2 THEN y - 1 ELSE y
           era == c \div 400
           yoe == c - era * 400
<1>1. /\ mp \in 0 .. 11 /\ d \in 1 .. 31 /\ m = MonthOf(mp) /\ (mp < 10 <=> m > 2)
      /\ InMarchMonth(mp, d)
      /\ mp = 11 /\ d = 29 => DaysInMonth(y, 2) = 29
  BY MarchMonths
<1>2. DayNumber(<<y, m, d>>) =
        era * 146097 + yoe * 365 + yoe \div 4 - yoe \div 100 + DayOf(mp, d) - 719468
  BY SMT, <1>1 DEF DayNumber, DaysBefore, DayOf
<1>3. c \in Int /\ era \in Int /\ yoe \in 0 .. 399 /\ c = 400 * era + yoe
  OBVIOUS
<1>4. PICK a \in 0 .. 3, q \in 0 .. 24, r \in 0 .. 3 :
           /\ yoe = 100 * a + 4 * q + r
           /\ yoe \div 4 = 25 * a + q /\ yoe \div 100 = a
           /\ DaysInMonth(c + 1, 2) = 29 <=> r = 3 /\ (q # 24 \/ a = 3)
  <2> HIDE DEF c, yoe
  <2> QED
    BY <1>3, EraYear
<1>5. mp = 11 => c + 1 = y
  BY <1>1
<1>6. InMarchYear(a, q, r, mp, d)
  BY <1>1, <1>4, <1>5 DEF InMarchYear
<1>7. y = c + (IF mp < 10 THEN 0 ELSE 1)
  BY <1>1
<1>8. DayOf(mp, d) \in 0 .. 365
  BY <1>1, MonthOfDay
<1> HIDE DEF mp, c, era, yoe
<1>9. y = 400 * era + YearOfEra(a, q, r) + (IF mp < 10 THEN 0 ELSE 1)
  BY SMT, <1>3, <1>4, <1>7 DEF YearOfEra
<1>10. /\ DayNumber(<<y, m, d>>) = 146097 * era + DayInEra(a, q, r, DayOf(mp, d)) - 719468
       /\ DayNumber(<<y, m, d>>) \in Int
  BY SMT, <1>2, <1>3, <1>4, <1>8 DEF DayInEra
<1>11. Placed(y, m, d, DayNumber(<<y, m, d>>), era, a, q, r, mp)
  BY SMT, <1>1, <1>3, <1>6, <1>9, <1>10 DEF Placed
<1> QED
  BY <1>11

(* A date is the date of its day. *)
LEMMA DateOfItsDay ==
  ASSUME NEW y \in Int, NEW m \in 1 .. 12, NEW d \in 1 .. DaysInMonth(y, m)
  PROVE  /\ DayNumber(<<y, m, d>>) \in Int
         /\ CivilDate(DayNumber(<<y, m, d>>)) = <<y, m, d>>
<1>1. PICK era, a, q, r, mp : Placed(y, m, d, DayNumber(<<y, m, d>>), era, a, q, r, mp)
  BY DateIsPlaced
<1>2. CivilDate(DayNumber(<<y, m, d>>)) = <<y, m, d>>
  BY SMT, <1>1, CivilDateIs
<1> QED
  BY SMT, <1>1, <1>2 DEF Placed

PlaceInEra(a, q, r, x) ==
  /\ a \in 0 .. 3 /\ q \in 0 .. 24 /\ r \in 0 .. 3 /\ x \in DaysOfYear
  /\ x = 365 => r = 3 /\ (q # 24 \/ a = 3)

(* Every day of an era is a day of one of its years.                       *)
LEMMA EraDays ==
  ASSUME NEW w, InEra(w)
  PROVE  \E a, q, r, x : PlaceInEra(a, q, r, x) /\ w = DayInEra(a, q, r, x)
<1>1. w \in Int /\ 0 <= w /\ w < 146097
  BY SMT DEF InEra
<1>2. PICK a \in 0 .. 3, u \in Int :
        /\ w = 36524 * a + u /\ 0 <= u /\ u <= 36524 /\ (u = 36524 => a = 3)
  <2>1. CASE w < 36524
    BY SMT, <1>1, <2>1
  <2>2. CASE 36524 <= w /\ w < 73048
    BY SMT, <1>1, <2>2
  <2>3. CASE 73048 <= w /\ w < 109572
    BY SMT, <1>1, <2>3
  <2>4. CASE 109572 <= w
    BY SMT, <1>1, <2>4
  <2> QED
    BY SMT, <1>1, <2>1, <2>2, <2>3, <2>4
<1> DEFINE q == u \div 1461
           v == u - 1461 * q
<1>3. q \in 0 .. 24 /\ v \in 0 .. 1460 /\ u = 1461 * q + v
  BY SMT, <1>2
<1> HIDE DEF q, v
<1>4. PICK r \in 0 .. 3, x \in 0 .. 365 :
        /\ v = 365 * r + x /\ (x = 365 => r = 3 /\ v = 1460)
  <2>1. CASE v < 365
    BY SMT, <1>3, <2>1
  <2>2. CASE 365 <= v /\ v < 730
    BY SMT, <1>3, <2>2
  <2>3. CASE 730 <= v /\ v < 1095
    BY SMT, <1>3, <2>3
  <2>4. CASE 1095 <= v
    BY SMT, <1>3, <2>4
  <2> QED
    BY SMT, <1>3, <2>1, <2>2, <2>3, <2>4
<1>5. w = DayInEra(a, q, r, x)
  BY SMT, <1>2, <1>3, <1>4 DEF DayInEra
<1>6. PlaceInEra(a, q, r, x)
  BY SMT, <1>2, <1>3, <1>4 DEF PlaceInEra, DaysOfYear
<1> QED
  BY <1>5, <1>6, Zenon

(* Every day of a year is a day of one of its months.                      *)
LEMMA MonthOfYearDay ==
  ASSUME NEW x \in DaysOfYear
  PROVE  \E mp, d : InMarchMonth(mp, d) /\ x = DayOf(mp, d)
<1> USE DEF DaysOfYear
<1>1. ASSUME NEW mp \in 0 .. 10, DaysBefore(mp) <= x, x < DaysBefore(mp + 1)
      PROVE  InMarchMonth(mp, x - DaysBefore(mp) + 1) /\ x = DayOf(mp, x - DaysBefore(mp) + 1)
  <2>1. mp = 0 \/ mp = 1 \/ mp = 2 \/ mp = 3 \/ mp = 4 \/ mp = 5
          \/ mp = 6 \/ mp = 7 \/ mp = 8 \/ mp = 9 \/ mp = 10
    BY SMT
  <2>2. DaysBefore(mp) \in Int /\ DaysBefore(mp + 1) \in Int /\ DaysBefore(mp + 1) <= DaysBefore(mp) + 31
    BY SMT, <2>1, MonthLengths DEF DaysBefore
  <2> QED
    BY SMT, <1>1, <2>2 DEF InMarchMonth, DayOf
<1>2. CASE x >= 337
  <2>1. DaysBefore(11) = 337
    BY SMT, MonthLengths DEF DaysBefore
  <2>2. InMarchMonth(11, x - 336) /\ x = DayOf(11, x - 336)
    BY SMT, <1>2, <2>1 DEF InMarchMonth, DayOf
  <2> QED
    BY <2>2
<1>3. CASE x < 337
  <2>1. \E mp \in 0 .. 10 : DaysBefore(mp) <= x /\ x < DaysBefore(mp + 1)
    <3>1. /\ DaysBefore(0) = 0 /\ DaysBefore(0 + 1) = 31 /\ DaysBefore(1) = 31 /\ DaysBefore(1 + 1) = 61
          /\ DaysBefore(2) = 61 /\ DaysBefore(2 + 1) = 92 /\ DaysBefore(3) = 92 /\ DaysBefore(3 + 1) = 122
          /\ DaysBefore(4) = 122 /\ DaysBefore(4 + 1) = 153 /\ DaysBefore(5) = 153 /\ DaysBefore(5 + 1) = 184
          /\ DaysBefore(6) = 184 /\ DaysBefore(6 + 1) = 214 /\ DaysBefore(7) = 214 /\ DaysBefore(7 + 1) = 245
          /\ DaysBefore(8) = 245 /\ DaysBefore(8 + 1) = 275 /\ DaysBefore(9) = 275 /\ DaysBefore(9 + 1) = 306
          /\ DaysBefore(10) = 306 /\ DaysBefore(10 + 1) = 337
      BY SMT, MonthLengths DEF DaysBefore
    <3> QED
      BY SMT, <1>3, <3>1
  <2> QED
    BY <1>1, <2>1
<1> QED
  BY SMT, <1>2, <1>3

(* Every day has a place, and the place a date. *)
LEMMA DayIsPlaced ==
  ASSUME NEW n \in Int
  PROVE  \E y, m, d, era, a, q, r, mp : Placed(y, m, d, n, era, a, q, r, mp)
<1> DEFINE era == (n + 719468) \div 146097
           w == n + 719468 - 146097 * era
<1>1. era \in Int /\ n = 146097 * era + w - 719468
  BY SMT
<1>0. InEra(w)
  BY SMT DEF InEra
<1> HIDE DEF era, w
<1>2. PICK a, q, r, x : PlaceInEra(a, q, r, x) /\ w = DayInEra(a, q, r, x)
  BY <1>0, EraDays, Zenon
<1>3. PICK mp, d : InMarchMonth(mp, d) /\ x = DayOf(mp, d)
  BY SMT, <1>2, MonthOfYearDay DEF PlaceInEra
<1>4. InMarchYear(a, q, r, mp, d)
  BY SMT, <1>2, <1>3, MonthOfDay DEF InMarchYear, PlaceInEra
<1> DEFINE y == 400 * era + YearOfEra(a, q, r) + (IF mp < 10 THEN 0 ELSE 1)
<1>5. Placed(y, MonthOf(mp), d, n, era, a, q, r, mp)
  BY SMT, <1>1, <1>2, <1>3, <1>4 DEF Placed
<1> QED
  BY SMT, <1>5

(* A place is that of a date of the calendar, and its day is the date's.   *)
LEMMA PlacedIsDate ==
  ASSUME NEW y, NEW m, NEW d, NEW n, NEW era, NEW a, NEW q, NEW r, NEW mp,
         Placed(y, m, d, n, era, a, q, r, mp)
  PROVE  /\ y \in Int /\ m \in 1 .. 12 /\ d \in 1 .. DaysInMonth(y, m)
         /\ DayNumber(<<y, m, d>>) = n
<1>1. /\ a \in 0 .. 3 /\ q \in 0 .. 24 /\ r \in 0 .. 3 /\ InMarchMonth(mp, d)
      /\ mp \in 0 .. 11 /\ d \in 1 .. 31 /\ era \in Int /\ m = MonthOf(mp)
      /\ mp = 11 /\ d = 29 => r = 3 /\ (q # 24 \/ a = 3)
  BY SMT DEF Placed, InMarchYear, InMarchMonth
<1> DEFINE c == 400 * era + (100 * a + 4 * q + r)
<1>2. y = c + (IF mp < 10 THEN 0 ELSE 1) /\ c \in Int
  BY SMT, <1>1 DEF Placed, YearOfEra
<1>3. mp = 0 \/ mp = 1 \/ mp = 2 \/ mp = 3 \/ mp = 4 \/ mp = 5
        \/ mp = 6 \/ mp = 7 \/ mp = 8 \/ mp = 9 \/ mp = 10 \/ mp = 11
  BY SMT, <1>1
<1>4. m \in 1 .. 12 /\ (m <= 2 <=> ~ (mp < 10)) /\ mp = (IF m > 2 THEN m - 3 ELSE m + 9)
  BY SMT, <1>1, <1>3 DEF MonthOf
<1>5. c \div 400 = era /\ c - era * 400 = 100 * a + 4 * q + r
  BY SMT, <1>1
<1>6. DaysInMonth(c + 1, 2) = 29 <=> r = 3 /\ (q # 24 \/ a = 3)
  <2>1. (c + 1) % 4 = 0 <=> r = 3
    BY SMT, <1>1
  <2>2. (c + 1) % 100 = 0 <=> r = 3 /\ q = 24
    BY SMT, <1>1
  <2>3. (c + 1) % 400 = 0 <=> r = 3 /\ q = 24 /\ a = 3
    BY SMT, <1>1
  <2> QED
    BY SMT, <2>1, <2>2, <2>3, <1>1 DEF DaysInMonth
<1> HIDE DEF c
<1>7. d <= DaysInMonth(y, m)
  <2>1. CASE mp = 11
    <3>1. d <= 29
      BY SMT, <1>1, <2>1 DEF InMarchMonth
    <3>4. m = 2 /\ y = c + 1
      BY SMT, <1>1, <1>2, <2>1 DEF MonthOf
    <3>2. DaysInMonth(c + 1, 2) \in {28, 29}
      BY SMT, <1>2, Leap
    <3> QED
      BY SMT, <1>1, <1>6, <2>1, <3>1, <3>2, <3>4
  <2>2. CASE mp < 11
    <3>1. DaysBefore(mp) + d <= DaysBefore(mp + 1)
      BY SMT, <1>1, <2>2 DEF InMarchMonth
    <3>2. DaysBefore(mp) \in Int /\ DaysBefore(mp + 1) = DaysBefore(mp) + DaysInMonth(y, m)
      BY SMT, <1>3, <1>1, <2>2, MonthLengths DEF DaysBefore, MonthOf, DaysInMonth
    <3>3. DaysInMonth(y, m) \in Int
      BY SMT, <1>2, <1>4, MonthLength
    <3> QED
      BY SMT, <1>1, <3>1, <3>2, <3>3
  <2> QED
    BY SMT, <1>1, <2>1, <2>2
<1>8. DayNumber(<<y, m, d>>) = n
  <2>1. (IF m <= 2 THEN y - 1 ELSE y) = c
    BY SMT, <1>1, <1>2, <1>4
  <2> DEFINE yoe == 100 * a + 4 * q + r
  <2>2. yoe \div 4 = 25 * a + q /\ yoe \div 100 = a
    BY SMT, <1>1
  <2>3. DayNumber(<<y, m, d>>)
          = era * 146097 + yoe * 365 + yoe \div 4 - yoe \div 100 + ((153 * mp + 2) \div 5 + d - 1) - 719468
    BY SMT, <1>4, <1>5, <2>1 DEF DayNumber
  <2>4. DayOf(mp, d) = (153 * mp + 2) \div 5 + d - 1 /\ DayOf(mp, d) \in Int
    BY SMT, <1>1, MonthOfDay DEF DayOf, DaysBefore
  <2>5. n = 146097 * era + (36524 * a + 1461 * q + 365 * r + DayOf(mp, d)) - 719468
    BY SMT DEF Placed, DayInEra
  <2> QED
    BY SMT, <1>1, <2>2, <2>3, <2>4, <2>5
<1> QED
  BY SMT, <1>1, <1>2, <1>4, <1>7, <1>8

(* A day is the day of its date. *)
LEMMA DayOfItsDate ==
  ASSUME NEW n \in Int
  PROVE  \E y \in Int, m \in 1 .. 12 : \E d \in 1 .. DaysInMonth(y, m) :
           CivilDate(n) = <<y, m, d>> /\ DayNumber(<<y, m, d>>) = n
<1>1. PICK y, m, d, era, a, q, r, mp : Placed(y, m, d, n, era, a, q, r, mp)
  BY DayIsPlaced, Zenon
<1>2. /\ y \in Int /\ m \in 1 .. 12 /\ d \in 1 .. DaysInMonth(y, m)
      /\ DayNumber(<<y, m, d>>) = n
  BY <1>1, PlacedIsDate, Zenon
<1>3. CivilDate(n) = <<y, m, d>>
  BY <1>1, CivilDateIs, Zenon
<1> QED
  BY <1>2, <1>3, Zenon

(* Some numbers have a least one. *)
LEMMA LeastNumber ==
  ASSUME NEW S, S \subseteq Nat, S # {}
  PROVE  \E x \in S : \A y \in S : x <= y
<1>1. PICK R : IsWellFoundedOn(R, Nat) /\ \A m, n \in Nat : m < n => <<m, n>> \in R
  <2> DEFINE R == {mn \in Nat \X Nat : mn[1] < mn[2]}
  <2>1. IsWellFoundedOn(R, Nat)
    BY NatLessThanWellFounded, Zenon DEF OpToRel
  <2>2. \A m, n \in Nat : m < n => <<m, n>> \in R
    OBVIOUS
  <2> QED
    BY <2>1, <2>2
<1>2. IsWellFoundedOn(R, S)
  BY <1>1, IsWellFoundedOnSubset
<1>3. PICK x \in S : \A y \in S : ~ (<<y, x>> \in R)
  BY <1>2, WFMin
<1>4. ASSUME NEW y \in S PROVE x <= y
  <2>1. x \in Nat /\ y \in Nat /\ ~ (y < x)
    BY <1>1, <1>3
  <2> QED
    BY <2>1
<1> QED
  BY <1>4

(* What holds of zero, and of the next number, holds of every number. *)
LEMMA ByCounting ==
  ASSUME NEW S, S \subseteq Nat, 0 \in S, \A n \in S : n + 1 \in S
  PROVE  S = Nat
<1>1. SUFFICES ASSUME Nat \ S # {} PROVE FALSE
  OBVIOUS
<1>2. PICK x \in Nat \ S : \A y \in Nat \ S : x <= y
  BY <1>1, LeastNumber
<1>3. x # 0 /\ x - 1 \in Nat /\ ~ (x <= x - 1)
  BY <1>2
<1>4. x - 1 \in S
  BY <1>2, <1>3
<1> QED
  BY <1>2, <1>3, <1>4

LeapDays(y) == y \div 4 - y \div 100 + y \div 400

(* The leap years of a stretch of years, in closed form.                   *)
LEMMA LeapYearsIs ==
  ASSUME NEW from \in Int, NEW to \in Int
  PROVE  LeapYears(from, to) = IF to < from THEN 0 ELSE LeapDays(to) - LeapDays(from - 1)
<1> DEFINE Y(k) == {y \in from .. from + k - 1 : DaysInMonth(y, 2) = 29}
           Counted(k) == IsFiniteSet(Y(k)) /\ Cardinality(Y(k)) = LeapDays(from + k - 1) - LeapDays(from - 1)
           S == {k \in Nat : Counted(k)}
<1>1. \A y \in Int : LeapDays(y) \in Int
  BY SMT DEF LeapDays
<1>2. Counted(0)
  <2>1. Y(0) = {}
    BY SMT
  <2>2. from + 0 - 1 = from - 1 /\ LeapDays(from - 1) - LeapDays(from - 1) = 0
    BY SMT, <1>1
  <2> QED
    BY <2>1, <2>2, FS_EmptySet
<1>3. ASSUME NEW k \in Nat, Counted(k) PROVE Counted(k + 1)
  <2>1. from + k \in Int /\ from + (k + 1) - 1 = from + k
    BY SMT
  <2>2. \/ DaysInMonth(from + k, 2) = 29 /\ LeapDays(from + k) = 1 + LeapDays(from + k - 1)
        \/ DaysInMonth(from + k, 2) # 29 /\ LeapDays(from + k) = LeapDays(from + k - 1)
    BY SMT, <2>1, Leap DEF LeapDays
  <2>3. LeapDays(from + k - 1) \in Int /\ LeapDays(from - 1) \in Int
    BY SMT, <1>1
  <2>4. CASE DaysInMonth(from + k, 2) = 29
    <3>1. Y(k + 1) = Y(k) \cup {from + k} /\ from + k \notin Y(k)
      BY SMT, <2>1, <2>4
    <3> HIDE DEF Y
    <3> QED
      BY <1>3, <2>1, <2>2, <2>3, <2>4, <3>1, FS_AddElement
  <2>5. CASE DaysInMonth(from + k, 2) # 29
    <3>1. Y(k + 1) = Y(k)
      BY SMT, <2>1, <2>5
    <3> HIDE DEF Y
    <3> QED
      BY <1>3, <2>1, <2>2, <2>5, <3>1
  <2> QED
    BY <2>4, <2>5
<1> HIDE DEF Counted
<1>4. S = Nat
  <2>1. S \subseteq Nat /\ 0 \in S
    BY <1>2
  <2>2. \A k \in S : k + 1 \in S
    BY <1>3
  <2> HIDE DEF S
  <2> QED
    BY <2>1, <2>2, ByCounting, Zenon
<1>5. CASE to < from
  <2>1. {y \in from .. to : DaysInMonth(y, 2) = 29} = {}
    BY SMT, <1>5
  <2> QED
    BY <1>5, <2>1, FS_EmptySet DEF LeapYears
<1>6. CASE ~ (to < from)
  <2>1. to - from + 1 \in S /\ from + (to - from + 1) - 1 = to
    BY SMT, <1>4, <1>6
  <2> QED
    BY <1>6, <2>1 DEF Counted, LeapYears
<1> QED
  BY <1>5, <1>6

Before1970 == 365 * 1969 + LeapDays(1969)

(* The day of a new year counts the years, and the leap years, from 1970.  *)
LEMMA NewYearIs ==
  ASSUME NEW y \in Int
  PROVE  NewYear(y) = 365 * (y - 1970) + LeapYears(1970, y - 1) - LeapYears(y, 1969)
<1>1. NewYear(y) = 365 * (y - 1) + LeapDays(y - 1) - 719162 /\ LeapDays(y - 1) \in Int
  BY SMT DEF NewYear, LeapDays
<1>2. LeapDays(1969) = 477 /\ 1970 - 1 = 1969
  BY SMT DEF LeapDays
<1>3. LeapYears(1970, y - 1) = IF y - 1 < 1970 THEN 0 ELSE LeapDays(y - 1) - LeapDays(1969)
  BY SMT, <1>2, LeapYearsIs
<1>4. LeapYears(y, 1969) = IF 1969 < y THEN 0 ELSE LeapDays(1969) - LeapDays(y - 1)
  BY SMT, <1>2, LeapYearsIs
<1>5. CASE y = 1970
  BY SMT, <1>1, <1>2, <1>3, <1>4, <1>5
<1>6. CASE y > 1970
  BY SMT, <1>1, <1>2, <1>3, <1>4, <1>6
<1>7. CASE y < 1970
  BY SMT, <1>1, <1>2, <1>3, <1>4, <1>7
<1> QED
  BY <1>5, <1>6, <1>7

(* The day number of tomorrow is the next one, also over months and years. *)
LEMMA DayAfterDay ==
  ASSUME NEW y \in Int, NEW m \in 1 .. 12, NEW d \in 1 .. DaysInMonth(y, m)
  PROVE  DayNumber(Tomorrow(<<y, m, d>>)) = DayNumber(<<y, m, d>>) + 1
<1>0. /\ Before(y, m) \in Int /\ NewYear(y) \in Int /\ NewYear(y + 1) \in Int /\ d \in Int
      /\ DaysInMonth(y, m) \in Int /\ Before(y + 1, 1) = 0 /\ y + 1 \in Int
  BY SMT, MonthLength, YearLength DEF Before
<1>1. DayNumber(<<y, m, d>>) = NewYear(y) + Before(y, m) + d - 1
  BY SMT, <1>0, DayNumberIs
<1>2. CASE d < DaysInMonth(y, m)
  <2>1. Tomorrow(<<y, m, d>>) = <<y, m, d + 1>>
    BY SMT, <1>2 DEF Tomorrow
  <2>2. DayNumber(<<y, m, d + 1>>) = NewYear(y) + Before(y, m) + (d + 1) - 1
    BY SMT, <1>0, DayNumberIs
  <2> QED
    BY SMT, <1>0, <1>1, <2>1, <2>2
<1>3. CASE d = DaysInMonth(y, m) /\ m < 12
  <2>1. Tomorrow(<<y, m, d>>) = <<y, m + 1, 1>>
    BY SMT, <1>0, <1>3 DEF Tomorrow
  <2>2. DayNumber(<<y, m + 1, 1>>) = NewYear(y) + Before(y, m + 1) + 1 - 1
    BY SMT, <1>3, DayNumberIs
  <2>3. Before(y, m + 1) = Before(y, m) + d
    BY SMT, <1>3, MonthLength
  <2> QED
    BY SMT, <1>0, <1>1, <2>1, <2>2, <2>3
<1>4. CASE d = DaysInMonth(y, m) /\ m = 12
  <2>1. Tomorrow(<<y, m, d>>) = <<y + 1, 1, 1>>
    BY SMT, <1>0, <1>4 DEF Tomorrow
  <2>2. DayNumber(<<y + 1, 1, 1>>) = NewYear(y + 1) + Before(y + 1, 1) + 1 - 1
    BY SMT, <1>0, DayNumberIs
  <2>3. NewYear(y + 1) = NewYear(y) + Before(y, m) + 31 /\ d = 31
    BY SMT, <1>4, MonthLength, YearLength
  <2> QED
    BY SMT, <1>0, <1>1, <2>1, <2>2, <2>3
<1> QED
  BY SMT, <1>0, <1>2, <1>3, <1>4

(* What a sample is about says which of the inputs it is one of.           *)
LEMMA SampleTopics ==
  ASSUME SamplesInit
  PROVE  /\ sample.topic = "day" => sample \in DaySamples
         /\ sample.topic = "window" => sample \in WindowSamples
         /\ sample.topic = "question" => sample \in QuestionSamples
         /\ sample.topic = "graph" => sample \in GraphSamples
<1>1. sample \in DaySamples => sample.topic = "day"
  BY DEF DaySamples
<1>2. sample \in WindowSamples => sample.topic = "window"
  BY DEF WindowSamples
<1>3. sample \in QuestionSamples => sample.topic = "question"
  <2>1. \A q, packs, asked : \A x \in Asked(q, packs, asked) : x.topic = "question"
    BY SMT DEF Asked
  <2>2. sample \in QuestionSamples => \E q, packs, asked : sample \in Asked(q, packs, asked)
    BY Zenon DEF QuestionSamples
  <2> QED
    BY <2>1, <2>2, Zenon
<1>4. sample \in GraphSamples => sample.topic = "graph"
  BY SMT DEF GraphSamples
<1> QED
  BY <1>1, <1>2, <1>3, <1>4, SMT DEF SamplesInit

(* The calendar: for every year, whatever years the samples are of.        *)
THEOREM CalendarOfEveryYear ==
  ASSUME SamplesInit
  PROVE  CalendarIsExact
<1> SUFFICES ASSUME sample.topic = "day"
             PROVE  CalendarIsExact
  BY DEF CalendarIsExact
<1>1. sample \in DaySamples
  BY SampleTopics
<1>0. Years \subseteq Int
  BY SamplesAssumption
<1>2. PICK y \in Int, m \in 1 .. 12 : \E d \in 1 .. DaysInMonth(y, m) : sample.date = <<y, m, d>>
  BY <1>0, <1>1 DEF DaySamples, DaysOf
<1>3. PICK d \in 1 .. DaysInMonth(y, m) : sample.date = <<y, m, d>>
  BY <1>2
<1> DEFINE n == DayNumber(<<y, m, d>>)
<1>4. n \in Int /\ CivilDate(n) = <<y, m, d>>
  BY Zenon, DateOfItsDay
<1>5. DayNumber(Tomorrow(<<y, m, d>>)) = n + 1
  BY Zenon, DayAfterDay
<1>6. ASSUME <<y, m, d>> = <<y, 1, 1>>
      PROVE  n = 365 * (y - 1970) + LeapYears(1970, y - 1) - LeapYears(y, 1969)
  <2>1. n = NewYear(y) + Before(y, 1) + 1 - 1 /\ Before(y, 1) = 0 /\ NewYear(y) \in Int
    BY SMT, <1>6, DayNumberIs, YearLength DEF Before
  <2>2. n = NewYear(y)
    BY SMT, <2>1
  <2> QED
    BY SMT, <2>2, NewYearIs
<1>7. DateOfEpoch(EpochOf(<<y, m, d>>, 86399)) = <<<<y, m, d>>, 86399>>
  <2>1. EpochOf(<<y, m, d>>, 86399) = n * 86400 + 86399
    BY DEF EpochOf
  <2> HIDE DEF n
  <2>2. (n * 86400 + 86399) \div 86400 = n /\ (n * 86400 + 86399) % 86400 = 86399
    BY SMT, <1>4
  <2> QED
    BY SMT, <1>4, <2>1, <2>2 DEF DateOfEpoch
<1> HIDE DEF n
<1> QED
  BY SMT, <1>3, <1>4, <1>5, <1>6, <1>7 DEF n, CalendarIsExact

(* The days before a month, with its own, are within the year.             *)
LEMMA DaysBeforeMonth ==
  ASSUME NEW y \in Int, NEW m \in 1 .. 12
  PROVE  Before(y, m) \in Int /\ 0 <= Before(y, m) /\ DaysInMonth(y, m) \in Int
<1>1. Before(y, m) \in 0 .. 335 /\ DaysInMonth(y, m) \in 28 .. 31
  BY MonthLength, Zenon
<1> QED
  BY SMT, <1>1

(* A later month begins after an earlier one has ended.                    *)
LEMMA MonthsInOrder ==
  ASSUME NEW y \in Int, NEW m \in 1 .. 12, NEW k \in 1 .. 12
  PROVE  /\ m <= k => Before(y, m) <= Before(y, k)
         /\ m < k => Before(y, m) + DaysInMonth(y, m) <= Before(y, k)
         /\ Before(y, m) + DaysInMonth(y, m) <= Before(y, 12) + 31
<1>1. DaysInMonth(y, 2) \in {28, 29}
  BY SMT, Leap
<1>2. /\ m = 1 \/ m = 2 \/ m = 3 \/ m = 4 \/ m = 5 \/ m = 6 \/ m = 7 \/ m = 8 \/ m = 9
           \/ m = 10 \/ m = 11 \/ m = 12
      /\ k = 1 \/ k = 2 \/ k = 3 \/ k = 4 \/ k = 5 \/ k = 6 \/ k = 7 \/ k = 8 \/ k = 9
           \/ k = 10 \/ k = 11 \/ k = 12
  BY SMT
<1> QED
  BY SMT, <1>1, <1>2 DEF Before, DaysInMonth

(* The smaller of two numbers.                                             *)
LEMMA MinOfTwo ==
  ASSUME NEW a \in Int, NEW b \in Int
  PROVE  Min({a, b}) = IF a <= b THEN a ELSE b
BY SMT DEF Min

(* The window of a weekday is the last such day before today.              *)
LEMMA WeekdayHolds ==
  ASSUME NEW today \in Int, NEW wd \in 0 .. 6
  PROVE  LET window == WeekdayWindow(today, wd)
         IN  /\ window[1] = window[2] /\ window[1] \in today - 7 .. today - 1
             /\ (window[1] - AMonday) % 7 = wd
<1>1. AMonday = 19723
  BY SMT DEF AMonday, DayNumber
<1> DEFINE back == (Weekday(today) + 7 - wd) % 7
           day == today - (IF back = 0 THEN 7 ELSE back)
<1>2. WeekdayWindow(today, wd) = <<day, day>>
  BY SMT DEF WeekdayWindow
<1>3. day \in today - 7 .. today - 1 /\ day \in Int
  BY SMT DEF Weekday
<1>4. (day - 19723) % 7 = wd
  BY SMT DEF Weekday
<1> HIDE DEF day
<1> QED
  BY SMT, <1>1, <1>2, <1>3, <1>4

(* The window of a month is the whole of the last such month that has      *)
(* begun.                                                                  *)
LEMMA MonthHolds ==
  ASSUME NEW today \in Int, NEW m \in 1 .. 12
  PROVE  LET window == MonthWindow(today, m)
             first == CivilDate(window[1])
         IN  /\ {CivilDate(n) : n \in window[1] .. window[2]}
                  = {date \in DaysOf(first[1]) : date[2] = m}
             /\ window[1] <= today
             /\ today < DayNumber(<<first[1] + 1, m, 1>>)
<1>1. PICK y0 \in Int, m0 \in 1 .. 12 : \E d0 \in 1 .. DaysInMonth(y0, m0) :
        CivilDate(today) = <<y0, m0, d0>> /\ DayNumber(<<y0, m0, d0>>) = today
  BY DayOfItsDate, Zenon
<1>2. PICK d0 \in 1 .. DaysInMonth(y0, m0) :
        CivilDate(today) = <<y0, m0, d0>> /\ DayNumber(<<y0, m0, d0>>) = today
  BY <1>1, Zenon
<1> DEFINE y == IF m > m0 THEN y0 - 1 ELSE y0
           last == DaysInMonth(y, m)
           f == DayNumber(<<y, m, 1>>)
           l == DayNumber(<<y, m, last>>)
<1>3. MonthWindow(today, m) = <<f, l>>
  BY SMT, <1>2 DEF MonthWindow
<1>4. y \in Int /\ last \in 28 .. 31
  BY SMT, MonthLength
<1>5. /\ NewYear(y) \in Int /\ NewYear(y + 1) = NewYear(y) + Before(y, 12) + 31
      /\ NewYear(y0) \in Int /\ NewYear(y0 + 1) = NewYear(y0) + Before(y0, 12) + 31
      /\ Before(y, m) \in Int /\ Before(y0, m0) \in Int /\ Before(y, 12) \in Int /\ Before(y0, 12) \in Int
      /\ Before(y + 1, m) \in Int
  <2> HIDE DEF y
  <2>1. 12 \in 1 .. 12 /\ y + 1 \in Int
    BY <1>4
  <2>2. /\ Before(y, m) \in Int /\ Before(y0, m0) \in Int /\ Before(y, 12) \in Int /\ Before(y0, 12) \in Int
        /\ Before(y + 1, m) \in Int
    BY <1>4, <2>1, DaysBeforeMonth, Zenon
  <2>3. /\ NewYear(y) \in Int /\ NewYear(y + 1) = NewYear(y) + Before(y, 12) + 31
        /\ NewYear(y0) \in Int /\ NewYear(y0 + 1) = NewYear(y0) + Before(y0, 12) + 31
    BY <1>4, YearLength, Zenon
  <2> QED
    BY <2>2, <2>3
<1>6. today = NewYear(y0) + Before(y0, m0) + d0 - 1 /\ d0 \in Int /\ d0 <= DaysInMonth(y0, m0) /\ 1 <= d0
  BY SMT, <1>2, MonthLength, DayNumberIs
<1>7. f = NewYear(y) + Before(y, m) + 1 - 1 /\ f \in Int
  <2> HIDE DEF y
  <2> QED
    BY SMT, <1>4, <1>5, DayNumberIs
<1>8. l = f + last - 1
  <2> HIDE DEF y
  <2> QED
    BY SMT, <1>4, <1>5, <1>7, DayNumberIs
<1>9. DayNumber(<<y + 1, m, 1>>) = NewYear(y + 1) + Before(y + 1, m) + 1 - 1
  <2> HIDE DEF y
  <2> QED
    BY SMT, <1>4, DayNumberIs
<1>10. f <= today
  <2>1. CASE m <= m0
    <3>1. y = y0 /\ Before(y0, m) <= Before(y0, m0) /\ Before(y0, m) \in Int
      BY SMT, <2>1, <1>5, MonthsInOrder
    <3> HIDE DEF y, f
    <3> QED
      BY SMT, <1>5, <1>6, <1>7, <3>1
  <2>2. CASE m > m0
    <3>1. y = y0 - 1 /\ y + 1 = y0 /\ Before(y, m) <= Before(y, 12)
      <4>1. y = y0 - 1 /\ y + 1 = y0
        BY SMT, <2>2
      <4> HIDE DEF y
      <4> QED
        BY SMT, <4>1, <1>4, MonthsInOrder
    <3> HIDE DEF y, f
    <3>2. 0 <= Before(y0, m0)
      BY DaysBeforeMonth, Zenon
    <3> QED
      BY SMT, <1>5, <1>6, <1>7, <3>1, <3>2
  <2> QED
    BY SMT, <2>1, <2>2
<1>11. today < DayNumber(<<y + 1, m, 1>>)
  <2>0. /\ Before(y0, m0) + DaysInMonth(y0, m0) <= Before(y0, 12) + 31 /\ DaysInMonth(y0, m0) \in Int
        /\ 0 <= Before(y + 1, m)
    <3>1. y + 1 \in Int
      BY SMT
    <3> HIDE DEF y
    <3> QED
      BY <3>1, MonthsInOrder, DaysBeforeMonth, Zenon
  <2>1. CASE m <= m0
    <3>1. y = y0
      BY SMT, <2>1
    <3> HIDE DEF y
    <3> QED
      BY SMT, <1>5, <1>6, <1>9, <2>0, <3>1
  <2>2. CASE m > m0
    <3>1. y + 1 = y0 /\ Before(y0, m0) + DaysInMonth(y0, m0) <= Before(y0, m)
      BY SMT, <2>2, MonthsInOrder
    <3> HIDE DEF y
    <3> QED
      BY SMT, <1>5, <1>6, <1>9, <2>0, <3>1
  <2> QED
    BY SMT, <2>1, <2>2
<1> HIDE DEF y
<1>12. \A d \in 1 .. last : DayNumber(<<y, m, d>>) = f + d - 1 /\ CivilDate(DayNumber(<<y, m, d>>)) = <<y, m, d>>
  <2> TAKE d \in 1 .. last
  <2>1. d \in Int /\ CivilDate(DayNumber(<<y, m, d>>)) = <<y, m, d>>
    BY SMT, <1>4, DateOfItsDay
  <2>2. DayNumber(<<y, m, d>>) = NewYear(y) + Before(y, m) + d - 1
    BY SMT, <2>1, <1>4, DayNumberIs
  <2> QED
    BY SMT, <2>1, <2>2, <1>5, <1>7
<1> HIDE DEF f, last
<1>13. CivilDate(f) = <<y, m, 1>>
  <2>1. 1 \in 1 .. last /\ f + 1 - 1 = f
    BY SMT, <1>4, <1>7
  <2> QED
    BY <1>12, <2>1, Zenon
<1> HIDE DEF l
<1>14. \A n \in f .. l : \E d \in 1 .. last : n = f + d - 1 /\ CivilDate(n) = <<y, m, d>>
  <2> TAKE n \in f .. l
  <2>1. n - f + 1 \in 1 .. last /\ n = f + (n - f + 1) - 1
    BY SMT, <1>4, <1>7, <1>8
  <2>2. CivilDate(n) = <<y, m, n - f + 1>>
    BY <1>12, <2>1, Zenon
  <2> QED
    BY <2>1, <2>2, Zenon
<1>15. \A d \in 1 .. last : \E n \in f .. l : CivilDate(n) = <<y, m, d>>
  <2> TAKE d \in 1 .. last
  <2>1. f + d - 1 \in f .. l
    BY SMT, <1>4, <1>7, <1>8
  <2>2. CivilDate(f + d - 1) = <<y, m, d>>
    BY <1>12, Zenon
  <2> QED
    BY <2>1, <2>2, Zenon
<1>16. {date \in DaysOf(y) : date[2] = m} = {<<y, m, d>> : d \in 1 .. last}
  BY SMT DEF DaysOf, last
<1>17. {CivilDate(n) : n \in f .. l} = {<<y, m, d>> : d \in 1 .. last}
  BY <1>14, <1>15, ZenonT(40)
<1> QED
  BY SMT, <1>3, <1>10, <1>11, <1>13, <1>16, <1>17

(* The first day of a month, by the number of months from the year 0. *)
(* The first day, and the length, of the k-th month from January of the    *)
(* year 0.                                                                 *)
MonthStart(k) == NewYear(k \div 12) + Before(k \div 12, (k % 12) + 1)

MonthSize(k) == DaysInMonth(k \div 12, (k % 12) + 1)

(* Each month begins when the one before it ends.                          *)
LEMMA MonthByMonth ==
  ASSUME NEW k \in Int
  PROVE  /\ MonthStart(k) \in Int /\ MonthSize(k) \in 28 .. 31
         /\ MonthStart(k + 1) = MonthStart(k) + MonthSize(k)
<1> DEFINE y == k \div 12
           m == (k % 12) + 1
<1>1. y \in Int /\ m \in 1 .. 12 /\ y + 1 \in Int /\ 12 \in 1 .. 12
  BY SMT
<1>2. \/ m < 12 /\ (k + 1) \div 12 = y /\ ((k + 1) % 12) + 1 = m + 1
      \/ m = 12 /\ (k + 1) \div 12 = y + 1 /\ ((k + 1) % 12) + 1 = 1
  BY SMT
<1> HIDE DEF y, m
<1>3. MonthStart(k) = NewYear(y) + Before(y, m) /\ MonthSize(k) = DaysInMonth(y, m)
  BY DEF MonthStart, MonthSize, y, m
<1>4. /\ NewYear(y) \in Int /\ Before(y, m) \in Int /\ DaysInMonth(y, m) \in 28 .. 31
      /\ NewYear(y + 1) = NewYear(y) + Before(y, 12) + 31 /\ Before(y, 12) \in Int
  BY <1>1, DaysBeforeMonth, MonthLength, YearLength, ZenonT(40)
<1>5. CASE m < 12 /\ (k + 1) \div 12 = y /\ ((k + 1) % 12) + 1 = m + 1
  <2>1. Before(y, m + 1) = Before(y, m) + DaysInMonth(y, m)
    BY <1>1, <1>5, MonthLength, ZenonT(40)
  <2> QED
    BY SMT, <1>3, <1>4, <1>5, <2>1 DEF MonthStart
<1>6. CASE m = 12 /\ (k + 1) \div 12 = y + 1 /\ ((k + 1) % 12) + 1 = 1
  <2>1. Before(y + 1, 1) = 0 /\ DaysInMonth(y, m) = 31
    BY SMT, <1>6 DEF Before, DaysInMonth
  <2> QED
    BY SMT, <1>3, <1>4, <1>6, <2>1 DEF MonthStart
<1> QED
  BY <1>2, <1>5, <1>6, <1>3, <1>4

(* Some months back is 28 to 31 days for each of them.                     *)
LEMMA MonthsBack ==
  ASSUME NEW k \in Int, NEW c \in 1 .. 4
  PROVE  MonthStart(k) - MonthStart(k - c) \in 28 * c .. 31 * c
<1> DEFINE M(j) == MonthStart(k - j)
<1>1. \A j \in 0 .. 4 : M(j) \in Int
  <2>1. \A j \in 0 .. 4 : k - j \in Int
    OBVIOUS
  <2> QED
    BY <2>1, MonthByMonth, Zenon
<1>2. \A j \in 1 .. 4 : M(j - 1) - M(j) \in 28 .. 31
  <2> TAKE j \in 1 .. 4
  <2>1. k - j \in Int /\ k - j + 1 = k - (j - 1)
    OBVIOUS
  <2>2. MonthStart(k - j + 1) = MonthStart(k - j) + MonthSize(k - j) /\ MonthSize(k - j) \in 28 .. 31
          /\ MonthStart(k - j) \in Int
    BY <2>1, MonthByMonth, Zenon
  <2> QED
    BY SMT, <2>1, <2>2
<1>3. M(0) = MonthStart(k)
  BY SMT
<1> HIDE DEF M
<1>4. /\ M(0) \in Int /\ M(1) \in Int /\ M(2) \in Int /\ M(3) \in Int /\ M(4) \in Int
      /\ M(0) - M(1) \in 28 .. 31 /\ M(1) - M(2) \in 28 .. 31 /\ M(2) - M(3) \in 28 .. 31
      /\ M(3) - M(4) \in 28 .. 31
  <2>1. M(1 - 1) - M(1) \in 28 .. 31 /\ M(2 - 1) - M(2) \in 28 .. 31 /\ M(3 - 1) - M(3) \in 28 .. 31
          /\ M(4 - 1) - M(4) \in 28 .. 31
    BY SMT, <1>2
  <2>2. 1 - 1 = 0 /\ 2 - 1 = 1 /\ 3 - 1 = 2 /\ 4 - 1 = 3
    OBVIOUS
  <2> QED
    BY SMT, <1>1, <2>1, <2>2
<1>5. M(0) - M(c) \in 28 * c .. 31 * c
  BY SMT, <1>4
<1> QED
  BY <1>3, <1>5 DEF M

(* The window of some units ago holds the day the calendar has then.       *)
LEMMA AgoHolds ==
  ASSUME NEW today \in Int, NEW c \in 1 .. 4, NEW unit \in Units
  PROVE  LET window == AgoWindow(today, c, unit)
         IN  UnitsBefore(today, c, unit) \in window[1] .. window[2]
<1> DEFINE span == SpanDays(unit) * c
           slack == IF span \div 4 > 2 THEN span \div 4 ELSE 2
<1>1. AgoWindow(today, c, unit) = <<today - span - slack, today - span + slack>>
  BY DEF AgoWindow
<1>2. CASE unit = "days"
  <2>1. span = c /\ UnitsBefore(today, c, unit) = today - c
    BY SMT, <1>2 DEF SpanDays, UnitsBefore
  <2>2. slack \in Int /\ slack >= 0
    BY SMT, <2>1
  <2> HIDE DEF slack, span
  <2> QED
    BY SMT, <1>1, <2>1, <2>2
<1>3. CASE unit = "weeks"
  <2>1. span = 7 * c /\ UnitsBefore(today, c, unit) = today - 7 * c
    BY SMT, <1>3 DEF SpanDays, UnitsBefore
  <2>2. slack \in Int /\ slack >= 0
    BY SMT, <2>1
  <2> HIDE DEF slack, span
  <2> QED
    BY SMT, <1>1, <2>1, <2>2
<1>4. CASE unit = "months"
  <2>1. span = 30 * c /\ UnitsBefore(today, c, unit) = MonthsBefore(today, c)
    BY SMT, <1>4 DEF SpanDays, UnitsBefore
  <2>2. slack \in Int /\ slack >= 2 /\ 4 * slack + 3 >= 30 * c
    BY SMT, <2>1
  <2>3. PICK y \in Int, m \in 1 .. 12 : \E d \in 1 .. DaysInMonth(y, m) :
          CivilDate(today) = <<y, m, d>> /\ DayNumber(<<y, m, d>>) = today
    BY DayOfItsDate, Zenon
  <2>4. PICK d \in 1 .. DaysInMonth(y, m) :
          CivilDate(today) = <<y, m, d>> /\ DayNumber(<<y, m, d>>) = today
    BY <2>3, Zenon
  <2> DEFINE k == 12 * y + m - 1
             y1 == (k - c) \div 12
             m1 == ((k - c) % 12) + 1
  <2>5. k \in Int /\ k - c \in Int /\ k \div 12 = y /\ (k % 12) + 1 = m /\ y1 \in Int /\ m1 \in 1 .. 12
    BY SMT
  <2>6. MonthsBefore(today, c) = DayNumber(<<y1, m1, Min({d, DaysInMonth(y1, m1)})>>)
    BY SMT, <2>4 DEF MonthsBefore
  <2> HIDE DEF k, y1, m1
  <2>7. /\ DaysInMonth(y, m) \in 28 .. 31 /\ DaysInMonth(y1, m1) \in 28 .. 31
        /\ Before(y, m) \in Int /\ NewYear(y) \in Int /\ Before(y1, m1) \in Int /\ NewYear(y1) \in Int
    BY <2>5, MonthLength, DaysBeforeMonth, YearLength, ZenonT(40)
  <2>8. d \in 1 .. 31
    BY SMT, <2>7
  <2> DEFINE d1 == IF d <= DaysInMonth(y1, m1) THEN d ELSE DaysInMonth(y1, m1)
  <2>9. Min({d, DaysInMonth(y1, m1)}) = d1 /\ d1 \in Int /\ d - d1 \in 0 .. 3
    BY SMT, <2>7, <2>8, MinOfTwo
  <2> HIDE DEF d1
  <2>10. today = MonthStart(k) + d - 1
    <3>1. DayNumber(<<y, m, d>>) = NewYear(y) + Before(y, m) + d - 1
      BY SMT, <2>8, DayNumberIs
    <3> QED
      BY SMT, <2>4, <2>5, <3>1 DEF MonthStart
  <2>11. MonthsBefore(today, c) = MonthStart(k - c) + d1 - 1
    <3>1. DayNumber(<<y1, m1, d1>>) = NewYear(y1) + Before(y1, m1) + d1 - 1
      BY SMT, <2>5, <2>9, DayNumberIs
    <3>2. MonthStart(k - c) = NewYear(y1) + Before(y1, m1)
      BY DEF MonthStart, y1, m1
    <3> QED
      BY SMT, <2>6, <2>9, <3>1, <3>2
  <2>12. MonthStart(k) - MonthStart(k - c) \in 28 * c .. 31 * c /\ MonthStart(k) \in Int /\ MonthStart(k - c) \in Int
    BY <2>5, MonthsBack, MonthByMonth, Zenon
  <2> HIDE DEF slack, span
  <2>13. MonthsBefore(today, c) \in today - 31 * c - 3 .. today - 28 * c
    BY SMT, <2>8, <2>9, <2>10, <2>11, <2>12
  <2> QED
    BY SMT, <1>1, <2>1, <2>2, <2>13
<1> QED
  BY <1>2, <1>3, <1>4 DEF Units

(* Windows: for every day that a question may be asked on.                 *)
THEOREM WindowsOfEveryDay ==
  ASSUME SamplesInit
  PROVE  WindowsHoldTheirDay
<1> SUFFICES ASSUME sample.topic = "window"
             PROVE  WindowsHoldTheirDay
  BY DEF WindowsHoldTheirDay
<1>1. sample \in WindowSamples
  BY SampleTopics
<1> DEFINE q == sample.reference
           today == sample.today
           window == RelativeWindow(q, today)
<1>2. today \in Int /\ q \in References
  <2>1. q \in References /\ \E date \in Todays : today = DayNumber(date)
    BY <1>1 DEF WindowSamples
  <2>2. PICK y \in Int, m \in 1 .. 12, d \in Int : today = DayNumber(<<y, m, d>>)
    <3>1. PICK date \in Int \X (1 .. 12) \X Int : today = DayNumber(date)
      BY <2>1, SamplesAssumption
    <3>2. /\ date[1] \in Int /\ date[2] \in 1 .. 12 /\ date[3] \in Int
          /\ date = <<date[1], date[2], date[3]>>
      OBVIOUS
    <3> HIDE DEF today
    <3> QED
      BY <3>1, <3>2, Zenon
  <2>3. NewYear(y) \in Int /\ Before(y, m) \in Int
    BY YearLength, DaysBeforeMonth, Zenon
  <2>4. DayNumber(<<y, m, d>>) = NewYear(y) + Before(y, m) + d - 1
    BY SMT, DayNumberIs
  <2> QED
    BY SMT, <2>1, <2>2, <2>3, <2>4
<1>3. /\ q.form = "weekday" => q.name \in 0 .. 6
      /\ q.form = "month" => q.name \in 1 .. 12
      /\ q.form \in {"ago", "past"} => q.count \in 0 .. 4 /\ q.unit \in Units
  BY <1>2 DEF References
<1> HIDE DEF q, today
<1>4. ASSUME q.form = "weekday"
      PROVE  /\ window[1] = window[2] /\ window[1] \in today - 7 .. today - 1
             /\ (window[1] - AMonday) % 7 = q.name
  <2>1. window = WeekdayWindow(today, q.name)
    BY <1>4 DEF RelativeWindow
  <2> QED
    BY <1>2, <1>3, <1>4, <2>1, WeekdayHolds, Zenon
<1>5. ASSUME q.form = "month"
      PROVE  LET first == CivilDate(window[1])
             IN  /\ {CivilDate(n) : n \in window[1] .. window[2]}
                      = {date \in DaysOf(first[1]) : date[2] = q.name}
                 /\ window[1] <= today
                 /\ today < DayNumber(<<first[1] + 1, q.name, 1>>)
  <2>1. window = MonthWindow(today, q.name)
    BY <1>5 DEF RelativeWindow
  <2> QED
    BY <1>2, <1>3, <1>5, <2>1, MonthHolds, Zenon
<1>6. ASSUME q.form = "ago"
      PROVE  IF q.count = 0 THEN window = NoWindow
             ELSE UnitsBefore(today, q.count, q.unit) \in window[1] .. window[2]
  <2>1. CASE q.count = 0
    BY <1>6, <2>1 DEF RelativeWindow
  <2>2. CASE q.count # 0
    <3>1. q.count \in 1 .. 4 /\ q.unit \in Units
      BY <1>3, <1>6, <2>2
    <3>2. window = AgoWindow(today, q.count, q.unit)
      BY <1>6, <3>1 DEF RelativeWindow
    <3> QED
      BY <1>2, <2>2, <3>1, <3>2, AgoHolds, Zenon
  <2> QED
    BY <2>1, <2>2
<1>7. ASSUME q.form = "past"
      PROVE  window[1] <= window[2] /\ window[2] = today
  <2>1. window = <<today - SpanDays(q.unit) * q.count, today>>
    BY <1>7 DEF RelativeWindow, PastWindow
  <2>2. q.count \in 0 .. 4 /\ SpanDays(q.unit) \in {1, 7, 30}
    BY <1>3, <1>7 DEF SpanDays
  <2> QED
    BY SMT, <1>2, <2>1, <2>2
<1> QED
  BY <1>4, <1>5, <1>6, <1>7, Zenon DEF WindowsHoldTheirDay, q, today

-----------------------------------------------------------------------------
(***************************************************************************)
(* Graphs                                                                  *)
(***************************************************************************)

(* A strict order of S, and what it puts before an element.                *)
StrictOrder(S, R) ==
  /\ \A a \in S : <<a, a>> \notin R
  /\ \A a, b, c \in S : <<a, b>> \in R /\ <<b, c>> \in R => <<a, c>> \in R
  /\ \A a, b \in S : a # b => <<a, b>> \in R \/ <<b, a>> \in R

Below(S, R, a) == {b \in S : <<b, a>> \in R}

(* In a strict order, what comes later has more before it.                 *)
LEMMA MoreBelow ==
  ASSUME NEW S, IsFiniteSet(S), NEW R, StrictOrder(S, R)
  PROVE  /\ \A a \in S : IsFiniteSet(Below(S, R, a)) /\ Cardinality(Below(S, R, a)) \in Nat
         /\ \A a, b \in S :
              <<a, b>> \in R => Cardinality(Below(S, R, a)) < Cardinality(Below(S, R, b))
<1>1. ASSUME NEW a \in S
      PROVE  IsFiniteSet(Below(S, R, a)) /\ Cardinality(Below(S, R, a)) \in Nat
  <2>1. Below(S, R, a) \in SUBSET S
    BY DEF Below
  <2> QED
    BY <2>1, FS_Subset, FS_CardinalityType
<1>2. ASSUME NEW a \in S, NEW b \in S, <<a, b>> \in R
      PROVE  Cardinality(Below(S, R, a)) < Cardinality(Below(S, R, b))
  <2>1. Below(S, R, a) \subseteq Below(S, R, b) /\ a \in Below(S, R, b) /\ a \notin Below(S, R, a)
    BY <1>2 DEF Below, StrictOrder
  <2>2. /\ Cardinality(Below(S, R, a)) <= Cardinality(Below(S, R, b))
        /\ Cardinality(Below(S, R, a)) # Cardinality(Below(S, R, b))
    BY <1>1, <2>1, FS_Subset
  <2> QED
    BY <1>1, <2>2
<1> QED
  BY <1>1, <1>2

(* No more than k have fewer than k before them.                           *)
LEMMA FewBelow ==
  ASSUME NEW S, IsFiniteSet(S), NEW R, StrictOrder(S, R), NEW T, T \subseteq S, NEW k \in Nat,
         \A a \in T : Cardinality(Below(S, R, a)) < k
  PROVE  IsFiniteSet(T) /\ Cardinality(T) \in Nat /\ Cardinality(T) <= k
<1> DEFINE rank == [a \in T |-> Cardinality(Below(S, R, a))]
<1>1. \A a \in T : rank[a] \in 0 .. k - 1
  BY MoreBelow
<1>2. ASSUME NEW a \in T, NEW b \in T, rank[a] = rank[b] PROVE a = b
  <2>1. rank[a] \in Nat /\ rank[b] \in Nat
    BY <1>1
  <2>2. <<a, b>> \notin R /\ <<b, a>> \notin R
    BY <1>2, <2>1, MoreBelow
  <2> QED
    BY <2>2 DEF StrictOrder
<1>3. rank \in Injection(T, 0 .. k - 1)
  BY <1>1, <1>2 DEF Injection, IsInjective
<1>4. IsFiniteSet(0 .. k - 1) /\ Cardinality(0 .. k - 1) = k
  BY FS_Interval
<1> QED
  BY <1>3, <1>4, FS_Injection, FS_Subset, FS_CardinalityType

IsNode(n) == \E kind \in ToSet(Kinds), id \in Int : n = <<kind, id>>

OfKind(nodes, kind) == {n \in nodes : n[1] = kind}

(* Every kind has one place among the kinds.                               *)
LEMMA KindPlaces ==
  /\ \A kind \in ToSet(Kinds) : KindPlace(kind) \in 1 .. 7 /\ Kinds[KindPlace(kind)] = kind
  /\ \A a, b \in ToSet(Kinds) : KindPlace(a) = KindPlace(b) => a = b
<1>1. DOMAIN Kinds = 1 .. 7
  BY DEF Kinds
<1>2. ASSUME NEW kind \in ToSet(Kinds)
      PROVE  KindPlace(kind) \in 1 .. 7 /\ Kinds[KindPlace(kind)] = kind
  <2>1. \E k \in DOMAIN Kinds : Kinds[k] = kind
    BY DEF ToSet
  <2>2. KindPlace(kind) \in DOMAIN Kinds /\ Kinds[KindPlace(kind)] = kind
    BY <2>1 DEF KindPlace
  <2> QED
    BY <1>1, <2>2
<1> QED
  BY <1>2

(* What goes before what in its kind.                                      *)
OrderOfKinds(nodes, edges) ==
  {p \in nodes \X nodes : GoesFirst(Tiers(nodes, edges), p[1], p[2])}

(* The nodes of a kind are in a strict order.                              *)
LEMMA NodesInOrder ==
  ASSUME NEW nodes, IsFiniteSet(nodes), \A n \in nodes : IsNode(n), NEW edges
  PROVE  /\ \A kind : StrictOrder(OfKind(nodes, kind), OrderOfKinds(nodes, edges))
         /\ \A n \in nodes : {o \in nodes : GoesFirst(Tiers(nodes, edges), o, n)}
                             = Below(OfKind(nodes, n[1]), OrderOfKinds(nodes, edges), n)
<1> DEFINE tier == Tiers(nodes, edges)
           R == OrderOfKinds(nodes, edges)
<1>1. \A n \in nodes : tier[n] \in Int
  BY DEF Tiers
<1>2. \A n \in nodes : n[2] \in Int /\ n = <<n[1], n[2]>>
  BY DEF IsNode
<1> HIDE DEF tier
<1>3. \A a, b \in nodes : <<a, b>> \in R <=> GoesFirst(tier, a, b)
  BY DEF OrderOfKinds, tier
<1> HIDE DEF R
<1>4. ASSUME NEW kind PROVE StrictOrder(OfKind(nodes, kind), R)
  <2> DEFINE S == OfKind(nodes, kind)
  <2>1. \A a \in S : a \in nodes /\ a[1] = kind
    BY DEF OfKind
  <2>2. \A a \in S : <<a, a>> \notin R
    BY <1>1, <1>2, <1>3, <2>1 DEF GoesFirst
  <2>3. \A a, b, c \in S : <<a, b>> \in R /\ <<b, c>> \in R => <<a, c>> \in R
    BY <1>1, <1>2, <1>3, <2>1 DEF GoesFirst
  <2>4. \A a, b \in S : a # b => <<a, b>> \in R \/ <<b, a>> \in R
    <3>1. SUFFICES ASSUME NEW a \in S, NEW b \in S, a # b
                   PROVE  <<a, b>> \in R \/ <<b, a>> \in R
      OBVIOUS
    <3>2. a[2] # b[2]
      BY <1>2, <2>1, <3>1
    <3>3. GoesFirst(tier, a, b) \/ GoesFirst(tier, b, a)
      BY <1>1, <1>2, <2>1, <3>2 DEF GoesFirst
    <3> QED
      BY <1>3, <2>1, <3>3
  <2> QED
    BY <2>2, <2>3, <2>4 DEF StrictOrder
<1>5. ASSUME NEW n \in nodes
      PROVE  {o \in nodes : GoesFirst(tier, o, n)} = Below(OfKind(nodes, n[1]), R, n)
  BY <1>3 DEF Below, OfKind, GoesFirst
<1> QED
  BY <1>4, <1>5 DEF R, tier

(* The order of the turns is strict; a node's turn counts nodes of its     *)
(* kind that go before it; and no more than k nodes of a kind have a turn  *)
(* below k.                                                                *)
LEMMA TurnsInOrder ==
  ASSUME NEW nodes, IsFiniteSet(nodes), \A n \in nodes : IsNode(n), NEW edges
  PROVE  \E turn \in [nodes -> Nat] :
           /\ TakenFirst(nodes, edges) =
                {p \in nodes \X nodes :
                  \/ turn[p[1]] < turn[p[2]]
                  \/ turn[p[1]] = turn[p[2]] /\ KindPlace(p[1][1]) < KindPlace(p[2][1])}
           /\ StrictOrder(nodes, TakenFirst(nodes, edges))
           /\ \A n \in nodes : \E below \in SUBSET OfKind(nodes, n[1]) :
                 Cardinality(below) = turn[n] /\ \A o \in below : turn[o] < turn[n]
           /\ \A kind : \A k \in Nat : \A T \in SUBSET OfKind(nodes, kind) :
                 (\A n \in T : turn[n] < k) => Cardinality(T) <= k
<1> DEFINE tier == Tiers(nodes, edges)
           R == OrderOfKinds(nodes, edges)
           turn == [n \in nodes |-> Cardinality({o \in nodes : GoesFirst(tier, o, n)})]
           taken == {p \in nodes \X nodes :
                      \/ turn[p[1]] < turn[p[2]]
                      \/ turn[p[1]] = turn[p[2]] /\ KindPlace(p[1][1]) < KindPlace(p[2][1])}
<1>1. TakenFirst(nodes, edges) = taken
  BY DEF TakenFirst
<1>2. /\ \A kind : StrictOrder(OfKind(nodes, kind), R)
      /\ \A n \in nodes : turn[n] = Cardinality(Below(OfKind(nodes, n[1]), R, n))
  <2>1. /\ \A kind : StrictOrder(OfKind(nodes, kind), R)
        /\ \A n \in nodes : {o \in nodes : GoesFirst(tier, o, n)} = Below(OfKind(nodes, n[1]), R, n)
    BY NodesInOrder
  <2> HIDE DEF R, tier
  <2> QED
    BY <2>1
<1>3. \A kind : IsFiniteSet(OfKind(nodes, kind)) /\ OfKind(nodes, kind) \subseteq nodes
  <2>1. \A kind : OfKind(nodes, kind) \in SUBSET nodes
    BY DEF OfKind
  <2> QED
    BY <2>1, FS_Subset
<1> HIDE DEF R
<1>4. \A n \in nodes : n \in OfKind(nodes, n[1]) /\ n[1] \in ToSet(Kinds)
  BY DEF OfKind, IsNode
<1>5. turn \in [nodes -> Nat]
  <2>1. \A n \in nodes : turn[n] \in Nat
    BY <1>2, <1>3, <1>4, MoreBelow, Zenon
  <2> QED
    BY <2>1
<1>6. \A a, b \in nodes : a[1] = b[1] /\ <<a, b>> \in R => turn[a] < turn[b]
  <2> SUFFICES ASSUME NEW a \in nodes, NEW b \in nodes, a[1] = b[1], <<a, b>> \in R
               PROVE  turn[a] < turn[b]
    OBVIOUS
  <2> DEFINE S == OfKind(nodes, b[1])
  <2>1. a \in S /\ b \in S /\ IsFiniteSet(S) /\ StrictOrder(S, R)
    BY <1>2, <1>3, <1>4
  <2>2. Cardinality(Below(S, R, a)) < Cardinality(Below(S, R, b))
    BY <2>1, MoreBelow
  <2> HIDE DEF turn
  <2> QED
    BY <1>2, <2>2
<1> HIDE DEF turn
<1>7. StrictOrder(nodes, taken)
  <2>1. \A n \in nodes : turn[n] \in Int /\ KindPlace(n[1]) \in Int
    BY <1>4, <1>5, KindPlaces
  <2>2. \A a, b \in nodes : <<a, b>> \in taken <=>
          \/ turn[a] < turn[b]
          \/ turn[a] = turn[b] /\ KindPlace(a[1]) < KindPlace(b[1])
    OBVIOUS
  <2> HIDE DEF taken
  <2>3. \A a \in nodes : <<a, a>> \notin taken
    BY <2>1, <2>2
  <2>4. \A a, b, c \in nodes : <<a, b>> \in taken /\ <<b, c>> \in taken => <<a, c>> \in taken
    BY <2>1, <2>2
  <2>5. \A a, b \in nodes : a # b => <<a, b>> \in taken \/ <<b, a>> \in taken
    <3> SUFFICES ASSUME NEW a \in nodes, NEW b \in nodes, a # b
                 PROVE  <<a, b>> \in taken \/ <<b, a>> \in taken
      OBVIOUS
    <3>1. CASE a[1] = b[1]
      <4>1. a \in OfKind(nodes, a[1]) /\ b \in OfKind(nodes, a[1])
        BY <1>4, <3>1
      <4>2. <<a, b>> \in R \/ <<b, a>> \in R
        BY <1>2, <4>1 DEF StrictOrder
      <4>3. turn[a] < turn[b] \/ turn[b] < turn[a]
        BY <1>6, <3>1, <4>2
      <4> QED
        BY <2>2, <4>3
    <3>2. CASE a[1] # b[1]
      <4>1. KindPlace(a[1]) # KindPlace(b[1])
        BY <1>4, <3>2, KindPlaces
      <4> QED
        BY <2>1, <2>2, <4>1
    <3> QED
      BY <3>1, <3>2
  <2> QED
    BY <2>3, <2>4, <2>5 DEF StrictOrder
<1>8. ASSUME NEW n \in nodes
      PROVE  \E below \in SUBSET OfKind(nodes, n[1]) :
               Cardinality(below) = turn[n] /\ \A o \in below : turn[o] < turn[n]
  <2> DEFINE below == Below(OfKind(nodes, n[1]), R, n)
  <2>1. below \in SUBSET OfKind(nodes, n[1]) /\ Cardinality(below) = turn[n]
    BY <1>2 DEF Below
  <2>2. \A o \in below : o \in nodes /\ o[1] = n[1] /\ <<o, n>> \in R
    BY DEF Below, OfKind
  <2>3. \A o \in below : turn[o] < turn[n]
    BY <1>6, <2>2
  <2> QED
    BY <2>1, <2>3
<1>9. ASSUME NEW kind, NEW k \in Nat, NEW T \in SUBSET OfKind(nodes, kind), \A n \in T : turn[n] < k
      PROVE  Cardinality(T) <= k
  <2> DEFINE S == OfKind(nodes, kind)
  <2>1. \A n \in T : n \in nodes /\ n[1] = kind
    BY DEF OfKind
  <2>2. \A n \in T : Cardinality(Below(S, R, n)) < k
    BY <1>2, <1>9, <2>1
  <2>3. IsFiniteSet(S) /\ StrictOrder(S, R) /\ T \subseteq S
    BY <1>2, <1>3
  <2> HIDE DEF S
  <2> QED
    BY <2>2, <2>3, FewBelow, Zenon
<1> QED
  BY <1>1, <1>5, <1>7, <1>8, <1>9

(* What is kept stays within the limit, and a kind loses a node only when  *)
(* no other kind keeps more than one above it.                             *)
LEMMA KeptIsFair ==
  ASSUME NEW nodes, IsFiniteSet(nodes), \A n \in nodes : IsNode(n), NEW edges, NEW limit \in Nat,
         NEW kept, kept = Kept(nodes, edges, limit)
  PROVE  /\ kept \subseteq nodes /\ Cardinality(kept) <= limit
         /\ kept # nodes => Cardinality(nodes) > limit
         /\ \A lost, other :
              Cardinality(OfKind(kept, lost)) < Cardinality(OfKind(nodes, lost)) =>
                Cardinality(OfKind(kept, other)) <= Cardinality(OfKind(kept, lost)) + 1
<1>0. CASE Cardinality(nodes) <= limit
  <2>1. kept = nodes
    BY <1>0 DEF Kept
  <2>2. \A kind : Cardinality(OfKind(nodes, kind)) \in Nat
    <3>1. \A kind : OfKind(nodes, kind) \in SUBSET nodes
      BY DEF OfKind
    <3> QED
      BY <3>1, FS_Subset, FS_CardinalityType
  <2> QED
    BY <1>0, <2>1, <2>2
<1> SUFFICES ASSUME ~ (Cardinality(nodes) <= limit)
             PROVE  /\ kept \subseteq nodes /\ Cardinality(kept) <= limit
                    /\ \A lost, other :
                         Cardinality(OfKind(kept, lost)) < Cardinality(OfKind(nodes, lost)) =>
                           Cardinality(OfKind(kept, other)) <= Cardinality(OfKind(kept, lost)) + 1
  BY <1>0, FS_CardinalityType
<1> DEFINE R == TakenFirst(nodes, edges)
<1>1. PICK turn \in [nodes -> Nat] :
           /\ R = {p \in nodes \X nodes :
                  \/ turn[p[1]] < turn[p[2]]
                  \/ turn[p[1]] = turn[p[2]] /\ KindPlace(p[1][1]) < KindPlace(p[2][1])}
           /\ StrictOrder(nodes, R)
           /\ \A n \in nodes : \E below \in SUBSET OfKind(nodes, n[1]) :
                 Cardinality(below) = turn[n] /\ \A o \in below : turn[o] < turn[n]
           /\ \A kind : \A k \in Nat : \A T \in SUBSET OfKind(nodes, kind) :
                 (\A n \in T : turn[n] < k) => Cardinality(T) <= k
  BY TurnsInOrder, ZenonT(40)
<1>2. kept = {n \in nodes : Cardinality(Below(nodes, R, n)) < limit}
  BY DEF Kept, FirstNodes, Below
<1>3. \A a, b \in nodes : turn[a] < turn[b] => <<a, b>> \in R
  BY <1>1
<1> HIDE DEF R
<1>4. kept \subseteq nodes /\ IsFiniteSet(kept) /\ Cardinality(kept) \in Nat /\ Cardinality(kept) <= limit
  <2>1. kept \subseteq nodes /\ \A a \in kept : Cardinality(Below(nodes, R, a)) < limit
    BY <1>2
  <2> QED
    BY <1>1, <2>1, FewBelow
<1>5. ASSUME NEW a \in nodes, NEW b \in kept, turn[a] < turn[b]
      PROVE  a \in kept
  <2>1. b \in nodes /\ <<a, b>> \in R /\ Cardinality(Below(nodes, R, b)) < limit
    BY <1>2, <1>3, <1>5
  <2>2. /\ Cardinality(Below(nodes, R, a)) < Cardinality(Below(nodes, R, b))
        /\ Cardinality(Below(nodes, R, a)) \in Nat /\ Cardinality(Below(nodes, R, b)) \in Nat
    BY <1>1, <2>1, MoreBelow
  <2> QED
    BY <1>2, <2>1, <2>2
<1>6. \A kind : /\ OfKind(kept, kind) \subseteq OfKind(nodes, kind) /\ IsFiniteSet(OfKind(kept, kind))
                /\ Cardinality(OfKind(kept, kind)) \in Nat
  <2>1. \A kind : OfKind(kept, kind) \in SUBSET kept /\ OfKind(kept, kind) \subseteq OfKind(nodes, kind)
    BY <1>4 DEF OfKind
  <2> QED
    BY <1>4, <2>1, FS_Subset, FS_CardinalityType
<1>7. ASSUME NEW lost, NEW other,
             Cardinality(OfKind(kept, lost)) < Cardinality(OfKind(nodes, lost))
      PROVE  Cardinality(OfKind(kept, other)) <= Cardinality(OfKind(kept, lost)) + 1
  <2> DEFINE left == {n \in OfKind(nodes, lost) : n \notin kept}
             turns == {turn[n] : n \in left}
  <2>1. left # {}
    <3>1. OfKind(kept, lost) # OfKind(nodes, lost)
      BY <1>6, <1>7
    <3> QED
      BY <1>6, <3>1 DEF OfKind
  <2>2. left \subseteq nodes
    BY DEF OfKind
  <2>3. PICK t \in turns : \A u \in turns : t <= u
    <3>1. turns \subseteq Nat /\ turns # {}
      BY <2>1, <2>2
    <3> HIDE DEF turns
    <3> QED
      BY <3>1, LeastNumber
  <2>4. PICK x \in left : t = turn[x] /\ t \in Nat /\ x \in nodes /\ x[1] = lost /\ x \notin kept
    BY <2>2 DEF OfKind
  <2>5. PICK below \in SUBSET OfKind(nodes, lost) :
          Cardinality(below) = turn[x] /\ \A o \in below : turn[o] < turn[x]
    BY <1>1, <2>4
  <2>6. below \subseteq OfKind(kept, lost)
    <3> SUFFICES ASSUME NEW o \in below PROVE o \in OfKind(kept, lost)
      OBVIOUS
    <3>1. o \in nodes /\ o[1] = lost /\ turn[o] < t /\ turn[o] \in Nat
      BY <2>4, <2>5 DEF OfKind
    <3>2. o \notin left
      BY <2>3, <2>4, <3>1
    <3> QED
      BY <3>1, <3>2 DEF OfKind
  <2>7. t <= Cardinality(OfKind(kept, lost))
    BY <1>6, <2>4, <2>5, <2>6, FS_Subset
  <2>8. \A z \in OfKind(kept, other) : turn[z] < t + 1
    <3> SUFFICES ASSUME NEW z \in OfKind(kept, other), turn[z] >= t + 1 PROVE FALSE
      BY <1>4, <2>4 DEF OfKind
    <3>1. z \in kept /\ turn[x] < turn[z]
      BY <1>4, <2>4 DEF OfKind
    <3> QED
      BY <1>5, <2>4, <3>1
  <2>9. Cardinality(OfKind(kept, other)) <= t + 1
    <3>1. t + 1 \in Nat /\ OfKind(kept, other) \in SUBSET OfKind(nodes, other)
      BY <1>6, <2>4
    <3>2. \A T \in SUBSET OfKind(nodes, other) : (\A n \in T : turn[n] < t + 1) => Cardinality(T) <= t + 1
      BY <1>1, <3>1, Zenon
    <3> QED
      BY <2>8, <3>1, <3>2, Zenon
  <2> QED
    BY <1>6, <2>4, <2>7, <2>9
<1> QED
  BY <1>4, <1>7

(* A view of a store: a journal and claims of any length, and the chunks   *)
(* of any episodes.                                                        *)
IsView(view) ==
  /\ \E k \in Nat : view.events \in [1 .. k -> Journal]
  /\ \E k \in Nat : view.claims \in [1 .. k -> Remembered]
  /\ IsFiniteSet(DOMAIN view.episodes) /\ DOMAIN view.episodes \subseteq Int
  /\ \A x \in DOMAIN view.episodes : view.episodes[x] \in Seq(Int)

(* What a function gives for finitely many arguments is finite.            *)
LEMMA ImageIsFinite ==
  ASSUME NEW S, IsFiniteSet(S), NEW f, DOMAIN f = S
  PROVE  IsFiniteSet({f[x] : x \in S})
<1> DEFINE T == {f[x] : x \in S}
           g == [x \in S |-> f[x]]
<1>1. g \in Surjection(S, T)
  BY DEF Surjection
<1> QED
  BY <1>1, FS_Surjection

(* The first items of a sequence are some of its items, and finitely many. *)
LEMMA FirstsAreFew ==
  ASSUME NEW seq, NEW k \in Nat, DOMAIN seq = 1 .. k, seq = [j \in 1 .. k |-> seq[j]], Len(seq) = k,
         NEW n \in Nat
  PROVE  /\ ToSet(FirstOf(seq, n)) \subseteq {seq[j] : j \in 1 .. k}
         /\ IsFiniteSet(ToSet(FirstOf(seq, n)))
<1>1. PICK first : first = FirstOf(seq, n)
  OBVIOUS
<1>2. CASE k <= n
  <2>1. first = seq
    BY <1>1, <1>2 DEF FirstOf
  <2>2. ToSet(first) = {seq[j] : j \in 1 .. k}
    BY <2>1 DEF ToSet
  <2>3. IsFiniteSet({seq[j] : j \in 1 .. k})
    BY FS_Interval, ImageIsFinite
  <2> QED
    BY <1>1, <2>2, <2>3
<1>3. CASE ~ (k <= n)
  <2>1. first = [j \in 1 .. n |-> seq[j]]
    BY <1>1, <1>3 DEF FirstOf, SubSeq
  <2>2. ToSet(first) = {seq[j] : j \in 1 .. n}
    BY <2>1 DEF ToSet
  <2>3. {seq[j] : j \in 1 .. n} \subseteq {seq[j] : j \in 1 .. k}
    BY <1>3
  <2>4. IsFiniteSet({seq[j] : j \in 1 .. k})
    BY FS_Interval, ImageIsFinite
  <2> QED
    BY <1>1, <2>2, <2>3, <2>4, FS_Subset
<1> QED
  BY <1>2, <1>3

(* What is drawn of a view is of the view, and finitely many.              *)
LEMMA DrawnAreFew ==
  ASSUME NEW view, IsView(view), NEW limit \in Nat
  PROVE  /\ DrawnClaims(view, limit) \subseteq Remembered /\ IsFiniteSet(DrawnClaims(view, limit))
         /\ DrawnClaims(view, limit) \subseteq ToSet(view.claims)
         /\ ToSet(view.claims) \subseteq Remembered
         /\ DrawnEpisodes(view, limit) \subseteq DOMAIN view.episodes
         /\ DrawnSources(view, limit) \subseteq DOMAIN view.episodes
         /\ \A x \in DOMAIN view.episodes :
              /\ ToSet(FirstOf(view.episodes[x], limit)) \subseteq Int
              /\ IsFiniteSet(ToSet(FirstOf(view.episodes[x], limit)))
<1>1. PICK k \in Nat : view.claims \in [1 .. k -> Remembered]
  BY DEF IsView
<1>2. view.claims = [j \in 1 .. k |-> view.claims[j]] /\ DOMAIN view.claims = 1 .. k /\ Len(view.claims) = k
  BY <1>1
<1>3. /\ DrawnClaims(view, limit) \subseteq {view.claims[j] : j \in 1 .. k}
      /\ IsFiniteSet(DrawnClaims(view, limit))
  BY <1>2, FirstsAreFew DEF DrawnClaims
<1>4. ToSet(view.claims) = {view.claims[j] : j \in 1 .. k} /\ ToSet(view.claims) \subseteq Remembered
  BY <1>1, <1>2 DEF ToSet
<1>5. DrawnEpisodes(view, limit) \subseteq DOMAIN view.episodes /\ DrawnSources(view, limit) \subseteq DOMAIN view.episodes
  BY DEF DrawnEpisodes, DrawnSources, Sources
<1>6. ASSUME NEW x \in DOMAIN view.episodes
      PROVE  /\ ToSet(FirstOf(view.episodes[x], limit)) \subseteq Int
             /\ IsFiniteSet(ToSet(FirstOf(view.episodes[x], limit)))
  <2> DEFINE seq == view.episodes[x]
             n == Len(seq)
  <2>0. seq \in Seq(Int)
    BY <1>6 DEF IsView
  <2> HIDE DEF seq
  <2>1. n \in Nat /\ DOMAIN seq = 1 .. n /\ seq = [j \in 1 .. n |-> seq[j]]
    BY <2>0
  <2>2. {seq[j] : j \in 1 .. n} \subseteq Int
    BY <2>0
  <2> HIDE DEF n
  <2>3. n = Len(seq)
    BY DEF n
  <2>4. ToSet(FirstOf(seq, limit)) \subseteq {seq[j] : j \in 1 .. n} /\ IsFiniteSet(ToSet(FirstOf(seq, limit)))
    BY <2>0, <2>1, <2>3, FirstsAreFew
  <2> QED
    BY <2>2, <2>4 DEF seq
<1> QED
  BY <1>3, <1>4, <1>5, <1>6

(* The nodes of a view are finitely many, and a node of a claim is that of *)
(* a drawn claim.                                                          *)
LEMMA NodesAreNodes ==
  ASSUME NEW view, IsView(view), NEW limit \in Nat
  PROVE  /\ IsFiniteSet(AllNodes(view, limit)) /\ \A n \in AllNodes(view, limit) : IsNode(n)
         /\ \A n \in AllNodes(view, limit) :
              n[1] = "claim" => \E f \in DrawnClaims(view, limit) : n = <<"claim", f.id>>
<1> DEFINE E == DrawnEvents(view, limit)
           X == DrawnEpisodes(view, limit) \cup DrawnSources(view, limit)
           C == DrawnClaims(view, limit)
           chunks(x) == {<<"chunk", c>> : c \in ToSet(FirstOf(view.episodes[x], limit))}
           fromEvents == UNION {EventNodes(k, view.events[k]) : k \in E}
           fromEpisodes == {<<"episode", x>> : x \in X}
           fromChunks == UNION {chunks(x) : x \in DrawnEpisodes(view, limit)}
           fromClaims == {<<"claim", f.id>> : f \in C}
<1> SUFFICES /\ IsFiniteSet(AllNodes(view, limit))
                 /\ \A n \in AllNodes(view, limit) :
                      IsNode(n) /\ (n[1] = "claim" => \E f \in C : n = <<"claim", f.id>>)
  OBVIOUS
<1>1. AllNodes(view, limit) = fromEvents \cup fromEpisodes \cup fromChunks \cup fromClaims
  BY DEF AllNodes
<1>2. ToSet(Kinds) = {"episode", "claim", "recall", "session", "turn", "tool_call", "chunk"}
  <2>1. DOMAIN Kinds = {1, 2, 3, 4, 5, 6, 7}
    BY DEF Kinds
  <2> QED
    BY <2>1 DEF ToSet, Kinds
<1>3. /\ C \subseteq Remembered /\ IsFiniteSet(C)
      /\ DrawnEpisodes(view, limit) \subseteq DOMAIN view.episodes /\ X \subseteq DOMAIN view.episodes
      /\ \A x \in DOMAIN view.episodes :
              /\ ToSet(FirstOf(view.episodes[x], limit)) \subseteq Int
              /\ IsFiniteSet(ToSet(FirstOf(view.episodes[x], limit)))
  BY DrawnAreFew, Zenon
<1>4. /\ IsFiniteSet(fromEvents)
      /\ \A n \in fromEvents : IsNode(n) /\ n[1] # "claim"
  <2>1. PICK k \in Nat : view.events \in [1 .. k -> Journal]
    BY DEF IsView
  <2>2. E \subseteq 1 .. k /\ IsFiniteSet(E)
    <3>1. Len(view.events) = k
      BY <2>1
    <3>2. Len(Newest(view.events, limit)) \in 0 .. k
      BY <2>1, <3>1 DEF Newest
    <3>3. E \subseteq 1 .. k
      BY <3>1, <3>2 DEF DrawnEvents
    <3>4. E \in SUBSET (1 .. k) /\ IsFiniteSet(1 .. k)
      BY <3>3, FS_Interval
    <3> HIDE DEF E
    <3> QED
      BY <3>3, <3>4, FS_Subset
  <2>3. ASSUME NEW j \in E
        PROVE  /\ IsFiniteSet(EventNodes(j, view.events[j]))
               /\ \A n \in EventNodes(j, view.events[j]) : IsNode(n) /\ n[1] # "claim"
    <3> DEFINE e == view.events[j]
    <3>1. j \in Int /\ (e.kind = "agent" => e.session \in Int)
      BY <2>1, <2>2, SamplesAssumption
    <3> HIDE DEF e
    <3>2. EventNode(j, e) \in {<<"recall", j>>, <<"tool_call", j>>, <<"turn", j>>}
      BY DEF EventNode
    <3>3. IsNode(EventNode(j, e)) /\ EventNode(j, e)[1] # "claim"
      BY <1>2, <3>1, <3>2 DEF IsNode
    <3>4. e.kind = "agent" => IsNode(<<"session", e.session>>) /\ <<"session", e.session>>[1] # "claim"
      BY <1>2, <3>1 DEF IsNode
    <3>5. \A n \in EventNodes(j, e) : IsNode(n) /\ n[1] # "claim"
      BY <3>3, <3>4 DEF EventNodes
    <3>6. IsFiniteSet(EventNodes(j, e))
      BY FS_Singleton, FS_EmptySet, FS_Union DEF EventNodes
    <3> QED
      BY <3>5, <3>6 DEF e
  <2>4. IsFiniteSet({EventNodes(j, view.events[j]) : j \in E})
    <3> DEFINE drawn == [j \in E |-> EventNodes(j, view.events[j])]
    <3>1. {EventNodes(j, view.events[j]) : j \in E} = {drawn[j] : j \in E} /\ DOMAIN drawn = E
      OBVIOUS
    <3> HIDE DEF drawn
    <3> QED
      BY <2>2, <3>1, ImageIsFinite
  <2>5. IsFiniteSet(fromEvents)
    BY <2>3, <2>4, FS_UNION
  <2> QED
    BY <2>3, <2>5
<1>5. IsFiniteSet(fromEpisodes) /\ \A n \in fromEpisodes : IsNode(n) /\ n[1] # "claim"
  <2>1. IsFiniteSet(X) /\ X \subseteq Int
    BY <1>3, FS_Subset DEF IsView
  <2>2. IsFiniteSet(fromEpisodes)
    <3> DEFINE drawn == [x \in X |-> <<"episode", x>>]
    <3>1. fromEpisodes = {drawn[x] : x \in X} /\ DOMAIN drawn = X
      OBVIOUS
    <3> HIDE DEF drawn
    <3> QED
      BY <2>1, <3>1, ImageIsFinite
  <2> QED
    BY <1>2, <2>1, <2>2 DEF IsNode
<1>6. IsFiniteSet(fromChunks) /\ \A n \in fromChunks : IsNode(n) /\ n[1] # "claim"
  <2>1. IsFiniteSet(DrawnEpisodes(view, limit))
    BY <1>3, FS_Subset DEF IsView
  <2>2. ASSUME NEW x \in DrawnEpisodes(view, limit)
        PROVE  IsFiniteSet(chunks(x)) /\ \A n \in chunks(x) : IsNode(n) /\ n[1] # "claim"
    <3> DEFINE T == ToSet(FirstOf(view.episodes[x], limit))
    <3>1. IsFiniteSet(T) /\ T \subseteq Int
      BY <1>3
    <3> HIDE DEF T
    <3>2. IsFiniteSet({<<"chunk", c>> : c \in T})
      <4> DEFINE drawn == [c \in T |-> <<"chunk", c>>]
      <4>1. {<<"chunk", c>> : c \in T} = {drawn[c] : c \in T} /\ DOMAIN drawn = T
        OBVIOUS
      <4> HIDE DEF drawn
      <4>2. DOMAIN drawn = T /\ IsFiniteSet(T)
        BY <3>1, <4>1
      <4>3. IsFiniteSet({drawn[c] : c \in T})
        BY <4>2, ImageIsFinite, Zenon
      <4> QED
        BY <4>1, <4>3
    <3>3. \A n \in {<<"chunk", c>> : c \in T} : IsNode(n) /\ n[1] # "claim"
      BY <1>2, <3>1 DEF IsNode
    <3> QED
      BY <3>2, <3>3 DEF T
  <2>3. IsFiniteSet({chunks(x) : x \in DrawnEpisodes(view, limit)})
    <3> DEFINE drawn == [x \in DrawnEpisodes(view, limit) |-> chunks(x)]
    <3>1. /\ {chunks(x) : x \in DrawnEpisodes(view, limit)} = {drawn[x] : x \in DrawnEpisodes(view, limit)}
          /\ DOMAIN drawn = DrawnEpisodes(view, limit)
      OBVIOUS
    <3> HIDE DEF drawn
    <3> QED
      BY <2>1, <3>1, ImageIsFinite
  <2>4. IsFiniteSet(fromChunks)
    BY <2>2, <2>3, FS_UNION
  <2> QED
    BY <2>2, <2>4
<1>7. IsFiniteSet(fromClaims) /\ \A n \in fromClaims : IsNode(n)
  <2>1. IsFiniteSet(fromClaims)
    <3> DEFINE drawn == [f \in C |-> <<"claim", f.id>>]
    <3>1. fromClaims = {drawn[f] : f \in C} /\ DOMAIN drawn = C
      OBVIOUS
    <3> HIDE DEF drawn
    <3> QED
      BY <1>3, <3>1, ImageIsFinite
  <2> QED
    BY <1>2, <1>3, <2>1, SamplesAssumption DEF IsNode
<1> HIDE DEF fromEvents, fromEpisodes, fromChunks
<1>8. IsFiniteSet(AllNodes(view, limit))
  BY <1>1, <1>4, <1>5, <1>6, <1>7, FS_Union
<1> QED
  BY <1>1, <1>4, <1>5, <1>6, <1>7, <1>8

(* The snapshot of every view of the store, of any size, within every      *)
(* budget is closed and fair (evidence_graph).                             *)
THEOREM GraphOfEveryView ==
  ASSUME NEW view, IsView(view), NEW limit \in Nat \ {0}
  PROVE  ClosedAndFair(view, limit)
<1> DEFINE all == AllNodes(view, limit)
           edges == AllEdges(view, limit)
           graph == EvidenceGraph(view, limit)
           kept == Kept(all, edges, limit)
           drawn == {f \in ToSet(view.claims) : <<"claim", f.id>> \in kept}
           unseen == {x \in UNION {Sources(view, f) : f \in drawn} : <<"episode", x>> \notin kept}
           omitted == {x \in DrawnSources(view, limit) : <<"episode", x>> \notin kept}
<1>1. /\ graph.nodes = kept /\ graph.edges = {e \in edges : e[1] \in kept /\ e[2] \in kept}
      /\ Cardinality(all) > limit => graph.truncated
      /\ graph.omitted = Cardinality(omitted)
  BY DEF EvidenceGraph
<1>2. /\ IsFiniteSet(all) /\ \A n \in all : IsNode(n)
      /\ \A n \in all : n[1] = "claim" => \E f \in DrawnClaims(view, limit) : n = <<"claim", f.id>>
  BY NodesAreNodes, Zenon
<1> HIDE DEF all, edges, graph
<1>3. /\ kept \subseteq all /\ Cardinality(kept) <= limit
      /\ kept # all => Cardinality(all) > limit
      /\ \A lost, other :
           Cardinality(OfKind(kept, lost)) < Cardinality(OfKind(all, lost)) =>
             Cardinality(OfKind(kept, other)) <= Cardinality(OfKind(kept, lost)) + 1
  BY <1>2, KeptIsFair
<1>4. /\ DrawnClaims(view, limit) \subseteq Remembered /\ ToSet(view.claims) \subseteq Remembered
      /\ DrawnSources(view, limit) \subseteq DOMAIN view.episodes
  BY DrawnAreFew, Zenon
<1> HIDE DEF kept
<1>5. \A f \in drawn : f \in DrawnClaims(view, limit)
  <2> SUFFICES ASSUME NEW f \in drawn PROVE f \in DrawnClaims(view, limit)
    OBVIOUS
  <2>1. f \in Remembered /\ <<"claim", f.id>> \in all
    BY <1>3, <1>4
  <2>2. PICK g \in DrawnClaims(view, limit) : <<"claim", f.id>> = <<"claim", g.id>>
    BY <1>2, <2>1
  <2> QED
    BY <1>4, <2>1, <2>2, SamplesAssumption
<1>6. unseen \subseteq omitted
  <2> SUFFICES ASSUME NEW x \in unseen PROVE x \in omitted
    OBVIOUS
  <2>1. PICK f \in drawn : x \in Sources(view, f)
    OBVIOUS
  <2> QED
    BY <1>5, <2>1 DEF DrawnSources
<1>7. IsFiniteSet(omitted)
  <2>1. omitted \in SUBSET DOMAIN view.episodes
    BY <1>4
  <2> QED
    BY <2>1, FS_Subset DEF IsView
<1>8. Cardinality(unseen) <= Cardinality(omitted) /\ Cardinality(omitted) \in Nat /\ Cardinality(unseen) \in Nat
  <2> HIDE DEF unseen, omitted
  <2> QED
    BY <1>6, <1>7, FS_Subset, FS_CardinalityType
<1>9. graph.omitted >= Cardinality(unseen)
  <2> HIDE DEF unseen, omitted
  <2> QED
    BY <1>1, <1>8
<1>10. \A lost, other \in ToSet(Kinds) :
         Cardinality({n \in kept : n[1] = lost}) < Cardinality({n \in all : n[1] = lost}) =>
           Cardinality({n \in kept : n[1] = other}) <= Cardinality({n \in kept : n[1] = lost}) + 1
  BY <1>3, Zenon DEF OfKind
<1>11. \A e \in graph.edges : {e[1], e[2]} \subseteq graph.nodes
  BY <1>1
<1>12. /\ Cardinality(graph.nodes) <= limit /\ graph.nodes \subseteq all
       /\ graph.nodes # all => graph.truncated
  BY <1>1, <1>3
<1> QED
  BY <1>1, <1>9, <1>10, <1>11, <1>12, Zenon DEF ClosedAndFair, all, graph

(* A sample of a graph is a view of a store.                               *)
LEMMA SampledViews ==
  ASSUME NEW s \in GraphSamples
  PROVE  IsView(s.view) /\ s.limit \in Nat \ {0}
<1> DEFINE view == s.view
<1>1. /\ s.limit \in Limits /\ view.events \in UpTo(Journal, 2) /\ view.claims \in UpTo(Remembered, 2)
      /\ \E xs \in SUBSET DOMAIN Holdings : view.episodes = [x \in xs |-> Holdings[x]]
  BY SMT DEF GraphSamples, Distinct
<1>2. \A S : \A q \in UpTo(S, 2) : \E k \in Nat : q \in [1 .. k -> S]
  <2> SUFFICES ASSUME NEW S, NEW q \in UpTo(S, 2)
               PROVE  \E k \in Nat : q \in [1 .. k -> S]
    OBVIOUS
  <2>1. PICK k \in 0 .. 2 : q \in [1 .. k -> S]
    BY Zenon DEF UpTo
  <2>2. k \in Nat
    OBVIOUS
  <2> QED
    BY <2>1, <2>2, Zenon
<1>3. /\ \E k \in Nat : view.events \in [1 .. k -> Journal]
      /\ \E k \in Nat : view.claims \in [1 .. k -> Remembered]
  BY <1>1, <1>2, Zenon
<1>4. PICK xs \in SUBSET DOMAIN Holdings : view.episodes = [x \in xs |-> Holdings[x]]
  BY <1>1
<1>5. IsFiniteSet(xs) /\ xs \subseteq Int
  BY SamplesAssumption, FS_Subset
<1>6. \A x \in xs : Holdings[x] \in Seq(Int)
  BY SamplesAssumption
<1>7. /\ IsFiniteSet(DOMAIN view.episodes) /\ DOMAIN view.episodes \subseteq Int
      /\ \A x \in DOMAIN view.episodes : view.episodes[x] \in Seq(Int)
  BY <1>4, <1>5, <1>6
<1> QED
  BY <1>1, <1>3, <1>7, SamplesAssumption DEF IsView

(* Graphs: whatever the journal, the episodes and the claims are.          *)
THEOREM GraphOfEverySample ==
  ASSUME SamplesInit
  PROVE  GraphIsClosedAndFair
<1> SUFFICES ASSUME sample.topic = "graph"
             PROVE  ClosedAndFair(sample.view, sample.limit)
  BY DEF GraphIsClosedAndFair
<1>1. IsView(sample.view) /\ sample.limit \in Nat \ {0}
  BY SampleTopics, SampledViews
<1> QED
  BY <1>1, GraphOfEveryView

-----------------------------------------------------------------------------
(***************************************************************************)
(* Answers about dates                                                     *)
(***************************************************************************)

(* Finitely many things have one of the largest number.                    *)
LEMMA LargestOf ==
  ASSUME NEW S, IsFiniteSet(S), S # {}, NEW f \in [S -> Int]
  PROVE  \E x \in S : \A y \in S : f[y] <= f[x]
<1> DEFINE Above(x) == {y \in S : f[y] > f[x]}
           sizes == {Cardinality(Above(x)) : x \in S}
<1>1. ASSUME NEW x \in S
      PROVE  IsFiniteSet(Above(x)) /\ Cardinality(Above(x)) \in Nat
  <2>1. Above(x) \in SUBSET S
    OBVIOUS
  <2> QED
    BY <2>1, FS_Subset, FS_CardinalityType
<1>2. PICK n \in sizes : \A k \in sizes : n <= k
  <2>1. sizes \subseteq Nat /\ sizes # {}
    BY <1>1
  <2> HIDE DEF sizes
  <2> QED
    BY <2>1, LeastNumber
<1>3. PICK x \in S : n = Cardinality(Above(x))
  OBVIOUS
<1>4. ASSUME NEW y \in S, ~ (f[y] <= f[x])
      PROVE  FALSE
  <2>1. f[y] > f[x] /\ f[y] \in Int /\ f[x] \in Int
    BY <1>4
  <2>2. Above(y) \subseteq Above(x) /\ y \in Above(x) /\ y \notin Above(y)
    BY <2>1
  <2>3. Cardinality(Above(x)) <= Cardinality(Above(y))
    BY <1>2, <1>3
  <2> HIDE DEF Above
  <2>4. Above(y) \in SUBSET Above(x) /\ Above(y) # Above(x)
    BY <2>2
  <2> QED
    BY <1>1, <2>3, <2>4, FS_Subset
<1> QED
  BY <1>4

(* And one of the smallest.                                                *)
LEMMA SmallestOf ==
  ASSUME NEW S, IsFiniteSet(S), S # {}, NEW f \in [S -> Int]
  PROVE  \E x \in S : \A y \in S : f[x] <= f[y]
<1> DEFINE g == [x \in S |-> - f[x]]
<1>1. g \in [S -> Int]
  OBVIOUS
<1>2. PICK x \in S : \A y \in S : g[y] <= g[x]
  <2> HIDE DEF g
  <2> QED
    BY <1>1, LargestOf
<1>3. \A y \in S : f[x] <= f[y]
  <2> SUFFICES ASSUME NEW y \in S PROVE f[x] <= f[y]
    OBVIOUS
  <2>1. - f[y] <= - f[x]
    BY <1>2
  <2> QED
    BY <2>1
<1> QED
  BY <1>3

(* A pack of anchors.                                                      *)
IsPack(pack) == \E n \in Nat : pack \in [1 .. n -> Anchors]

(* ground finds the closest passage, or there is none that is close.       *)
LEMMA GroundIsClosest ==
  ASSUME NEW pack, IsPack(pack)
  PROVE  /\ Ground(pack) \subseteq Closest(pack)
         /\ Ground(pack) = {} => Closest(pack) = {}
         /\ Ground(pack) = {} \/ \E a : Ground(pack) = {a}
<1>1. PICK n \in Nat : pack \in [1 .. n -> Anchors]
  BY DEF IsPack
<1>2. DOMAIN pack = 1 .. n /\ \A k \in 1 .. n : pack[k] \in Anchors /\ pack[k].similarity \in Int
  <2>1. \A a \in Anchors : a.similarity \in Cosines \cup {NoMatch}
    BY SamplesAssumption
  <2>2. Cosines \cup {NoMatch} \subseteq Int
    BY DEF Cosines, NoMatch
  <2> QED
    BY <1>1, <2>1, <2>2
<1>3. ToSet(pack) = {pack[k] : k \in 1 .. n}
  BY <1>2 DEF ToSet
<1> DEFINE IsBest(k) == \A j \in 1 .. n :
             \/ pack[k].similarity > pack[j].similarity
             \/ pack[k].similarity = pack[j].similarity /\ k >= j
           best == CHOOSE k \in 1 .. n : IsBest(k)
<1>4. Ground(pack) = IF pack # <<>> /\ Close(pack[best]) THEN {pack[best]} ELSE {}
  BY <1>2 DEF Ground
<1>5. CASE n = 0
  <2>1. pack = <<>> /\ ToSet(pack) = {}
    BY <1>1, <1>3, <1>5
  <2> QED
    BY <1>4, <2>1 DEF Closest, CloseIn
<1>6. CASE n > 0
  <2> DEFINE sim == [k \in 1 .. n |-> pack[k].similarity]
  <2>1. sim \in [1 .. n -> Int] /\ 1 .. n # {} /\ IsFiniteSet(1 .. n)
    <3>1. sim \in [1 .. n -> Int]
      BY <1>2
    <3>2. 1 \in 1 .. n
      BY <1>6
    <3>3. IsFiniteSet(1 .. n)
      BY <1>2, FS_Interval
    <3> HIDE DEF sim
    <3> QED
      BY <3>1, <3>2, <3>3
  <2>2. PICK top \in 1 .. n : \A j \in 1 .. n : sim[j] <= sim[top]
    <3> HIDE DEF sim
    <3> QED
      BY <2>1, LargestOf
  <2> DEFINE tops == {k \in 1 .. n : sim[k] = sim[top]}
             self == [k \in tops |-> k]
  <2>3. IsFiniteSet(tops) /\ tops # {} /\ self \in [tops -> Int]
    <3>1. tops \in SUBSET (1 .. n) /\ top \in tops
      OBVIOUS
    <3>2. self \in [tops -> Int]
      OBVIOUS
    <3> HIDE DEF tops, self
    <3>3. IsFiniteSet(tops)
      BY <2>1, <3>1, FS_Subset
    <3> QED
      BY <3>1, <3>2, <3>3
  <2>4. PICK k \in tops : \A j \in tops : self[j] <= self[k]
    <3> HIDE DEF tops, self
    <3> QED
      BY <2>3, LargestOf
  <2>5. k \in 1 .. n /\ sim[k] = sim[top] /\ \A j \in 1 .. n : sim[j] = sim[top] => j <= k
    BY <2>4
  <2>6. IsBest(k)
    <3> SUFFICES ASSUME NEW j \in 1 .. n
                 PROVE  \/ pack[k].similarity > pack[j].similarity
                        \/ pack[k].similarity = pack[j].similarity /\ k >= j
      OBVIOUS
    <3>1. sim[j] <= sim[k] /\ (sim[j] = sim[k] => j <= k) /\ sim[j] \in Int /\ sim[k] \in Int
      BY <2>1, <2>2, <2>5
    <3>2. sim[j] = pack[j].similarity /\ sim[k] = pack[k].similarity /\ j \in Int /\ k \in Int
      BY <2>5
    <3> HIDE DEF sim
    <3> QED
      BY <3>1, <3>2
  <2> HIDE DEF IsBest
  <2>7. best \in 1 .. n /\ IsBest(best)
    BY <2>5, <2>6, Zenon
  <2> HIDE DEF best
  <2>8. \A j \in 1 .. n : pack[j].similarity <= pack[best].similarity
    BY <1>2, <2>7 DEF IsBest
  <2>9. pack # <<>> /\ pack[best] \in ToSet(pack) /\ \A b \in ToSet(pack) : b.similarity <= pack[best].similarity
    BY <1>2, <1>3, <2>7, <2>8
  <2>10. Close(pack[best]) => pack[best] \in Closest(pack)
    BY <2>9 DEF Closest, CloseIn
  <2>11. ASSUME NEW a \in Closest(pack)
         PROVE  Close(pack[best])
    <3>1. a \in ToSet(pack) /\ Close(a) /\ pack[best].similarity <= a.similarity /\ a.similarity <= pack[best].similarity
      BY <2>9 DEF Closest, CloseIn
    <3>2. a.similarity \in Int /\ pack[best].similarity \in Int
      BY <1>2, <1>3, <2>7, <3>1
    <3>3. a.similarity = pack[best].similarity
      BY <3>1, <3>2
    <3> QED
      BY <3>1, <3>3 DEF Close
  <2> QED
    BY <1>4, <2>9, <2>10, <2>11
<1> HIDE DEF best
<1>7. n = 0 \/ n > 0
  OBVIOUS
<1> QED
  BY <1>5, <1>6, <1>7

(* The first passages of the episodes of a pack: one for every episode     *)
(* that a close passage is of.                                             *)
LEMMA FirstsOfEpisodes ==
  ASSUME NEW pack, IsPack(pack)
  PROVE  LET firsts == FirstOfEpisode(pack)
         IN  /\ IsFiniteSet(firsts) /\ firsts \subseteq Nat
             /\ \A k \in firsts : pack[k] \in CloseIn(pack)
             /\ \A j, k \in firsts : pack[j].episode = pack[k].episode => j = k
             /\ \A a \in CloseIn(pack) : \E k \in firsts : pack[k].episode = a.episode
             /\ Cardinality(firsts) = Cardinality({a.episode : a \in CloseIn(pack)})
             /\ IsFiniteSet({a.episode : a \in CloseIn(pack)})
<1> DEFINE firsts == FirstOfEpisode(pack)
           episodes == {a.episode : a \in CloseIn(pack)}
<1>1. PICK n \in Nat : pack \in [1 .. n -> Anchors]
  BY DEF IsPack
<1>2. DOMAIN pack = 1 .. n /\ CloseIn(pack) = {a \in {pack[k] : k \in 1 .. n} : Close(a)}
  BY <1>1 DEF CloseIn, ToSet
<1>3. firsts = {k \in 1 .. n : /\ Close(pack[k])
                               /\ \A j \in 1 .. k - 1 : Close(pack[j]) => pack[j].episode # pack[k].episode}
  BY <1>2 DEF FirstOfEpisode
<1>4. IsFiniteSet(firsts) /\ firsts \subseteq Nat
  <2>1. firsts \in SUBSET (1 .. n) /\ IsFiniteSet(1 .. n)
    BY <1>3, FS_Interval
  <2> QED
    BY <2>1, FS_Subset
<1>5. \A k \in firsts : pack[k] \in CloseIn(pack)
  BY <1>2, <1>3
<1>6. \A j, k \in firsts : pack[j].episode = pack[k].episode => j = k
  <2> SUFFICES ASSUME NEW j \in firsts, NEW k \in firsts, pack[j].episode = pack[k].episode, j # k
               PROVE  FALSE
    OBVIOUS
  <2>1. j \in 1 .. n /\ k \in 1 .. n /\ Close(pack[j]) /\ Close(pack[k])
    BY <1>3
  <2>2. CASE j < k
    <3>1. j \in 1 .. k - 1
      BY <2>1, <2>2
    <3> QED
      BY <1>3, <2>1, <3>1
  <2>3. CASE k < j
    <3>1. k \in 1 .. j - 1
      BY <2>1, <2>3
    <3> QED
      BY <1>3, <2>1, <3>1
  <2> QED
    BY <2>1, <2>2, <2>3
<1>7. \A a \in CloseIn(pack) : \E k \in firsts : pack[k].episode = a.episode
  <2> SUFFICES ASSUME NEW a \in CloseIn(pack)
               PROVE  \E k \in firsts : pack[k].episode = a.episode
    OBVIOUS
  <2> DEFINE same == {k \in 1 .. n : Close(pack[k]) /\ pack[k].episode = a.episode}
  <2>1. same \subseteq Nat /\ same # {}
    BY <1>2
  <2>2. PICK k \in same : \A j \in same : k <= j
    <3> HIDE DEF same
    <3> QED
      BY <2>1, LeastNumber
  <2>3. \A j \in 1 .. k - 1 : Close(pack[j]) => pack[j].episode # pack[k].episode
    <3> SUFFICES ASSUME NEW j \in 1 .. k - 1, Close(pack[j]), pack[j].episode = pack[k].episode
                 PROVE  FALSE
      OBVIOUS
    <3>1. j \in 1 .. n /\ j < k /\ j \in Int /\ k \in Int
      OBVIOUS
    <3>2. j \in same
      BY <3>1
    <3> HIDE DEF same
    <3> QED
      BY <2>2, <3>1, <3>2
  <2>4. k \in 1 .. n /\ Close(pack[k]) /\ pack[k].episode = a.episode
    OBVIOUS
  <2> HIDE DEF same
  <2> QED
    BY <1>3, <2>3, <2>4
<1> HIDE DEF firsts
<1>8. Cardinality(firsts) = Cardinality(episodes) /\ IsFiniteSet(episodes)
  <2> DEFINE of == [k \in firsts |-> pack[k].episode]
  <2>1. of \in Surjection(firsts, episodes)
    BY <1>5, <1>7 DEF Surjection
  <2>2. of \in Injection(firsts, episodes)
    BY <1>5, <1>6 DEF Injection, IsInjective
  <2> HIDE DEF of, episodes
  <2> QED
    BY <1>4, <2>1, <2>2, FS_Surjection
<1> QED
  BY <1>4, <1>5, <1>6, <1>7, <1>8 DEF firsts

(* A question that was read, with what recall returned for its events.     *)
IsAsked(q, packs, asked) ==
  LET kind == PlanOf(q).kind
  IN  /\ \E n \in Nat : DOMAIN packs = 1 .. n
      /\ \A k \in DOMAIN packs : IsPack(packs[k])
      /\ kind \in {"since", "span", "category"} => DOMAIN packs = 1 .. 1
      /\ kind = "interval" => DOMAIN packs = 1 .. 2
      /\ q.stated \in Nat /\ (asked = {} \/ \E day \in Int : asked = {day})

(* Which operation answers, by the kind of the plan.                       *)
LEMMA AnswersByKind ==
  ASSUME NEW q, NEW packs, NEW asked
  PROVE  LET kind == PlanOf(q).kind
             result == AnswerTemporally(q, packs, asked)
         IN  /\ kind = "since" =>
                  result = IF asked # {}
                           THEN AnswerSince(packs[1], q.unit, CHOOSE day \in asked : TRUE)
                           ELSE NoAnswer
             /\ kind = "interval" => result = AnswerInterval(packs, q.unit)
             /\ kind = "span" => result = AnswerSpan(packs[1], q.unit)
             /\ kind = "category" => result = AnswerCategory(packs[1], q.stated)
             /\ kind = "order" => result = AnswerOrder(packs)
<1> DEFINE p == PlanOf(q)
<1>1. p.kind = "category" => p.expected = q.stated
  BY DEF PlanOf, NoPlan
<1> HIDE DEF p
<1>2. AnswerTemporally(q, packs, asked) =
        IF p.kind = "since" /\ asked # {}
        THEN AnswerSince(packs[1], q.unit, CHOOSE day \in asked : TRUE)
        ELSE IF p.kind = "interval" THEN AnswerInterval(packs, q.unit)
        ELSE IF p.kind = "span" THEN AnswerSpan(packs[1], q.unit)
        ELSE IF p.kind = "category" THEN AnswerCategory(packs[1], p.expected)
        ELSE IF p.kind = "order" THEN AnswerOrder(packs)
        ELSE NoAnswer
  BY DEF AnswerTemporally, p
<1> QED
  BY <1>1, <1>2, SMT DEF p

(* Distances and orders are answers.                                       *)
LEMMA AnswersAnswer ==
  /\ \A unit, days : Distance(unit, days) # NoAnswer
  /\ \A found : InOrderOf(found) # NoAnswer
<1>1. NoAnswer.kind = "declined"
  BY DEF NoAnswer
<1>2. \A unit, days : Distance(unit, days).kind = "distance"
  BY DEF Distance
<1>3. \A found : InOrderOf(found).kind = "order"
  BY DEF InOrderOf
<1> QED
  BY <1>1, <1>2, <1>3

(* Time since an event.                                                    *)
LEMMA SinceIsFollowed ==
  ASSUME NEW q, NEW packs, NEW asked, IsAsked(q, packs, asked), PlanOf(q).kind = "since",
         NEW result, result = AnswerTemporally(q, packs, asked)
  PROVE  SinceFollows(q.unit, packs, asked, result)
<1> DEFINE found == Ground(packs[1])
<1>1. IsPack(packs[1]) /\ (asked = {} \/ \E day \in Int : asked = {day})
  BY DEF IsAsked
<1>2. /\ found \subseteq Closest(packs[1]) /\ (found = {} => Closest(packs[1]) = {})
      /\ found = {} \/ \E a : found = {a}
  BY <1>1, GroundIsClosest
<1>3. result = IF asked # {} THEN AnswerSince(packs[1], q.unit, CHOOSE day \in asked : TRUE)
                ELSE NoAnswer
  BY AnswersByKind
<1>4. CASE asked = {}
  BY <1>3, <1>4 DEF SinceFollows
<1>5. ASSUME NEW day \in Int, asked = {day}
      PROVE  SinceFollows(q.unit, packs, asked, result)
  <2> SUFFICES /\ result # NoAnswer =>
                    \E a \in Closest(packs[1]) : a.day <= day /\ result = Distance(q.unit, day - a.day)
               /\ result = NoAnswer =>
                    Closest(packs[1]) = {} \/ \E a \in Closest(packs[1]) : a.day > day
    BY <1>5 DEF SinceFollows
  <2>1. result = AnswerSince(packs[1], q.unit, day)
    <3>1. (CHOOSE x \in asked : TRUE) = day /\ asked # {}
      BY <1>5
    <3> QED
      BY <1>3, <3>1
  <2>2. AnswerSince(packs[1], q.unit, day) =
          IF \E a \in found : a.day <= day
          THEN Distance(q.unit, day - (CHOOSE a \in found : TRUE).day) ELSE NoAnswer
    BY DEF AnswerSince
  <2> HIDE DEF found
  <2>3. CASE found = {}
    BY <1>2, <2>1, <2>2, <2>3
  <2>4. ASSUME NEW a, found = {a}
        PROVE  /\ result # NoAnswer =>
                    \E x \in Closest(packs[1]) : x.day <= day /\ result = Distance(q.unit, day - x.day)
               /\ result = NoAnswer => \E x \in Closest(packs[1]) : x.day > day
    <3>1. (CHOOSE x \in found : TRUE) = a /\ a \in Closest(packs[1])
      BY <1>2, <2>4
    <3>2. AnswerSince(packs[1], q.unit, day) =
            IF a.day <= day THEN Distance(q.unit, day - a.day) ELSE NoAnswer
      BY <2>2, <2>4, <3>1
    <3>3. a.day \in Int
      <4>1. PICK n \in Nat : packs[1] \in [1 .. n -> Anchors]
        BY <1>1 DEF IsPack
      <4>2. a \in Anchors
        BY <3>1, <4>1 DEF Closest, CloseIn, ToSet
      <4> QED
        BY <4>2, SamplesAssumption
    <3> QED
      BY <2>1, <3>1, <3>2, <3>3, AnswersAnswer
  <2> QED
    BY <1>2, <2>3, <2>4
<1> QED
  BY <1>1, <1>4, <1>5

(* Time between two events.                                                *)
LEMMA IntervalIsFollowed ==
  ASSUME NEW q, NEW packs, NEW asked, IsAsked(q, packs, asked), PlanOf(q).kind = "interval",
         NEW result, result = AnswerTemporally(q, packs, asked)
  PROVE  IntervalFollows(q.unit, packs, result)
<1> SUFFICES /\ result # NoAnswer =>
                  \E a \in Closest(packs[1]), b \in Closest(packs[2]) :
                    /\ a.episode # b.episode
                    /\ result = Distance(q.unit, Max({a.day - b.day, b.day - a.day}))
             /\ result = NoAnswer =>
                  \/ \E k \in DOMAIN packs : Closest(packs[k]) = {}
                  \/ \E j, k \in DOMAIN packs : \E a \in Closest(packs[j]), b \in Closest(packs[k]) :
                       j # k /\ a.episode = b.episode
  BY DEF IntervalFollows, LacksAnAnchor
<1> DEFINE from == Ground(packs[1])
           to == Ground(packs[2])
<1>1. DOMAIN packs = {1, 2} /\ IsPack(packs[1]) /\ IsPack(packs[2])
  BY DEF IsAsked
<1>2. /\ from \subseteq Closest(packs[1]) /\ (from = {} => Closest(packs[1]) = {})
      /\ from = {} \/ \E a : from = {a}
  BY <1>1, GroundIsClosest
<1>3. /\ to \subseteq Closest(packs[2]) /\ (to = {} => Closest(packs[2]) = {})
      /\ to = {} \/ \E a : to = {a}
  BY <1>1, GroundIsClosest
<1>4. result =
        IF \E a \in from, b \in to : a.episode # b.episode
        THEN LET a == CHOOSE a \in from : TRUE
                 b == CHOOSE b \in to : TRUE
             IN  Distance(q.unit, IF a.day <= b.day THEN b.day - a.day ELSE a.day - b.day)
        ELSE NoAnswer
  BY AnswersByKind DEF AnswerInterval
<1> HIDE DEF from, to
<1>5. CASE from = {} \/ to = {}
  BY <1>1, <1>2, <1>3, <1>4, <1>5
<1>6. ASSUME NEW a, NEW b, from = {a}, to = {b}
      PROVE  /\ a \in Closest(packs[1]) /\ b \in Closest(packs[2])
             /\ a.episode # b.episode => result = Distance(q.unit, Max({a.day - b.day, b.day - a.day}))
             /\ a.episode = b.episode => result = NoAnswer
  <2>1. (CHOOSE x \in from : TRUE) = a /\ (CHOOSE x \in to : TRUE) = b
    BY <1>6
  <2>2. a \in Closest(packs[1]) /\ b \in Closest(packs[2])
    BY <1>2, <1>3, <1>6
  <2>3. result = IF a.episode # b.episode
                 THEN Distance(q.unit, IF a.day <= b.day THEN b.day - a.day ELSE a.day - b.day)
                 ELSE NoAnswer
    BY <1>4, <1>6, <2>1
  <2>4. a.day \in Int /\ b.day \in Int
    <3>1. \A pack : IsPack(pack) => \A x \in Closest(pack) : x \in Anchors
      BY DEF IsPack, Closest, CloseIn, ToSet
    <3> QED
      BY <1>1, <2>2, <3>1, SamplesAssumption
  <2>5. Max({a.day - b.day, b.day - a.day}) = IF a.day <= b.day THEN b.day - a.day ELSE a.day - b.day
    <3> DEFINE x == a.day - b.day
               y == b.day - a.day
    <3>1. x \in Int /\ y \in Int /\ y = - x
      BY <2>4
    <3>2. Max({x, y}) \in {x, y} /\ Max({x, y}) >= x /\ Max({x, y}) >= y
      <4> HIDE DEF x, y
      <4>1. \E u \in {x, y} : \A v \in {x, y} : u >= v
        BY <3>1
      <4> QED
        BY <4>1 DEF Max
    <3> QED
      BY <2>4, <3>1, <3>2
  <2> QED
    BY <2>2, <2>3, <2>5
<1>7. ASSUME NEW a, NEW b, from = {a}, to = {b}
      PROVE  /\ result # NoAnswer => a.episode # b.episode
             /\ result = NoAnswer => a.episode = b.episode
  BY <1>6, <1>7, AnswersAnswer
<1>8. CASE from # {} /\ to # {}
  <2>1. PICK a, b : from = {a} /\ to = {b}
    BY <1>2, <1>3, <1>8
  <2>2. a \in Closest(packs[1]) /\ b \in Closest(packs[2])
    BY <1>6, <2>1
  <2>3. result # NoAnswer =>
          a.episode # b.episode /\ result = Distance(q.unit, Max({a.day - b.day, b.day - a.day}))
    BY <1>6, <1>7, <2>1
  <2>4. result = NoAnswer => a.episode = b.episode
    BY <1>7, <2>1
  <2>5. 1 \in DOMAIN packs /\ 2 \in DOMAIN packs /\ 1 # 2
    BY <1>1
  <2> QED
    BY <2>2, <2>3, <2>4, <2>5, Zenon
<1> QED
  BY <1>5, <1>8

(* Each member of S has a rank of its own, and every rank is taken.        *)
Ranked(S, R) ==
  /\ \A a \in S : Cardinality(Below(S, R, a)) \in 0 .. Cardinality(S) - 1
  /\ \A i \in 0 .. Cardinality(S) - 1 : \E a \in S : Cardinality(Below(S, R, a)) = i
  /\ \A a, b \in S : Cardinality(Below(S, R, a)) = Cardinality(Below(S, R, b)) => a = b

(* In a strict order of finitely many things, every rank is taken once.    *)
LEMMA Ranks ==
  ASSUME NEW S, IsFiniteSet(S), NEW R, StrictOrder(S, R)
  PROVE  Ranked(S, R)
<1> DEFINE n == Cardinality(S)
           rank == [a \in S |-> Cardinality(Below(S, R, a))]
<1>1. n \in Nat
  BY FS_CardinalityType
<1>2. ASSUME NEW a \in S
      PROVE  rank[a] \in 0 .. n - 1
  <2>1. Below(S, R, a) \in SUBSET S /\ Below(S, R, a) # S
    BY DEF Below, StrictOrder
  <2>2. rank[a] \in Nat /\ rank[a] <= n /\ rank[a] # n
    BY <2>1, MoreBelow, FS_Subset
  <2> QED
    BY <1>1, <2>2
<1>3. ASSUME NEW a \in S, NEW b \in S, rank[a] = rank[b]
      PROVE  a = b
  <2>1. rank[a] \in Int /\ rank[b] \in Int
    BY <1>2
  <2>2. <<a, b>> \notin R /\ <<b, a>> \notin R
    BY <1>3, <2>1, MoreBelow
  <2> QED
    BY <2>2 DEF StrictOrder
<1>4. rank \in Injection(S, 0 .. n - 1)
  BY <1>2, <1>3 DEF Injection, IsInjective
<1>5. IsFiniteSet(0 .. n - 1) /\ Cardinality(0 .. n - 1) = n
  BY <1>1, FS_Interval
<1>6. rank \in Surjection(S, 0 .. n - 1)
  <2> HIDE DEF rank
  <2> QED
    BY <1>4, <1>5, FS_Injection
<1>7. \A i \in 0 .. n - 1 : \E a \in S : rank[a] = i
  <2> HIDE DEF rank
  <2> QED
    BY <1>6 DEF Surjection
<1> QED
  BY <1>2, <1>3, <1>7 DEF Ranked

(* ground_many finds every episode, or as many as it may.                  *)
LEMMA GroundManyIsEnough ==
  ASSUME NEW pack, IsPack(pack), NEW limit \in Nat
  PROVE  LET firsts == FirstOfEpisode(pack)
             found == GroundMany(pack, limit)
         IN  /\ found \subseteq firsts /\ IsFiniteSet(found) /\ Cardinality(found) \in Nat
             /\ Cardinality(firsts) \in Nat
             /\ Cardinality(firsts) <= limit => found = firsts
             /\ Cardinality(firsts) > limit => Cardinality(found) = limit
<1> DEFINE firsts == FirstOfEpisode(pack)
           found == GroundMany(pack, limit)
           R == {p \in firsts \X firsts : p[1] < p[2]}
<1>1. IsFiniteSet(firsts) /\ firsts \subseteq Nat
  BY FirstsOfEpisodes
<1>2. found \subseteq firsts
  BY DEF GroundMany
<1>3. \A k \in firsts : {j \in firsts : j < k} = Below(firsts, R, k)
  BY DEF Below
<1>4. found = {k \in firsts : Cardinality(Below(firsts, R, k)) < limit}
  BY <1>3 DEF GroundMany
<1> HIDE DEF firsts, found
<1>5. StrictOrder(firsts, R)
  BY <1>1 DEF StrictOrder
<1>6. IsFiniteSet(found) /\ Cardinality(found) \in Nat /\ Cardinality(firsts) \in Nat
  BY <1>1, <1>2, FS_Subset, FS_CardinalityType
<1> DEFINE n == Cardinality(firsts)
           rank == [k \in firsts |-> Cardinality(Below(firsts, R, k))]
<1>7. /\ \A k \in firsts : rank[k] \in 0 .. n - 1
      /\ \A i \in 0 .. n - 1 : \E k \in firsts : rank[k] = i
  <2> HIDE DEF R, rank
  <2>1. /\ \A k \in firsts : Cardinality(Below(firsts, R, k)) \in 0 .. n - 1
        /\ \A i \in 0 .. n - 1 : \E k \in firsts : Cardinality(Below(firsts, R, k)) = i
    <3>1. Ranked(firsts, R)
      BY <1>1, <1>5, Ranks, Zenon
    <3> QED
      BY <3>1, Zenon DEF Ranked
  <2>2. \A k \in firsts : rank[k] = Cardinality(Below(firsts, R, k))
    BY DEF rank
  <2> QED
    BY <2>1, <2>2, Zenon
<1>8. found = {k \in firsts : rank[k] < limit}
  BY <1>4
<1>9. \A k \in found : rank[k] < limit
  BY <1>8
<1>10. Cardinality(found) <= limit
  <2> HIDE DEF R
  <2>1. \A k \in found : Cardinality(Below(firsts, R, k)) < limit
    BY <1>4
  <2> QED
    BY <1>1, <1>2, <1>5, <2>1, FewBelow
<1> HIDE DEF R, rank
<1>11. n <= limit => found = firsts
  BY <1>6, <1>7, <1>8
<1>12. n > limit => Cardinality(found) = limit
  <2> SUFFICES ASSUME n > limit PROVE Cardinality(found) = limit
    OBVIOUS
  <2> DEFINE of == [k \in found |-> rank[k]]
  <2>1. \A k \in found : of[k] \in 0 .. limit - 1
    BY <1>2, <1>6, <1>7, <1>9
  <2>2. \A i \in 0 .. limit - 1 : \E k \in found : of[k] = i
    <3> SUFFICES ASSUME NEW i \in 0 .. limit - 1 PROVE \E k \in found : of[k] = i
      OBVIOUS
    <3>1. i \in 0 .. n - 1 /\ i < limit
      BY <1>6
    <3>2. PICK k \in firsts : rank[k] = i
      BY <1>7, <3>1
    <3> QED
      BY <1>8, <3>1, <3>2
  <2>3. of \in Surjection(found, 0 .. limit - 1)
    BY <2>1, <2>2 DEF Surjection
  <2>4. Cardinality(0 .. limit - 1) = limit
    BY FS_Interval
  <2>5. Cardinality(0 .. limit - 1) <= Cardinality(found)
    <3> HIDE DEF of
    <3> QED
      BY <1>6, <2>3, FS_Surjection
  <2> QED
    BY <1>6, <1>10, <2>4, <2>5
<1> QED
  BY <1>2, <1>6, <1>11, <1>12 DEF firsts, found

(* How long a thing took: from its first day to its last.                  *)
LEMMA SpanIsFollowed ==
  ASSUME NEW q, NEW packs, NEW asked, IsAsked(q, packs, asked), PlanOf(q).kind = "span",
         NEW result, result = AnswerTemporally(q, packs, asked)
  PROVE  SpanFollows(q.unit, packs, result)
<1> SUFFICES ASSUME NEW Days, Days = {a.day : a \in CloseIn(packs[1])},
                    Cardinality({a.episode : a \in CloseIn(packs[1])}) <= 8
             PROVE  result = IF \A x, y \in Days : x = y THEN NoAnswer
                             ELSE Distance(q.unit, Max(Days) - Min(Days))
  BY DEF SpanFollows, EpisodesIn
<1> DEFINE pack == packs[1]
           found == GroundMany(pack, 8)
           day == [k \in found |-> pack[k].day]
<1>1. IsPack(pack)
  BY DEF IsAsked
<1>2. /\ IsFiniteSet(found) /\ Cardinality(found) \in Nat
      /\ found = FirstOfEpisode(pack)
  <2>1. Cardinality(FirstOfEpisode(pack)) <= 8
    BY <1>1, FirstsOfEpisodes
  <2> QED
    BY <1>1, <2>1, GroundManyIsEnough
<1>3. \A a \in CloseIn(pack) : a \in Anchors
  BY <1>1 DEF IsPack, CloseIn, ToSet
<1>4. /\ \A k \in found : pack[k] \in CloseIn(pack) /\ pack[k].day \in Int
      /\ \A a \in CloseIn(pack) : \E k \in found : pack[k].day = a.day
  <2>1. /\ \A k \in found : pack[k] \in CloseIn(pack)
        /\ \A a \in CloseIn(pack) : \E k \in found : pack[k].episode = a.episode
    BY <1>1, <1>2, FirstsOfEpisodes
  <2> HIDE DEF pack, found
  <2> QED
    BY <1>3, <2>1, SamplesAssumption
<1> HIDE DEF found, pack
<1>5. Days = {day[k] : k \in found} /\ day \in [found -> Int]
  BY <1>4 DEF pack
<1>6. result =
        LET first == CHOOSE k \in found : \A j \in found : pack[k].day <= pack[j].day
            last == CHOOSE k \in found : \A j \in found : pack[j].day <= pack[k].day
        IN  IF Cardinality(found) >= 2 /\ pack[last].day > pack[first].day
            THEN Distance(q.unit, pack[last].day - pack[first].day)
            ELSE NoAnswer
  BY AnswersByKind DEF AnswerSpan, pack, found
<1>7. CASE found = {}
  <2>1. Cardinality(found) = 0 /\ Days = {}
    BY <1>5, <1>7, FS_EmptySet
  <2> QED
    BY <1>6, <2>1
<1>8. CASE found # {}
  <2> DEFINE IsFirst(k) == \A j \in found : day[k] <= day[j]
             IsLast(k) == \A j \in found : day[j] <= day[k]
  <2>1. (\E k \in found : IsFirst(k)) /\ (\E k \in found : IsLast(k))
    <3> HIDE DEF day
    <3> QED
      BY <1>2, <1>5, <1>8, LargestOf, SmallestOf
  <2>2. PICK first \in found, last \in found :
          /\ IsFirst(first) /\ IsLast(last)
          /\ result = IF Cardinality(found) >= 2 /\ day[last] > day[first]
                      THEN Distance(q.unit, day[last] - day[first]) ELSE NoAnswer
    <3> DEFINE f == CHOOSE k \in found : IsFirst(k)
               l == CHOOSE k \in found : IsLast(k)
    <3>1. f \in found /\ l \in found /\ IsFirst(f) /\ IsLast(l)
      <4> HIDE DEF IsFirst, IsLast
      <4> QED
        BY <2>1
    <3>2. /\ f = CHOOSE k \in found : \A j \in found : pack[k].day <= pack[j].day
          /\ l = CHOOSE k \in found : \A j \in found : pack[j].day <= pack[k].day
      OBVIOUS
    <3>3. result = IF Cardinality(found) >= 2 /\ pack[l].day > pack[f].day
                   THEN Distance(q.unit, pack[l].day - pack[f].day) ELSE NoAnswer
      BY <1>6, <3>2
    <3> HIDE DEF f, l
    <3> QED
      BY <3>1, <3>3
  <2>3. day[first] \in Int /\ day[last] \in Int /\ day[first] \in Days /\ day[last] \in Days
    BY <1>5
  <2>4. \A x \in Days : x \in Int /\ day[first] <= x /\ x <= day[last]
    BY <1>5, <2>2
  <2>5. Max(Days) = day[last] /\ Min(Days) = day[first]
    <3> HIDE DEF day
    <3>1. Max(Days) \in Days /\ Max(Days) >= day[last]
      <4>1. \E x \in Days : \A y \in Days : x >= y
        BY <2>3, <2>4
      <4> QED
        BY <2>3, <4>1 DEF Max
    <3>2. Min(Days) \in Days /\ Min(Days) <= day[first]
      <4>1. \E x \in Days : \A y \in Days : x <= y
        BY <2>3, <2>4
      <4> QED
        BY <2>3, <4>1 DEF Min
    <3> QED
      BY <2>3, <2>4, <3>1, <3>2
  <2>6. (\A x, y \in Days : x = y) <=> ~ (day[last] > day[first])
    <3>1. (\A x, y \in Days : x = y) => ~ (day[last] > day[first])
      BY <2>3
    <3>2. ASSUME ~ (day[last] > day[first]), NEW x \in Days, NEW y \in Days
          PROVE  x = y
      <4>1. /\ x \in Int /\ day[first] <= x /\ x <= day[last]
            /\ y \in Int /\ day[first] <= y /\ y <= day[last]
        BY <2>4
      <4> HIDE DEF day
      <4> QED
        BY <2>3, <3>2, <4>1
    <3> QED
      BY <3>1, <3>2
  <2>7. day[last] > day[first] => Cardinality(found) >= 2
    <3> SUFFICES ASSUME day[last] > day[first] PROVE Cardinality(found) >= 2
      OBVIOUS
    <3>1. first # last
      BY <2>3
    <3>2. IsFiniteSet({first} \cup {last}) /\ Cardinality({first} \cup {last}) = 2
      <4>1. IsFiniteSet({first}) /\ Cardinality({first}) = 1
        BY FS_Singleton
      <4>2. last \notin {first}
        BY <3>1
      <4>3. ASSUME NEW S, NEW x, IsFiniteSet(S), Cardinality(S) = 1, x \notin S
            PROVE  IsFiniteSet(S \cup {x}) /\ Cardinality(S \cup {x}) = 2
        BY <4>3, FS_AddElement
      <4> QED
        BY <4>1, <4>2, <4>3, Zenon
    <3>3. {first} \cup {last} \in SUBSET found
      OBVIOUS
    <3> HIDE DEF day
    <3> QED
      BY <1>2, <3>2, <3>3, FS_Subset
  <2> HIDE DEF day
  <2> QED
    BY <2>2, <2>5, <2>6, <2>7
<1> QED
  BY <1>7, <1>8

(* The order of the anchors found: each once, none before an earlier day.  *)
LEMMA InOrder ==
  ASSUME NEW found, IsFiniteSet(DOMAIN found), DOMAIN found \subseteq Int,
         \A k \in DOMAIN found : found[k].day \in Int
  PROVE  \E at \in [1 .. Cardinality(DOMAIN found) -> DOMAIN found] :
           /\ InOrderOf(found).episodes
                = [i \in 1 .. Cardinality(DOMAIN found) |-> found[at[i]].episode]
           /\ \A i, j \in DOMAIN at : at[i] = at[j] => i = j
           /\ \A k \in DOMAIN found : \E i \in DOMAIN at : at[i] = k
           /\ \A i, j \in DOMAIN at : i < j => found[at[i]].day <= found[at[j]].day
<1> DEFINE S == DOMAIN found
           R == {p \in S \X S : Sooner(found, p[1], p[2])}
           n == Cardinality(S)
           place == [k \in S |-> Place(found, k)]
           at == [i \in 1 .. n |-> CHOOSE k \in S : Place(found, k) = i]
<1>1. n \in Nat
  BY FS_CardinalityType
<1>2. StrictOrder(S, R)
  <2> HIDE DEF S
  <2>1. \A k \in S : k \in Int /\ found[k].day \in Int
    BY DEF S
  <2>2. \A a, b \in S : <<a, b>> \in R <=> found[a].day < found[b].day \/ (found[a].day = found[b].day /\ a < b)
    BY DEF Sooner
  <2> HIDE DEF R
  <2>3. \A a \in S : <<a, a>> \notin R
    BY <2>1, <2>2
  <2>4. \A a, b \in S : a # b => <<a, b>> \in R \/ <<b, a>> \in R
    BY <2>1, <2>2
  <2>5. ASSUME NEW a \in S, NEW b \in S, NEW c \in S, <<a, b>> \in R, <<b, c>> \in R
        PROVE  <<a, c>> \in R
    <3>1. /\ a \in Int /\ b \in Int /\ c \in Int
          /\ found[a].day \in Int /\ found[b].day \in Int /\ found[c].day \in Int
      BY <2>1
    <3> QED
      BY <2>2, <2>5, <3>1
  <2> QED
    BY <2>3, <2>4, <2>5 DEF StrictOrder
<1>3. \A k \in S : {j \in S : Sooner(found, j, k)} = Below(S, R, k)
  BY DEF Below
<1>4. \A k \in S : place[k] = Cardinality(Below(S, R, k)) + 1
  BY <1>3 DEF Place
<1>5. Ranked(S, R)
  <2> HIDE DEF R, S
  <2>1. IsFiniteSet(S)
    BY DEF S
  <2> QED
    BY <1>2, <2>1, Ranks, Zenon
<1>6. /\ \A k \in S : Cardinality(Below(S, R, k)) \in 0 .. n - 1
      /\ \A i \in 0 .. n - 1 : \E k \in S : Cardinality(Below(S, R, k)) = i
      /\ \A j, k \in S : Cardinality(Below(S, R, j)) = Cardinality(Below(S, R, k)) => j = k
  <2> HIDE DEF R, S
  <2> QED
    BY <1>5, Zenon DEF Ranked
<1> DEFINE rank == [k \in S |-> Cardinality(Below(S, R, k))]
<1>7. /\ \A k \in S : rank[k] \in 0 .. n - 1 /\ place[k] = rank[k] + 1
      /\ \A i \in 0 .. n - 1 : \E k \in S : rank[k] = i
      /\ \A j, k \in S : rank[j] = rank[k] => j = k
  <2>1. \A k \in S : rank[k] = Cardinality(Below(S, R, k))
    OBVIOUS
  <2> HIDE DEF R, S, rank, place, n
  <2>2. \A k \in S : rank[k] \in 0 .. n - 1 /\ place[k] = rank[k] + 1
    BY <1>4, <1>6, <2>1, Zenon
  <2>3. \A i \in 0 .. n - 1 : \E k \in S : rank[k] = i
    BY <1>6, <2>1, Zenon
  <2>4. \A j, k \in S : rank[j] = rank[k] => j = k
    BY <1>6, <2>1, ZenonT(40)
  <2> QED
    BY <2>2, <2>3, <2>4, Zenon
<1>8. ASSUME NEW i \in 1 .. n
      PROVE  at[i] \in S /\ place[at[i]] = i
  <2>1. i - 1 \in 0 .. n - 1 /\ i \in Int
    BY <1>1
  <2>2. PICK k \in S : rank[k] = i - 1
    BY <1>7, <2>1
  <2>3. place[k] = i
    BY <1>7, <2>1, <2>2
  <2>4. \E x \in S : Place(found, x) = i
    BY <2>3
  <2>5. at[i] = CHOOSE x \in S : Place(found, x) = i
    OBVIOUS
  <2> HIDE DEF S, at
  <2>6. at[i] \in S /\ Place(found, at[i]) = i
    BY <2>4, <2>5, Zenon
  <2> QED
    BY <2>6
<1>9. at \in [1 .. n -> S] /\ DOMAIN at = 1 .. n
  BY <1>8
<1>10. InOrderOf(found).episodes = [i \in 1 .. n |-> found[at[i]].episode]
  BY DEF InOrderOf
<1> HIDE DEF at, R, rank, place
<1>11. \A i, j \in DOMAIN at : at[i] = at[j] => i = j
  BY <1>8, <1>9
<1>12. \A k \in S : \E i \in DOMAIN at : at[i] = k
  <2> SUFFICES ASSUME NEW k \in S PROVE \E i \in DOMAIN at : at[i] = k
    OBVIOUS
  <2>1. place[k] \in 1 .. n /\ rank[k] \in Int
    BY <1>1, <1>7
  <2>2. at[place[k]] \in S /\ place[at[place[k]]] = place[k]
    BY <1>8, <2>1
  <2>3. rank[at[place[k]]] = rank[k]
    BY <1>7, <2>1, <2>2
  <2>4. at[place[k]] = k
    BY <1>7, <2>2, <2>3
  <2> QED
    BY <1>9, <2>1, <2>4
<1>13. ASSUME NEW i \in DOMAIN at, NEW j \in DOMAIN at, i < j
       PROVE  found[at[i]].day <= found[at[j]].day
  <2>1. at[i] \in S /\ at[j] \in S /\ rank[at[i]] < rank[at[j]] /\ rank[at[i]] \in Int /\ rank[at[j]] \in Int
    <3>1. i \in 1 .. n /\ j \in 1 .. n /\ at[i] \in S /\ at[j] \in S
      BY <1>9, <1>13
    <3>2. place[at[i]] = i /\ place[at[j]] = j
      BY <1>8, <3>1
    <3>3. rank[at[i]] = i - 1 /\ rank[at[j]] = j - 1
      <4>1. \A k \in S : rank[k] \in 0 .. n - 1 /\ place[k] = rank[k] + 1
        BY <1>7
      <4> QED
        BY <1>1, <3>1, <3>2, <4>1
    <3> QED
      BY <1>1, <1>13, <3>1, <3>3
  <2>2. <<at[j], at[i]>> \notin R
    <3> SUFFICES ASSUME <<at[j], at[i]>> \in R PROVE FALSE
      OBVIOUS
    <3>1. Cardinality(Below(S, R, at[j])) < Cardinality(Below(S, R, at[i]))
      <4>1. \A x, y \in S : <<x, y>> \in R => Cardinality(Below(S, R, x)) < Cardinality(Below(S, R, y))
        BY <1>2, MoreBelow
      <4> QED
        BY <2>1, <4>1
    <3>2. rank[at[j]] < rank[at[i]]
      BY <2>1, <3>1 DEF rank
    <3> QED
      BY <2>1, <3>2
  <2>3. ~ (found[at[j]].day < found[at[i]].day)
    BY <2>1, <2>2 DEF R, Sooner
  <2> QED
    BY <2>1, <2>3
<1> QED
  BY <1>9, <1>10, <1>11, <1>12, <1>13

(* An order of anchors of distinct episodes has each episode once, in the  *)
(* order of their days.                                                    *)
LEMMA OrderOfAnchors ==
  ASSUME NEW found, IsFiniteSet(DOMAIN found), DOMAIN found \subseteq Int, NEW anchors,
         \A k \in DOMAIN found : found[k] \in anchors /\ found[k].day \in Int,
         \A j, k \in DOMAIN found : found[j].episode = found[k].episode => j = k,
         NEW episodes, episodes = InOrderOf(found).episodes
  PROVE  /\ IsInjective(episodes) /\ AscendingDays(episodes, anchors)
         /\ ToSet(episodes) = {found[k].episode : k \in DOMAIN found}
<1> DEFINE n == Cardinality(DOMAIN found)
<1>1. PICK at \in [1 .. n -> DOMAIN found] :
           /\ episodes = [i \in 1 .. n |-> found[at[i]].episode]
           /\ \A i, j \in DOMAIN at : at[i] = at[j] => i = j
           /\ \A k \in DOMAIN found : \E i \in DOMAIN at : at[i] = k
           /\ \A i, j \in DOMAIN at : i < j => found[at[i]].day <= found[at[j]].day
  BY InOrder
<1> HIDE DEF n
<1>2. DOMAIN at = 1 .. n /\ DOMAIN episodes = 1 .. n /\ \A i \in 1 .. n : at[i] \in DOMAIN found
  BY <1>1
<1>3. \A i \in 1 .. n : episodes[i] = found[at[i]].episode
  BY <1>1
<1>4. IsInjective(episodes)
  BY <1>1, <1>2, <1>3 DEF IsInjective
<1>5. AscendingDays(episodes, anchors)
  <2> DEFINE days == [i \in 1 .. n |-> found[at[i]].day]
  <2>1. days \in [DOMAIN episodes -> {a.day : a \in anchors}]
    BY <1>2
  <2>2. \A k \in DOMAIN episodes : \E a \in anchors : a.episode = episodes[k] /\ a.day = days[k]
    BY <1>2, <1>3
  <2>3. \A j, k \in DOMAIN episodes : j < k => days[j] <= days[k]
    BY <1>1, <1>2
  <2> HIDE DEF days
  <2> QED
    BY <2>1, <2>2, <2>3, Zenon DEF AscendingDays
<1>6. ToSet(episodes) = {found[k].episode : k \in DOMAIN found}
  <2>1. ToSet(episodes) = {episodes[i] : i \in 1 .. n}
    BY <1>2 DEF ToSet
  <2> QED
    BY <1>1, <1>2, <1>3, <2>1
<1> QED
  BY <1>4, <1>5, <1>6

(* A category: its members in order, or the wrong number of them.          *)
LEMMA CategoryIsFollowed ==
  ASSUME NEW q, NEW packs, NEW asked, IsAsked(q, packs, asked), PlanOf(q).kind = "category",
         NEW result, result = AnswerTemporally(q, packs, asked)
  PROVE  CategoryFollows(q.stated, packs, result)
<1> SUFFICES /\ result # NoAnswer =>
                  /\ IsInjective(result.episodes)
                  /\ AscendingDays(result.episodes, UNION {CloseIn(packs[k]) : k \in DOMAIN packs})
             /\ q.stated \in 1 .. 9 =>
                  (result # NoAnswer <=> Cardinality({a.episode : a \in CloseIn(packs[1])}) = q.stated)
  BY DEF CategoryFollows, IsInOrder, EpisodesIn
<1> DEFINE pack == packs[1]
           expected == q.stated
           want == IF expected = 0 THEN 3 ELSE IF expected > 8 THEN 8 ELSE expected
           members == GroundMany(pack, want + 2)
           found == [k \in members |-> pack[k]]
           count == Cardinality(members)
           anchors == UNION {CloseIn(packs[k]) : k \in DOMAIN packs}
<1>1. IsPack(pack) /\ DOMAIN packs = {1} /\ expected \in Nat
  BY DEF IsAsked
<1>2. want \in Nat /\ want + 2 \in Nat
  BY <1>1
<1>3. result = IF (expected > 0 /\ count = expected) \/ (expected = 0 /\ count >= 2)
               THEN InOrderOf(found) ELSE NoAnswer
  <2>1. result = AnswerCategory(pack, expected)
    BY AnswersByKind
  <2>2. DOMAIN found = members
    OBVIOUS
  <2> HIDE DEF pack, expected, members
  <2> QED
    BY <2>1, <2>2, Zenon DEF AnswerCategory, members
<1> HIDE DEF want
<1>4. /\ members \subseteq FirstOfEpisode(pack) /\ IsFiniteSet(members) /\ count \in Nat
      /\ Cardinality(FirstOfEpisode(pack)) \in Nat
      /\ Cardinality(FirstOfEpisode(pack)) <= want + 2 => members = FirstOfEpisode(pack)
      /\ Cardinality(FirstOfEpisode(pack)) > want + 2 => count = want + 2
  BY <1>1, <1>2, GroundManyIsEnough
<1>5. /\ FirstOfEpisode(pack) \subseteq Nat
      /\ \A k \in FirstOfEpisode(pack) : pack[k] \in CloseIn(pack)
      /\ \A j, k \in FirstOfEpisode(pack) : pack[j].episode = pack[k].episode => j = k
      /\ Cardinality(FirstOfEpisode(pack)) = Cardinality({a.episode : a \in CloseIn(pack)})
  BY <1>1, FirstsOfEpisodes
<1>6. CloseIn(pack) \subseteq anchors
  BY <1>1
<1>7. \A a \in CloseIn(pack) : a.day \in Int
  <2>1. \A a \in CloseIn(pack) : a \in Anchors
    BY <1>1 DEF IsPack, CloseIn, ToSet
  <2> QED
    BY <2>1, SamplesAssumption
<1> HIDE DEF pack, members, anchors
<1>8. /\ DOMAIN found = members /\ members \subseteq Int
      /\ \A k \in members : found[k] \in anchors /\ found[k].day \in Int
      /\ \A j, k \in members : found[j].episode = found[k].episode => j = k
  BY <1>4, <1>5, <1>6, <1>7
<1> HIDE DEF found
<1>9. LET episodes == InOrderOf(found).episodes
      IN  IsInjective(episodes) /\ AscendingDays(episodes, anchors)
  BY <1>4, <1>8, OrderOfAnchors
<1>10. result # NoAnswer => result = InOrderOf(found)
  BY <1>3
<1>11. result # NoAnswer <=> (expected > 0 /\ count = expected) \/ (expected = 0 /\ count >= 2)
  BY <1>3, AnswersAnswer
<1>12. expected \in 1 .. 9 =>
         (count = expected <=> Cardinality(FirstOfEpisode(pack)) = expected)
  <2> SUFFICES ASSUME expected \in 1 .. 9
               PROVE  count = expected <=> Cardinality(FirstOfEpisode(pack)) = expected
    OBVIOUS
  <2>1. want + 2 \in Int /\ want + 2 > expected
    BY DEF want
  <2> HIDE DEF expected
  <2> QED
    BY <1>4, <2>1
<1> QED
  BY <1>1, <1>5, <1>9, <1>10, <1>11, <1>12 DEF anchors, pack

(* An order of events: the closest passage of each, all distinct.          *)
LEMMA OrderIsFollowed ==
  ASSUME NEW q, NEW packs, NEW asked, IsAsked(q, packs, asked), PlanOf(q).kind = "order",
         NEW result, result = AnswerTemporally(q, packs, asked)
  PROVE  OrderFollows(packs, result)
<1> SUFFICES /\ result # NoAnswer =>
                  /\ IsInjective(result.episodes)
                  /\ AscendingDays(result.episodes, UNION {CloseIn(packs[k]) : k \in DOMAIN packs})
                  /\ OfClosest(result.episodes, packs)
             /\ result = NoAnswer =>
                  \/ \E k \in DOMAIN packs : Closest(packs[k]) = {}
                  \/ \E j, k \in DOMAIN packs : \E a \in Closest(packs[j]), b \in Closest(packs[k]) :
                       j # k /\ a.episode = b.episode
  BY DEF OrderFollows, LacksAnAnchor, IsInOrder
<1> DEFINE ground == [k \in DOMAIN packs |-> Ground(packs[k])]
           found == [k \in DOMAIN packs |-> CHOOSE a \in ground[k] : TRUE]
           anchors == UNION {CloseIn(packs[k]) : k \in DOMAIN packs}
<1>1. PICK n \in Nat : DOMAIN packs = 1 .. n
  BY DEF IsAsked
<1>2. \A k \in DOMAIN packs : IsPack(packs[k])
  BY DEF IsAsked
<1>3. result =
        IF /\ \A k \in DOMAIN packs : ground[k] # {}
           /\ \A j, k \in DOMAIN packs : j # k => found[j].episode # found[k].episode
        THEN InOrderOf(found) ELSE NoAnswer
  <2>1. result = AnswerOrder(packs)
    BY AnswersByKind
  <2> QED
    BY <2>1, Zenon DEF AnswerOrder
<1>4. ASSUME NEW k \in DOMAIN packs
      PROVE  /\ ground[k] = {} => Closest(packs[k]) = {}
             /\ ground[k] # {} => found[k] \in Closest(packs[k])
  <2>1. /\ Ground(packs[k]) \subseteq Closest(packs[k])
        /\ Ground(packs[k]) = {} => Closest(packs[k]) = {}
    BY <1>2, GroundIsClosest
  <2>2. ground[k] # {} => found[k] \in ground[k]
    OBVIOUS
  <2> QED
    BY <2>1, <2>2
<1>5. DOMAIN found = DOMAIN packs
  OBVIOUS
<1> HIDE DEF ground, found
<1>6. ASSUME result # NoAnswer
      PROVE  /\ IsInjective(result.episodes) /\ AscendingDays(result.episodes, anchors)
             /\ OfClosest(result.episodes, packs)
  <2>1. /\ result = InOrderOf(found)
        /\ \A k \in DOMAIN packs : found[k] \in Closest(packs[k])
        /\ \A j, k \in DOMAIN packs : found[j].episode = found[k].episode => j = k
    BY <1>3, <1>4, <1>6
  <2>2. \A k \in DOMAIN packs : found[k] \in anchors /\ found[k] \in CloseIn(packs[k])
    BY <2>1 DEF Closest
  <2>3. \A k \in DOMAIN packs : found[k].day \in Int
    <3>1. \A k \in DOMAIN packs : found[k] \in Anchors
      BY <1>2, <2>2 DEF IsPack, CloseIn, ToSet
    <3> QED
      BY <3>1, SamplesAssumption
  <2>4. IsFiniteSet(DOMAIN found) /\ DOMAIN found \subseteq Int
    BY <1>1, <1>5, FS_Interval
  <2> HIDE DEF anchors
  <2>5. /\ IsInjective(result.episodes) /\ AscendingDays(result.episodes, anchors)
        /\ ToSet(result.episodes) = {found[k].episode : k \in DOMAIN packs}
    BY <1>5, <2>1, <2>2, <2>3, <2>4, OrderOfAnchors
  <2>6. OfClosest(result.episodes, packs)
    <3> DEFINE choice == [k \in DOMAIN packs |-> found[k]]
    <3>1. /\ choice \in [DOMAIN packs -> UNION {Closest(packs[k]) : k \in DOMAIN packs}]
          /\ \A k \in DOMAIN packs : choice[k] \in Closest(packs[k])
          /\ ToSet(result.episodes) = {choice[k].episode : k \in DOMAIN packs}
      BY <2>1, <2>5
    <3> HIDE DEF choice
    <3> QED
      BY <3>1, Zenon DEF OfClosest
  <2> QED
    BY <2>5, <2>6
<1>7. ASSUME result = NoAnswer
      PROVE  \/ \E k \in DOMAIN packs : Closest(packs[k]) = {}
             \/ \E j, k \in DOMAIN packs : \E a \in Closest(packs[j]), b \in Closest(packs[k]) :
                  j # k /\ a.episode = b.episode
  <2>1. \/ \E k \in DOMAIN packs : ground[k] = {}
        \/ /\ \A k \in DOMAIN packs : ground[k] # {}
           /\ \E j, k \in DOMAIN packs : j # k /\ found[j].episode = found[k].episode
    BY <1>3, <1>7, AnswersAnswer
  <2>2. CASE \E k \in DOMAIN packs : ground[k] = {}
    BY <1>4, <2>2
  <2>3. CASE /\ \A k \in DOMAIN packs : ground[k] # {}
             /\ \E j, k \in DOMAIN packs : j # k /\ found[j].episode = found[k].episode
    <3>1. PICK j \in DOMAIN packs, k \in DOMAIN packs : j # k /\ found[j].episode = found[k].episode
      BY <2>3
    <3>2. found[j] \in Closest(packs[j]) /\ found[k] \in Closest(packs[k])
      BY <1>4, <2>3, <3>1
    <3> QED
      BY <3>1, <3>2, Zenon
  <2> QED
    BY <2>1, <2>2, <2>3, Zenon
<1> QED
  BY <1>6, <1>7, Zenon

(* The answer to every question that is read, from every pack of anchors.  *)
THEOREM AnswerOfEveryQuestion ==
  ASSUME NEW q, NEW packs, NEW asked, IsAsked(q, packs, asked)
  PROVE  AnswerFollows(q, packs, asked)
<1> DEFINE result == AnswerTemporally(q, packs, asked)
<1>1. PlanOf(q).kind = "since" => SinceFollows(q.unit, packs, asked, result)
  BY SinceIsFollowed, Zenon
<1>2. PlanOf(q).kind = "interval" => IntervalFollows(q.unit, packs, result)
  BY IntervalIsFollowed, Zenon
<1>3. PlanOf(q).kind = "span" => SpanFollows(q.unit, packs, result)
  BY SpanIsFollowed, Zenon
<1>4. PlanOf(q).kind = "category" => CategoryFollows(q.stated, packs, result)
  BY CategoryIsFollowed, Zenon
<1>5. PlanOf(q).kind = "order" => OrderFollows(packs, result)
  BY OrderIsFollowed, Zenon
<1> QED
  BY <1>1, <1>2, <1>3, <1>4, <1>5, Zenon DEF AnswerFollows

(* A sample of a question is a question that is read.                      *)
LEMMA SampledQuestions ==
  ASSUME NEW s \in QuestionSamples
  PROVE  IsAsked(s.question, s.packs, s.asked)
<1> DEFINE q == s.question
           packs == s.packs
           IsSingle == packs \in [1 .. 1 -> OnePack]
           IsPair == packs \in [1 .. 2 -> UpTo(Anchors, 2)]
<1>1. \A n \in Nat : \A pack \in UpTo(Anchors, n) : IsPack(pack)
  <2> SUFFICES ASSUME NEW n \in Nat, NEW pack \in UpTo(Anchors, n) PROVE IsPack(pack)
    OBVIOUS
  <2>1. PICK k \in 0 .. n : pack \in [1 .. k -> Anchors]
    BY Zenon DEF UpTo
  <2>2. k \in Nat
    OBVIOUS
  <2> QED
    BY <2>1, <2>2, Zenon DEF IsPack
<1>2. IsSingle => DOMAIN packs = 1 .. 1 /\ \A k \in DOMAIN packs : IsPack(packs[k])
  BY <1>1, SamplesAssumption DEF OnePack
<1>3. IsPair => DOMAIN packs = 1 .. 2 /\ \A k \in DOMAIN packs : IsPack(packs[k])
  BY <1>1
<1>4. \A x, y, z : s \in Asked(x, y, z) => q \in x /\ packs \in y /\ s.asked \in z
  BY SMT DEF Asked
<1>5. \/ /\ \E u \in Units : q = [Question(u) EXCEPT !.fromNow = TRUE]
         /\ IsSingle /\ s.asked \in {{}, {5}, {30}}
      \/ /\ \E u \in Units : q = [Question(u) EXCEPT !.took = TRUE, !.fromNow = TRUE]
         /\ IsSingle /\ s.asked \in {{}}
      \/ /\ \E k \in {0, 2, 3} : q = [Question("days") EXCEPT !.category = TRUE, !.stated = k]
         /\ IsSingle /\ s.asked \in {{}}
      \/ /\ q = [Question("days") EXCEPT !.between = TRUE, !.fromNow = TRUE]
         /\ IsPair /\ s.asked \in {{30}}
      \/ /\ q = [Question("none") EXCEPT !.orders = TRUE, !.listed = <<1, 2>>]
         /\ IsPair /\ s.asked \in {{30}}
  <2> DEFINE since == {[Question(u) EXCEPT !.fromNow = TRUE] : u \in Units}
             span == {[Question(u) EXCEPT !.took = TRUE, !.fromNow = TRUE] : u \in Units}
             category == {[Question("days") EXCEPT !.category = TRUE, !.stated = k] : k \in {0, 2, 3}}
             interval == {[Question("days") EXCEPT !.between = TRUE, !.fromNow = TRUE]}
             order == {[Question("none") EXCEPT !.orders = TRUE, !.listed = <<1, 2>>]}
  <2>1. \/ s \in Asked(since, [1 .. 1 -> OnePack], {{}, {5}, {30}})
        \/ s \in Asked(span, [1 .. 1 -> OnePack], {{}})
        \/ s \in Asked(category, [1 .. 1 -> OnePack], {{}})
        \/ s \in Asked(interval, TwoPacks, {{30}})
        \/ s \in Asked(order, TwoPacks, {{30}})
    BY Zenon DEF QuestionSamples
  <2>2. /\ q \in since => \E u \in Units : q = [Question(u) EXCEPT !.fromNow = TRUE]
        /\ q \in span => \E u \in Units : q = [Question(u) EXCEPT !.took = TRUE, !.fromNow = TRUE]
        /\ q \in category =>
             \E k \in {0, 2, 3} : q = [Question("days") EXCEPT !.category = TRUE, !.stated = k]
        /\ q \in interval => q = [Question("days") EXCEPT !.between = TRUE, !.fromNow = TRUE]
        /\ q \in order => q = [Question("none") EXCEPT !.orders = TRUE, !.listed = <<1, 2>>]
    <3> HIDE DEF q
    <3> QED
      BY Zenon
  <2> HIDE DEF since, span, category, interval, order
  <2>3. \/ q \in since /\ IsSingle /\ s.asked \in {{}, {5}, {30}}
        \/ q \in span /\ IsSingle /\ s.asked \in {{}}
        \/ q \in category /\ IsSingle /\ s.asked \in {{}}
        \/ q \in interval /\ IsPair /\ s.asked \in {{30}}
        \/ q \in order /\ IsPair /\ s.asked \in {{30}}
    BY <1>4, <2>1, Zenon DEF TwoPacks
  <2> HIDE DEF q, packs, IsSingle, IsPair
  <2> QED
    BY <2>2, <2>3, Zenon
<1> HIDE DEF q, packs
<1>6. s.asked = {} \/ \E day \in Int : s.asked = {day}
  <2>1. s.asked \in {{}, {5}, {30}}
    BY <1>5, Zenon
  <2> QED
    BY <2>1
<1>7. ASSUME NEW u \in Units, q = [Question(u) EXCEPT !.fromNow = TRUE]
      PROVE  PlanOf(q).kind = "since" /\ q.stated \in Nat
  BY <1>7 DEF PlanOf, Question, Units
<1>8. ASSUME NEW u \in Units, q = [Question(u) EXCEPT !.took = TRUE, !.fromNow = TRUE]
      PROVE  PlanOf(q).kind = "span" /\ q.stated \in Nat
  BY <1>8 DEF PlanOf, Question, Units
<1>9. ASSUME NEW k \in {0, 2, 3}, q = [Question("days") EXCEPT !.category = TRUE, !.stated = k]
      PROVE  PlanOf(q).kind = "category" /\ q.stated \in Nat
  BY <1>9 DEF PlanOf, Question
<1>10. ASSUME q = [Question("days") EXCEPT !.between = TRUE, !.fromNow = TRUE]
       PROVE  PlanOf(q).kind = "interval" /\ q.stated \in Nat
  BY <1>10 DEF PlanOf, Question
<1>11. ASSUME q = [Question("none") EXCEPT !.orders = TRUE, !.listed = <<1, 2>>]
       PROVE  PlanOf(q).kind = "order" /\ q.stated \in Nat
  BY <1>11 DEF PlanOf, Question
<1>12. \/ PlanOf(q).kind \in {"since", "span", "category"} /\ q.stated \in Nat /\ IsSingle
       \/ PlanOf(q).kind \in {"interval", "order"} /\ q.stated \in Nat /\ IsPair
  BY <1>5, <1>7, <1>8, <1>9, <1>10, <1>11
<1>13. \E n \in Nat : DOMAIN packs = 1 .. n
  BY <1>2, <1>3, <1>12
<1> HIDE DEF IsSingle, IsPair
<1> QED
  BY <1>2, <1>3, <1>6, <1>12, <1>13 DEF IsAsked, q, packs

(* Answers: for every question and pack that is sampled.                   *)
THEOREM AnswersOfEverySample ==
  ASSUME SamplesInit
  PROVE  AnswersFollowTheirAnchors
<1> SUFFICES ASSUME sample.topic = "question"
             PROVE  AnswerFollows(sample.question, sample.packs, sample.asked)
  BY DEF AnswersFollowTheirAnchors
<1>1. IsAsked(sample.question, sample.packs, sample.asked)
  BY SampleTopics, SampledQuestions
<1> QED
  BY <1>1, AnswerOfEveryQuestion

=============================================================================
