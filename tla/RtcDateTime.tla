---------------------------- MODULE RtcDateTime ----------------------------
(***************************************************************************)
(* A date as the clock's library holds it, on its way from a request to    *)
(* the registers of the DS1302 and back, and the calendar to judge it by.  *)
(* Pure definitions, with the widths of the code: a date is six bytes, the *)
(* year counted from 2000.  The day of the week is left out: it is written *)
(* to a register nobody reads.                                             *)
(***************************************************************************)
EXTENDS Naturals, Integers

Byte == 0 .. 255

Fields == {"year", "month", "day", "hour", "minute", "second"}

Dates == [Fields -> Byte]

\* A JSON number as an unsigned integer: 0 when it does not fit.
FromJson(number, limit) == IF number \in 0 .. limit - 1 THEN number ELSE 0

\* The constructor's _yearFrom2000: a year before 2000 is taken as it is, and the
\* byte wraps.
YearFrom2000(year) == (IF year >= 2000 THEN year - 2000 ELSE year) % 256

\* The constructor, applied to the members of a request body.
Constructed(asked) ==
  [f \in Fields |-> IF f = "year" THEN YearFrom2000(FromJson(asked.year, 65536))
                                  ELSE FromJson(asked[f], 256)]

\* Mutant: the sum is kept in an int.
Uint8ToBcdWide(val) == val + 6 * (val \div 10)

Uint8ToBcd(val) == (val + 6 * (val \div 10)) % 256

BcdToUint8(val) == (val - 6 * (val \div 16)) % 256

HasBit(val, weight) == (val \div weight) % 2 = 1

\* Bit 6 means 12 hour mode to the library.
BcdToBin24Hour(bcdHour) ==
  IF HasBit(bcdHour, 64)
  THEN BcdToUint8(bcdHour % 32) + (IF HasBit(bcdHour, 32) THEN 12 ELSE 0)
  ELSE BcdToUint8(bcdHour)

\* The registers SetDateTime() writes, and the date GetDateTime() makes of them.
Encoded(date) == [f \in Fields |-> Uint8ToBcd(date[f])]

Decoded(registers) ==
  [f \in Fields |->
     IF f = "hour" THEN BcdToBin24Hour(registers[f])
     ELSE IF f = "second" THEN BcdToUint8(registers[f] % 128)
     ELSE BcdToUint8(registers[f])]

\* Mutant: 31 days for every month but February.
IsValidAnyThirtyFirst(date) ==
  /\ date.month \in 1 .. 12 /\ date.day \in 1 .. 31
  /\ date.hour < 24 /\ date.minute < 60 /\ date.second < 60
  /\ date.month = 2 => date.day <= 29

\* The lengths of the months by the parity the code uses, February by the
\* Gregorian rule.
IsValid(date) ==
  /\ date.month \in 1 .. 12 /\ date.day \in 1 .. 31
  /\ date.hour < 24 /\ date.minute < 60 /\ date.second < 60
  /\ date.month = 2 => date.day <= 29
  /\ date.month = 2 /\ date.day = 29 =>
       LET year == 2000 + date.year
       IN  year % 4 = 0 /\ ~ (year % 100 = 0 /\ year % 400 # 0)
  /\ date.month # 2 /\ date.day = 31 => ((date.month - 1) % 7) % 2 # 1

-----------------------------------------------------------------------------
(* The calendar. *)

LeapYear(year) == year % 400 = 0 \/ (year % 4 = 0 /\ year % 100 # 0)

DaysIn(year, month) ==
  IF month = 2 THEN (IF LeapYear(2000 + year) THEN 29 ELSE 28)
  ELSE IF month \in {4, 6, 9, 11} THEN 30 ELSE 31

IsDate(date) ==
  /\ date.month \in 1 .. 12
  /\ date.day \in 1 .. DaysIn(date.year, date.month)
  /\ date.hour \in 0 .. 23 /\ date.minute \in 0 .. 59 /\ date.second \in 0 .. 59

\* The dates the two digits of the year register are made for.
OfThisCentury(date) == IsDate(date) /\ date.year \in 0 .. 99

\* The midnight after a day, in the hundred years the chip can tell apart.
NextDay(date) ==
  LET midnight == [date EXCEPT !.second = 0, !.minute = 0, !.hour = 0]
  IN  IF date.day < DaysIn(date.year, date.month)
      THEN [midnight EXCEPT !.day = @ + 1]
      ELSE IF date.month < 12
      THEN [midnight EXCEPT !.day = 1, !.month = @ + 1]
      ELSE [midnight EXCEPT !.day = 1, !.month = 1, !.year = (@ + 1) % 100]

\* One second later.
Succ(date) ==
  IF date.second < 59 THEN [date EXCEPT !.second = @ + 1]
  ELSE IF date.minute < 59 THEN [date EXCEPT !.second = 0, !.minute = @ + 1]
  ELSE IF date.hour < 23 THEN [date EXCEPT !.second = 0, !.minute = 0, !.hour = @ + 1]
  ELSE NextDay(date)
=============================================================================
