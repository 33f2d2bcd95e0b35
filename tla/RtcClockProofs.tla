--------------------------- MODULE RtcClockProofs ---------------------------
(***************************************************************************)
(* Proofs about RtcDateTime and RtcClock, for every set of dates a client  *)
(* asks for, every content of a fresh chip and every number of seconds.    *)
(***************************************************************************)
EXTENDS RtcClock, TLAPS

\* Two decimal digits survive the way into a register and back, and leave the
\* highest bit of their byte to the flags up to 79.
LEMMA BcdRoundTrip ==
  ASSUME NEW val \in 0 .. 99
  PROVE  /\ BcdToUint8(Uint8ToBcd(val)) = val
         /\ Uint8ToBcd(val) \in 0 .. 153
         /\ val < 80 => Uint8ToBcd(val) < 128
         /\ val < 40 => Uint8ToBcd(val) < 64
         /\ val < 20 => Uint8ToBcd(val) < 32
BY SMT DEF BcdToUint8, Uint8ToBcd

\* What a date is made of.
LEMMA FieldsAreBytes ==
  ASSUME NEW date \in Dates
  PROVE  /\ date.year \in 0 .. 255 /\ date.month \in 0 .. 255 /\ date.day \in 0 .. 255
         /\ date.hour \in 0 .. 255 /\ date.minute \in 0 .. 255 /\ date.second \in 0 .. 255
BY DEF Dates, Fields, Byte

\* The code's way of telling the months of 31 days and the leap years is the
\* calendar's.
LEMMA ValidIsDate ==
  ASSUME NEW date \in Dates
  PROVE  IsValid(date) <=> IsDate(date)
<1>1. date.month \in 1 .. 12 /\ date.month # 2 =>
        ((date.month - 1) % 7) % 2 # 1 <=> date.month \notin {4, 6, 9, 11}
  BY FieldsAreBytes, SMT
<1> DEFINE leap == LeapYear(2000 + date.year)
           long == date.month \notin {4, 6, 9, 11}
           time == date.hour < 24 /\ date.minute < 60 /\ date.second < 60
<1>2. leap <=> LET year == 2000 + date.year
               IN  year % 4 = 0 /\ ~ (year % 100 = 0 /\ year % 400 # 0)
  <2>1. ASSUME NEW year \in Nat
        PROVE  LeapYear(year) <=> year % 4 = 0 /\ ~ (year % 100 = 0 /\ year % 400 # 0)
    BY SMT DEF LeapYear
  <2>2. 2000 + date.year \in Nat
    BY FieldsAreBytes, SMT
  <2> QED
    BY <2>1, <2>2
<1>3. time <=> date.hour \in 0 .. 23 /\ date.minute \in 0 .. 59 /\ date.second \in 0 .. 59
  BY FieldsAreBytes
<1>4. IsDate(date) <=> /\ date.month \in 1 .. 12
                       /\ date.day \in 1 .. DaysIn(date.year, date.month)
                       /\ time
  BY <1>3 DEF IsDate
<1>5. CASE date.month = 2
  <2>0. date.month \in 1 .. 12
    BY <1>5
  <2>1. IsValid(date) <=> /\ date.day \in 1 .. 31 /\ time
                          /\ date.day <= 29
                          /\ date.day = 29 => leap
    BY <1>2, <1>5, <2>0 DEF IsValid
  <2>2. DaysIn(date.year, date.month) = IF leap THEN 29 ELSE 28
    BY <1>5 DEF DaysIn
  <2> HIDE DEF leap, time
  <2> QED
    BY <1>4, <1>5, <2>1, <2>2, FieldsAreBytes
<1>6. CASE date.month # 2
  <2>1. IsValid(date) <=> /\ date.month \in 1 .. 12 /\ date.day \in 1 .. 31 /\ time
                          /\ date.day = 31 => long
    BY <1>1, <1>6, Zenon DEF IsValid
  <2>2. DaysIn(date.year, date.month) = IF long THEN 31 ELSE 30
    BY <1>6 DEF DaysIn
  <2> HIDE DEF long, time
  <2> QED
    BY <1>4, <2>1, <2>2, FieldsAreBytes
<1> QED
  BY <1>5, <1>6

\* Registers are bytes, and so is what is read from them.
LEMMA DecodedIsDate ==
  ASSUME NEW regs \in Dates
  PROVE  Decoded(regs) \in Dates
BY SMT DEF Decoded, Dates, Byte, BcdToUint8, BcdToBin24Hour, HasBit

\* The bytes of a date are registers.
LEMMA EncodedIsBytes ==
  ASSUME NEW date \in Dates
  PROVE  Encoded(date) \in Dates
BY SMT DEF Encoded, Dates, Byte, Uint8ToBcd

\* A change of the time of day leaves a date one, and so does a change of the day
\* within its month.
LEMMA TimeOfDayChanges ==
  ASSUME NEW date \in Dates, OfThisCentury(date), NEW later \in Dates,
         later.year = date.year, later.month = date.month,
         later.day \in 1 .. DaysIn(date.year, date.month),
         later.hour \in 0 .. 23, later.minute \in 0 .. 59, later.second \in 0 .. 59
  PROVE  OfThisCentury(later)
BY DEF OfThisCentury, IsDate

\* The calendar goes on.
LEMMA SuccIsDate ==
  ASSUME NEW date \in Dates, OfThisCentury(date)
  PROVE  Succ(date) \in Dates /\ OfThisCentury(Succ(date))
<1>1. /\ date.year \in 0 .. 99 /\ date.month \in 1 .. 12
      /\ date.day \in 1 .. DaysIn(date.year, date.month)
      /\ date.hour \in 0 .. 23 /\ date.minute \in 0 .. 59 /\ date.second \in 0 .. 59
  BY DEF OfThisCentury, IsDate
<1>2. DaysIn(date.year, date.month) \in 28 .. 31
  BY DEF DaysIn
<1>3. CASE date.second < 59
  <2>1. Succ(date) = [date EXCEPT !.second = date.second + 1]
    BY <1>3 DEF Succ
  <2>2. /\ Succ(date) \in Dates
        /\ Succ(date).year = date.year /\ Succ(date).month = date.month
        /\ Succ(date).day = date.day /\ Succ(date).hour = date.hour
        /\ Succ(date).minute = date.minute /\ Succ(date).second = date.second + 1
    BY <1>1, <1>3, <2>1 DEF Dates, Fields, Byte
  <2> QED
    BY <1>1, <1>3, <2>2, TimeOfDayChanges
<1>4. CASE date.second >= 59 /\ date.minute < 59
  <2>1. Succ(date) = [date EXCEPT !.second = 0, !.minute = date.minute + 1]
    BY <1>1, <1>4 DEF Succ
  <2>2. 0 \in Byte /\ date.minute + 1 \in Byte
    BY <1>1, <1>4 DEF Byte
  <2>3. Succ(date) \in Dates
    BY <2>1, <2>2 DEF Dates, Fields
  <2>4. /\ Succ(date).year = date.year /\ Succ(date).month = date.month
        /\ Succ(date).day = date.day /\ Succ(date).hour = date.hour
        /\ Succ(date).minute = date.minute + 1 /\ Succ(date).second = 0
    BY <2>1 DEF Dates, Fields
  <2> QED
    BY <1>1, <1>4, <2>3, <2>4, TimeOfDayChanges
<1>5. CASE date.second >= 59 /\ date.minute >= 59 /\ date.hour < 23
  <2>1. Succ(date) = [date EXCEPT !.second = 0, !.minute = 0, !.hour = date.hour + 1]
    BY <1>1, <1>5 DEF Succ
  <2>2. 0 \in Byte /\ date.hour + 1 \in Byte
    BY <1>1, <1>5 DEF Byte
  <2>3. Succ(date) \in Dates
    BY <2>1, <2>2 DEF Dates, Fields
  <2>4. /\ Succ(date).year = date.year /\ Succ(date).month = date.month
        /\ Succ(date).day = date.day /\ Succ(date).hour = date.hour + 1
        /\ Succ(date).minute = 0 /\ Succ(date).second = 0
    BY <2>1 DEF Dates, Fields
  <2> QED
    BY <1>1, <1>5, <2>3, <2>4, TimeOfDayChanges
<1>6. CASE date.second >= 59 /\ date.minute >= 59 /\ date.hour >= 23
  <2> DEFINE midnight == [date EXCEPT !.second = 0, !.minute = 0, !.hour = 0]
  <2>1. Succ(date) = NextDay(date)
    BY <1>1, <1>6 DEF Succ
  <2>0. 0 \in Byte /\ 1 \in Byte
    BY DEF Byte
  <2>2. /\ midnight \in Dates
        /\ midnight.year = date.year /\ midnight.month = date.month
        /\ midnight.day = date.day /\ midnight.hour = 0
        /\ midnight.minute = 0 /\ midnight.second = 0
    <3>1. midnight \in Dates
      BY <2>0 DEF Dates, Fields
    <3>2. /\ midnight.year = date.year /\ midnight.month = date.month
          /\ midnight.day = date.day /\ midnight.hour = 0
          /\ midnight.minute = 0 /\ midnight.second = 0
      BY DEF Dates, Fields
    <3> QED
      BY <3>1, <3>2
  <2>3. CASE date.day < DaysIn(date.year, date.month)
    <3>1. Succ(date) = [midnight EXCEPT !.day = date.day + 1]
      BY <2>1, <2>2, <2>3 DEF NextDay
    <3> HIDE DEF midnight
    <3>2. date.day + 1 \in Byte
      BY <1>1, <1>2 DEF Byte
    <3>3. Succ(date) \in Dates
      BY <2>2, <3>1, <3>2 DEF Dates, Fields
    <3>4. /\ Succ(date).year = date.year /\ Succ(date).month = date.month
          /\ Succ(date).day = date.day + 1 /\ Succ(date).hour = 0
          /\ Succ(date).minute = 0 /\ Succ(date).second = 0
      BY <2>2, <3>1 DEF Dates, Fields
    <3> QED
      BY <1>1, <1>2, <2>3, <3>3, <3>4, TimeOfDayChanges
  <2>4. CASE date.day >= DaysIn(date.year, date.month) /\ date.month < 12
    <3>1. Succ(date) = [midnight EXCEPT !.day = 1, !.month = date.month + 1]
      BY <1>1, <1>2, <2>1, <2>2, <2>4 DEF NextDay
    <3> HIDE DEF midnight
    <3>2. date.month + 1 \in Byte
      BY <1>1 DEF Byte
    <3>3. Succ(date) \in Dates
      BY <2>0, <2>2, <3>1, <3>2 DEF Dates, Fields
    <3>4. /\ Succ(date).year = date.year /\ Succ(date).month = date.month + 1
          /\ Succ(date).day = 1 /\ Succ(date).hour = 0
          /\ Succ(date).minute = 0 /\ Succ(date).second = 0
      BY <2>2, <3>1 DEF Dates, Fields
    <3> QED
      BY <1>1, <2>4, <3>3, <3>4 DEF OfThisCentury, IsDate, DaysIn
  <2>5. CASE date.day >= DaysIn(date.year, date.month) /\ date.month >= 12
    <3> DEFINE year == (date.year + 1) % 100
    <3>1. Succ(date) = [midnight EXCEPT !.day = 1, !.month = 1, !.year = year]
      BY <1>1, <1>2, <2>1, <2>2, <2>5 DEF NextDay
    <3>2. year \in 0 .. 99 /\ year \in Byte
      BY <1>1 DEF Byte
    <3> HIDE DEF midnight, year
    <3>3. Succ(date) \in Dates
      BY <2>0, <2>2, <3>1, <3>2 DEF Dates, Fields
    <3>4. /\ Succ(date).year = year /\ Succ(date).month = 1
          /\ Succ(date).day = 1 /\ Succ(date).hour = 0
          /\ Succ(date).minute = 0 /\ Succ(date).second = 0
      BY <2>2, <3>1 DEF Dates, Fields
    <3> QED
      BY <3>2, <3>3, <3>4 DEF OfThisCentury, IsDate, DaysIn
  <2> QED
    BY <1>1, <1>2, <2>3, <2>4, <2>5
<1> QED
  BY <1>1, <1>3, <1>4, <1>5, <1>6

-----------------------------------------------------------------------------
(* From a date into the chip and back. *)

\* A date of this century reads back as it was written, and does not halt the
\* clock.
LEMMA EncodedReads ==
  ASSUME NEW date \in Dates, OfThisCentury(date)
  PROVE  /\ Decoded(Encoded(date)) = date
         /\ Running(Encoded(date))
<1> DEFINE regs == Encoded(date)
<1>1. /\ date.year \in 0 .. 99 /\ date.month \in 1 .. 12 /\ date.day \in 1 .. 31
      /\ date.hour \in 0 .. 23 /\ date.minute \in 0 .. 59 /\ date.second \in 0 .. 59
  BY DEF OfThisCentury, IsDate, DaysIn
<1>2. \A f \in Fields : date[f] \in 0 .. 99
  BY <1>1 DEF Fields
<1>3. \A f \in Fields : /\ regs[f] = Uint8ToBcd(date[f])
                        /\ regs[f] \in 0 .. 153
                        /\ BcdToUint8(regs[f]) = date[f]
  BY <1>2, BcdRoundTrip DEF Encoded
<1>4. regs.second < 128 /\ regs.second \in 0 .. 153 /\ regs.second % 128 = regs.second
  <2>1. date.second \in 0 .. 99 /\ date.second < 80
    BY <1>1
  <2>2. regs.second = Uint8ToBcd(date.second)
    BY <1>3 DEF Fields
  <2>3. regs.second < 128 /\ regs.second \in 0 .. 153
    BY <2>1, <2>2, BcdRoundTrip
  <2> QED
    BY <2>3, SMT
<1>5. regs.hour < 64 /\ regs.hour \in 0 .. 153
  <2>1. date.hour \in 0 .. 99 /\ date.hour < 40
    BY <1>1
  <2>2. regs.hour = Uint8ToBcd(date.hour)
    BY <1>3 DEF Fields
  <2> QED
    BY <2>1, <2>2, BcdRoundTrip
<1>6. ~ HasBit(regs.hour, 64) /\ ~ HasBit(regs.second, 128)
  BY <1>4, <1>5, SMT DEF HasBit
<1> HIDE DEF regs
<1>7. \A f \in Fields : Decoded(regs)[f] = date[f]
  <2> SUFFICES ASSUME NEW f \in Fields PROVE Decoded(regs)[f] = date[f]
    OBVIOUS
  <2>1. CASE f = "hour"
    BY <1>3, <1>6, <2>1 DEF Decoded, BcdToBin24Hour
  <2>2. CASE f = "second"
    BY <1>3, <1>4, <2>2 DEF Decoded
  <2>3. CASE f \notin {"hour", "second"}
    BY <1>3, <2>3 DEF Decoded
  <2> QED
    BY <2>1, <2>2, <2>3
<1>8. Decoded(regs) = date
  <2>1. Decoded(regs) = [f \in Fields |-> Decoded(regs)[f]]
    BY DEF Decoded
  <2>2. date = [f \in Fields |-> date[f]]
    BY DEF Dates
  <2> QED
    BY <1>7, <2>1, <2>2
<1> QED
  BY <1>6, <1>8 DEF Running, regs

\* The bits the chip may lack are none of those a date of this century uses.
LEMMA NothingIsLost ==
  ASSUME NEW date \in Dates, OfThisCentury(date)
  PROVE  Kept(Encoded(date)) = {Encoded(date)}
<1> DEFINE regs == Encoded(date)
           masked == [regs EXCEPT !.minute = @ % 128,
                                  !.hour = (@ % 64) + 128 * (@ \div 128),
                                  !.day = @ % 64,
                                  !.month = @ % 32]
<1>1. /\ date.month \in 1 .. 12 /\ date.day \in 1 .. 31
      /\ date.hour \in 0 .. 23 /\ date.minute \in 0 .. 59
  BY DEF OfThisCentury, IsDate, DaysIn
<1>2. \A f \in Fields : regs[f] = Uint8ToBcd(date[f])
  BY DEF Encoded
<1>3. /\ regs.month \in 0 .. 31 /\ regs.day \in 0 .. 63
      /\ regs.hour \in 0 .. 63 /\ regs.minute \in 0 .. 127
  <2>1. \A val \in 0 .. 19 : Uint8ToBcd(val) \in 0 .. 31
    BY SMT DEF Uint8ToBcd
  <2>2. \A val \in 0 .. 39 : Uint8ToBcd(val) \in 0 .. 63
    BY SMT DEF Uint8ToBcd
  <2>3. \A val \in 0 .. 79 : Uint8ToBcd(val) \in 0 .. 127
    BY SMT DEF Uint8ToBcd
  <2>4. /\ date.month \in 0 .. 19 /\ date.day \in 0 .. 39
        /\ date.hour \in 0 .. 39 /\ date.minute \in 0 .. 79
    BY <1>1
  <2>5. /\ regs.month = Uint8ToBcd(date.month) /\ regs.day = Uint8ToBcd(date.day)
        /\ regs.hour = Uint8ToBcd(date.hour) /\ regs.minute = Uint8ToBcd(date.minute)
    BY <1>2 DEF Fields
  <2> QED
    BY <2>1, <2>2, <2>3, <2>4, <2>5
<1>4. /\ regs.month % 32 = regs.month /\ regs.day % 64 = regs.day
      /\ regs.minute % 128 = regs.minute
      /\ (regs.hour % 64) + 128 * (regs.hour \div 128) = regs.hour
  BY <1>3, SMT
<1>5. regs = [f \in Fields |-> regs[f]]
  BY DEF Encoded
<1> HIDE DEF regs
<1>6. masked = regs
  BY <1>4, <1>5 DEF Fields
<1>7. Kept(regs) = {regs, masked}
  BY DEF Kept
<1> QED
  BY <1>6, <1>7 DEF regs

\* A number that fits is itself, any other is still a natural number.
LEMMA NumbersFit ==
  ASSUME NEW number \in Int, NEW limit \in Nat
  PROVE  /\ FromJson(number, limit) \in Nat
         /\ number >= 0 /\ number < limit => FromJson(number, limit) = number
BY SMT DEF FromJson

\* Whatever is asked for, the constructor makes bytes of it.
LEMMA ConstructedIsBytes ==
  ASSUME NEW asked \in [Fields -> Int]
  PROVE  Constructed(asked) \in Dates
<1>1. ASSUME NEW number \in Int PROVE FromJson(number, 256) \in Byte
  BY SMT DEF FromJson, Byte
<1>2. ASSUME NEW number \in Int PROVE YearFrom2000(FromJson(number, 65536)) \in Byte
  <2>1. FromJson(number, 65536) \in Nat
    BY NumbersFit
  <2>2. \A year \in Nat : YearFrom2000(year) \in Byte
    BY SMT DEF YearFrom2000, Byte
  <2> QED
    BY <2>1, <2>2
<1>3. \A f \in Fields : asked[f] \in Int
  OBVIOUS
<1>4. asked.year \in Int
  BY <1>3 DEF Fields
<1> QED
  BY <1>1, <1>2, <1>3, <1>4 DEF Constructed, Dates

\* The chip keeps bytes.
LEMMA KeptIsBytes ==
  ASSUME NEW bytes \in Dates, NEW regs \in Kept(bytes)
  PROVE  regs \in Dates
<1>1. /\ bytes.minute % 128 \in Byte /\ bytes.day % 64 \in Byte
      /\ bytes.month % 32 \in Byte
      /\ (bytes.hour % 64) + 128 * (bytes.hour \div 128) \in Byte
  BY FieldsAreBytes, SMT DEF Byte
<1>2. ASSUME NEW m \in Byte, NEW h \in Byte, NEW d \in Byte, NEW mo \in Byte
      PROVE  [bytes EXCEPT !.minute = m, !.hour = h, !.day = d, !.month = mo] \in Dates
  BY Zenon DEF Dates
<1>3. [bytes EXCEPT !.minute = @ % 128,
                    !.hour = (@ % 64) + 128 * (@ \div 128),
                    !.day = @ % 64,
                    !.month = @ % 32] \in Dates
  BY <1>1, <1>2, Zenon
<1> QED
  BY <1>3 DEF Kept

\* A date that is meant is the date the constructor makes.
LEMMA MeantIsConstructed ==
  ASSUME RtcAssumption, request.body \in Asked, Meant # Nothing
  PROVE  /\ Meant = Constructed(request.body)
         /\ Meant \in Dates /\ OfThisCentury(Meant)
<1> DEFINE asked == request.body
           date == [asked EXCEPT !.year = asked.year - 2000]
<1>1. asked \in [Fields -> Int]
  BY DEF RtcAssumption
<1>2. Meant = date /\ OfThisCentury(date)
  BY DEF Meant
<1>3. /\ date.year = asked.year - 2000 /\ date.month = asked.month
      /\ date.day = asked.day /\ date.hour = asked.hour
      /\ date.minute = asked.minute /\ date.second = asked.second
  BY <1>1 DEF Fields
<1>4. /\ asked.year \in 2000 .. 2099 /\ asked.month \in 1 .. 12
      /\ asked.day \in 1 .. 31 /\ asked.hour \in 0 .. 23
      /\ asked.minute \in 0 .. 59 /\ asked.second \in 0 .. 59
  <2>1. asked.year \in Int /\ date.year \in 0 .. 99
    BY <1>1, <1>2 DEF OfThisCentury, Fields
  <2>2. asked.year \in 2000 .. 2099
    BY <1>3, <2>1, SMT
  <2> QED
    BY <1>2, <1>3, <2>2 DEF OfThisCentury, IsDate, DaysIn
<1>5. /\ \A f \in Fields \ {"year"} : FromJson(asked[f], 256) = asked[f]
      /\ YearFrom2000(FromJson(asked.year, 65536)) = asked.year - 2000
  <2>1. \A f \in Fields \ {"year"} : asked[f] \in 0 .. 255
    BY <1>4 DEF Fields
  <2>2. \A f \in Fields \ {"year"} : FromJson(asked[f], 256) = asked[f]
    BY <2>1, SMT DEF FromJson
  <2>3. FromJson(asked.year, 65536) = asked.year
    <3> DEFINE year == asked.year
               limit == 65536
    <3>1. year \in Int /\ limit \in Nat /\ year >= 0 /\ year < limit
      BY <1>4
    <3> HIDE DEF year, limit
    <3>2. FromJson(year, limit) = year
      BY <3>1, NumbersFit
    <3> QED
      BY <3>2 DEF year, limit
  <2>4. YearFrom2000(asked.year) = asked.year - 2000
    BY <1>4, SMT DEF YearFrom2000
  <2> QED
    BY <2>2, <2>3, <2>4
<1> HIDE DEF asked
<1>6. Constructed(asked) = date
  <2>1. Constructed(asked) = [f \in Fields |-> IF f = "year" THEN asked.year - 2000
                                                ELSE asked[f]]
    BY <1>5 DEF Constructed
  <2> QED
    BY <1>1, <2>1 DEF Fields
<1>7. Constructed(asked) \in Dates
  BY <1>1, ConstructedIsBytes
<1> QED
  BY <1>2, <1>6, <1>7 DEF asked

-----------------------------------------------------------------------------
(* The inductive invariant. *)

\* The registers are those the last good date, and the seconds since, make.
Agrees == truth # Nothing => OfThisCentury(truth) /\ registers = Encoded(truth)

\* A handler serves a request of its own route, and only POST /time writes, after
\* it has parsed the body.
Underway ==
  /\ phase # "idle" => request \in Requests
  /\ phase \in {"check", "write", "verify"} => request.op = "POST"
  /\ phase = "read" => request.op = "GET"
  /\ phase \in {"start", "unprotect", "write", "verify"} /\ request.op = "POST" =>
       request.body # Malformed

\* Nobody protects the chip, so one found writable takes the write that starts it.
Started ==
  /\ phase \in {"check", "start"} /\ ~ sealed => ~ protected
  /\ phase \in {"unprotect", "read", "answered"} /\ request.op = "GET" /\ ~ sealed =>
       Running(registers)

IInv ==
  /\ TypeOK
  /\ Agrees
  /\ Underway
  /\ Started
  /\ AnswerTellsTheClock
  /\ ServesADate

\* The registers of a date that was kept read as that date.
LEMMA AgreesReads ==
  ASSUME TypeOK, Agrees
  PROVE  KeepsTime
BY EncodedReads DEF TypeOK, Agrees, KeepsTime

\* A body that was parsed is one of those asked for.
LEMMA BodyIsAsked ==
  ASSUME Underway, request.op = "POST",
         phase \in {"start", "unprotect", "write", "verify"}
  PROVE  request.body \in Asked
BY DEF Underway, Requests

\* A fresh chip and no request.
LEMMA InitIInv == Init => IInv
<1> SUFFICES ASSUME Init PROVE IInv
  OBVIOUS
<1>1. answer.status = 0 /\ answer.time = Nothing
  BY DEF Init, NoAnswer
<1>2. registers \in Dates /\ ticks \in 0 .. MaxTicks
  BY RtcAssumption DEF RtcAssumption, Init
<1>3. TypeOK
  BY <1>1, <1>2 DEF Init, TypeOK
<1>4. Agrees /\ Underway /\ Started /\ AnswerTellsTheClock /\ ServesADate
  BY DEF Init, Agrees, Underway, Started, AnswerTellsTheClock, ServesADate
<1> QED
  BY <1>3, <1>4 DEF IInv

\* A second counted is a second of the calendar, whoever is being served.
LEMMA TickIInv == IInv /\ Tick => IInv'
<1> SUFFICES ASSUME IInv, Tick PROVE IInv'
  OBVIOUS
<1> DEFINE now == Decoded(registers)
<1> USE DEF IInv
<1>1. now \in Dates /\ OfThisCentury(now) /\ registers = Encoded(now)
  BY DecodedIsDate DEF Tick, TypeOK
<1>2. Succ(now) \in Dates /\ OfThisCentury(Succ(now)) /\ registers' = Encoded(Succ(now))
  BY <1>1, SuccIsDate DEF Tick
<1>3. registers' \in Dates /\ Running(registers') /\ Decoded(registers') = Succ(now)
  BY <1>2, EncodedIsBytes, EncodedReads
<1>4. truth # Nothing => truth = now
  BY EncodedReads DEF TypeOK, Agrees
<1>5. /\ truth # Nothing => truth' = Succ(now)
      /\ truth = Nothing => truth' = Nothing
  BY <1>4 DEF Tick
<1>6. UNCHANGED <<protected, phase, request, answer, sealed>>
  BY DEF Tick
<1> HIDE DEF now
<1>7. TypeOK'
  <2>1. ticks' \in 0 .. MaxTicks
    BY RtcAssumption DEF Tick, TypeOK
  <2> QED
    BY <1>2, <1>3, <1>5, <1>6, <2>1 DEF TypeOK
<1>8. Agrees'
  BY <1>2, <1>5 DEF Agrees
<1>9. Underway'
  BY <1>6 DEF Underway
<1>10. Started'
  BY <1>3, <1>6 DEF Started
<1>11. AnswerTellsTheClock'
  BY <1>1, <1>2, <1>3, <1>6 DEF AnswerTellsTheClock, OfThisCentury, now
<1>12. ServesADate'
  BY <1>5, <1>6 DEF ServesADate
<1> QED
  BY <1>7, <1>8, <1>9, <1>10, <1>11, <1>12

\* The steps around the chip: requests that come and go, and a new battery.
LEMMA AroundIInv ==
  IInv /\ (NewBattery \/ PowerLoss \/ Rest \/ Arrive \/ RefuseTime \/ CheckTime) => IInv'
<1> SUFFICES ASSUME IInv PROVE
      (NewBattery \/ PowerLoss \/ Rest \/ Arrive \/ RefuseTime \/ CheckTime) => IInv'
  OBVIOUS
<1> USE RtcAssumption DEF IInv
<1>1. CASE NewBattery
  BY <1>1 DEF NewBattery, TypeOK, Agrees, Underway, Started, AnswerTellsTheClock, ServesADate
<1>2. CASE PowerLoss \/ Rest
  <2>1. /\ phase' = "idle" /\ request' = NoRequest /\ answer' = NoAnswer /\ sealed' = FALSE
        /\ UNCHANGED <<registers, protected, truth, ticks>>
    BY <1>2 DEF PowerLoss, Rest, HandlerGone, chip
  <2>2. TypeOK'
    BY <2>1 DEF TypeOK, NoAnswer
  <2> QED
    BY <2>1, <2>2 DEF Agrees, Underway, Started, AnswerTellsTheClock, ServesADate
<1>3. CASE Arrive
  <2>1. PICK r \in Requests :
          /\ phase = "idle"
          /\ request' = r
          /\ sealed' = protected
          /\ phase' = IF r.op = "GET" THEN "start" ELSE "check"
          /\ UNCHANGED <<chip, answer, truth, ticks>>
    BY <1>3 DEF Arrive
  <2>2. r.op \in {"GET", "POST"}
    BY DEF Requests
  <2> QED
    BY <2>1, <2>2 DEF chip, TypeOK, Agrees, Underway, Started, AnswerTellsTheClock, ServesADate
<1>4. CASE RefuseTime
  <2>1. /\ phase = "check" /\ phase' = "answered" /\ request.op = "POST"
        /\ answer'.status \in {400, 401} /\ answer'.time = Nothing
        /\ ~ (request.allowed /\ request.body # Malformed)
        /\ UNCHANGED <<registers, protected, request, truth, ticks, sealed>>
    BY <1>4 DEF RefuseTime, Answer, Underway, chip
  <2> QED
    BY <2>1 DEF TypeOK, Agrees, Underway, Started, AnswerTellsTheClock, ServesADate
<1>5. CASE CheckTime
  BY <1>5 DEF CheckTime, chip, TypeOK, Agrees, Underway, Started, AnswerTellsTheClock,
     ServesADate
<1> QED
  BY <1>1, <1>2, <1>3, <1>4, <1>5

\* Starting a clock that keeps a date changes no register, and starts any other
\* that is not protected.
LEMMA SetRunningIInv == IInv /\ SetRunning => IInv'
<1> SUFFICES ASSUME IInv, SetRunning PROVE IInv'
  OBVIOUS
<1> DEFINE started == [registers EXCEPT !.second = registers.second % 128]
<1> USE DEF IInv
<1>1. /\ phase = "start" /\ phase' = "unprotect"
      /\ registers' = IF protected THEN registers ELSE started
      /\ UNCHANGED <<protected, request, answer, truth, ticks, sealed>>
  BY DEF SetRunning
<1>2. registers.second \in 0 .. 255 /\ registers \in [Fields -> Byte]
  BY FieldsAreBytes DEF TypeOK, Dates
<1>3. registers.second % 128 \in 0 .. 127
  BY <1>2, SMT
<1>4. started \in [Fields -> Byte] /\ started.second = registers.second % 128
  <2>1. registers.second % 128 \in Byte
    BY <1>3 DEF Byte
  <2> QED
    BY <1>2, <2>1 DEF Fields
<1>5. Running(started)
  BY <1>3, <1>4, SMT DEF Running, HasBit
<1>6. ASSUME Running(registers) PROVE started = registers
  <2>1. registers.second % 128 = registers.second
    BY <1>2, <1>6, SMT DEF Running, HasBit
  <2> QED
    BY <1>2, <2>1
<1> HIDE DEF started
<1>7. TypeOK'
  BY <1>1, <1>4 DEF TypeOK, Dates
<1>8. Agrees'
  BY <1>1, <1>6, AgreesReads DEF Agrees, KeepsTime
<1>9. Underway' /\ Started'
  BY <1>1, <1>5 DEF Underway, Started
<1>10. AnswerTellsTheClock' /\ ServesADate'
  BY <1>1 DEF AnswerTellsTheClock, ServesADate
<1> QED
  BY <1>7, <1>8, <1>9, <1>10

\* Clearing the write protection disturbs nothing.
LEMMA UnprotectIInv == IInv /\ Unprotect => IInv'
<1> SUFFICES ASSUME IInv, Unprotect PROVE IInv'
  OBVIOUS
<1> USE DEF IInv
<1>1. /\ phase = "unprotect" /\ protected' = FALSE
      /\ phase' = IF request.op = "GET" THEN "read" ELSE "write"
      /\ UNCHANGED <<registers, request, answer, truth, ticks, sealed>>
  BY DEF Unprotect
<1>2. request.op \in {"GET", "POST"}
  BY <1>1 DEF Underway, Requests
<1> QED
  BY <1>1, <1>2 DEF TypeOK, Agrees, Underway, Started, AnswerTellsTheClock, ServesADate

\* The date a client meant is in the registers.
LEMMA SetDateTimeIInv == IInv /\ SetDateTime => IInv'
<1> SUFFICES ASSUME IInv, SetDateTime PROVE IInv'
  OBVIOUS
<1> DEFINE date == Constructed(request.body)
<1> USE DEF IInv
<1>1. /\ phase = "write" /\ phase' = "verify" /\ request.op = "POST"
      /\ registers' \in Kept(Encoded(date)) /\ truth' = Meant /\ ticks' = 0
      /\ UNCHANGED <<protected, request, answer, sealed>>
  BY DEF SetDateTime, Underway
<1>2. request.body \in Asked /\ request.body \in [Fields -> Int]
  BY <1>1, BodyIsAsked, RtcAssumption DEF RtcAssumption
<1>3. registers' \in Dates
  BY <1>1, <1>2, ConstructedIsBytes, EncodedIsBytes, KeptIsBytes
<1>4. Meant # Nothing => /\ Meant = date /\ Meant \in Dates /\ OfThisCentury(Meant)
  BY <1>2, MeantIsConstructed, RtcAssumption
<1>5. Meant # Nothing => registers' = Encoded(Meant)
  BY <1>1, <1>4, NothingIsLost
<1>6. TypeOK'
  BY <1>1, <1>3, <1>4, RtcAssumption DEF TypeOK, RtcAssumption
<1>7. Agrees'
  BY <1>1, <1>4, <1>5 DEF Agrees
<1>8. Underway' /\ Started'
  BY <1>1 DEF Underway, Started
<1>9. AnswerTellsTheClock' /\ ServesADate'
  BY <1>1 DEF AnswerTellsTheClock, ServesADate
<1> QED
  BY <1>6, <1>7, <1>8, <1>9

\* The answers are about what the chip holds.
LEMMA AnswersIInv == IInv /\ (Verify \/ ServeTime) => IInv'
<1> SUFFICES ASSUME IInv, Verify \/ ServeTime PROVE IInv'
  OBVIOUS
<1> DEFINE now == Decoded(registers)
<1> USE DEF IInv
<1>1. now \in Dates /\ (IsValid(now) <=> IsDate(now))
  BY DecodedIsDate, ValidIsDate DEF TypeOK
<1> HIDE DEF now
<1>2. CASE Verify
  <2>1. /\ phase = "verify" /\ phase' = "answered" /\ request.op = "POST"
        /\ answer' = [status |-> IF IsDate(now) THEN 200 ELSE 400, time |-> Nothing]
        /\ UNCHANGED <<registers, protected, request, truth, ticks, sealed>>
    BY <1>1, <1>2 DEF Verify, Answer, Underway, chip, now
  <2>2. TypeOK' /\ Agrees' /\ Underway' /\ Started'
    BY <2>1 DEF TypeOK, Agrees, Underway, Started
  <2>3. AnswerTellsTheClock' /\ ServesADate'
    BY <2>1 DEF AnswerTellsTheClock, ServesADate, now
  <2> QED
    BY <2>2, <2>3
<1>3. CASE ServeTime
  <2>1. /\ phase = "read" /\ phase' = "answered" /\ request.op = "GET"
        /\ answer' = [status |-> 200, time |-> IF IsDate(now) THEN now ELSE Nothing]
        /\ UNCHANGED <<registers, protected, request, truth, ticks, sealed>>
    BY <1>1, <1>3 DEF ServeTime, Answer, Underway, chip, now
  <2>2. TypeOK' /\ Agrees' /\ Underway' /\ Started'
    BY <1>1, <2>1 DEF TypeOK, Agrees, Underway, Started
  <2>3. truth # Nothing => IsDate(now)
    BY AgreesReads DEF KeepsTime, Agrees, OfThisCentury, now
  <2>4. AnswerTellsTheClock' /\ ServesADate'
    BY <1>1, <2>1, <2>3 DEF AnswerTellsTheClock, ServesADate
  <2> QED
    BY <2>2, <2>4
<1> QED
  BY <1>2, <1>3

\* Every step keeps the invariant.
LEMMA NextIInv == IInv /\ [Next]_vars => IInv'
<1>1. ASSUME IInv, UNCHANGED vars PROVE IInv'
  BY <1>1 DEF vars, chip, IInv, TypeOK, Agrees, Underway, Started, AnswerTellsTheClock,
     ServesADate
<1> QED
  BY <1>1, TickIInv, AroundIInv, SetRunningIInv, UnprotectIInv, SetDateTimeIInv, AnswersIInv
  DEF Next

\* The invariant holds of every reachable state.
THEOREM Invariance == Spec => []IInv
BY InitIInv, NextIInv, PTL DEF Spec

-----------------------------------------------------------------------------
(* What is proved of the clock. *)

\* No register and no date outgrows its byte, whatever number a client sends.
THEOREM TypeCorrect == Spec => []TypeOK
<1>1. IInv => TypeOK
  BY DEF IInv
<1> QED
  BY <1>1, Invariance, PTL

\* A date of this century that was set is kept to the second, over any number of
\* seconds, requests that look, refused ones and restarts.
THEOREM ClockKeepsTime == Spec => []KeepsTime
<1>1. IInv => KeepsTime
  BY AgreesReads DEF IInv
<1> QED
  BY <1>1, Invariance, PTL

\* POST /time answers 200 exactly when the chip holds a calendar date afterwards.
THEOREM AnswersAreTrue == Spec => []AnswerTellsTheClock
<1>1. IInv => AnswerTellsTheClock
  BY DEF IInv
<1> QED
  BY <1>1, Invariance, PTL

\* GET /time serves calendar dates only, and the date that was set.
THEOREM DatesAreServed == Spec => []ServesADate
<1>1. IInv => ServesADate
  BY DEF IInv
<1> QED
  BY <1>1, Invariance, PTL

\* GET /time leaves a clock it found writable running.
THEOREM LookingStarts == Spec => []LookingStartsIt
<1>1. IInv => LookingStartsIt
  BY DEF IInv, Started, LookingStartsIt
<1> QED
  BY <1>1, Invariance, PTL
=============================================================================
