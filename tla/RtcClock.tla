------------------------------ MODULE RtcClock ------------------------------
(***************************************************************************)
(* GET /time and POST /time of SD_Lite.ino over the DS1302 clock chip.     *)
(*                                                                         *)
(* The chip is the environment: it counts seconds while its oscillator     *)
(* runs, ignores writes while it is write protected, and keeps both        *)
(* through a restart of the board.  A handler talks to it in several       *)
(* exchanges, between which the chip can count and the board lose power.   *)
(***************************************************************************)
EXTENDS RtcDateTime

CONSTANTS
  Asked,        \* the dates a client can ask for: records of JSON numbers
  Found,        \* what the registers may hold when a battery is put in
  Malformed,    \* a body that is not JSON
  Nothing,      \* no date
  MaxTicks      \* bound of the model: seconds counted since the clock was set

ASSUME RtcAssumption ==
  /\ Asked \subseteq [Fields -> Int]
  /\ Found \subseteq Dates
  /\ Malformed \notin [Fields -> Int] /\ Nothing \notin Dates
  /\ MaxTicks \in Nat

VARIABLES
  registers,    \* the six registers a date is kept in
  protected,    \* the write protect bit
  phase,        \* how far the running handler got
  request,      \* the request it serves
  answer,       \* the status sent, and the date in it
  truth,        \* history: the time it is by the last good date, or Nothing
  ticks,        \* history: seconds counted since a date was written
  sealed        \* history: the chip was protected when the request came

chip == <<registers, protected>>
vars == <<chip, phase, request, answer, truth, ticks, sealed>>

NoAnswer == [status |-> 0, time |-> Nothing]

NoRequest == [op |-> "none", allowed |-> FALSE, body |-> Nothing]

Requests ==
  [op : {"GET"}, allowed : {FALSE}, body : {Nothing}]
    \cup [op : {"POST"}, allowed : BOOLEAN, body : Asked \cup {Malformed}]

\* Bit 7 of the seconds register halts the oscillator.
Running(regs) == ~ HasBit(regs.second, 128)

\* What the chip keeps of the bytes written to it: all the bits, or those the
\* register has.
Kept(bytes) ==
  {bytes,
   [bytes EXCEPT !.minute = @ % 128,
                 !.hour = (@ % 64) + 128 * (@ \div 128),
                 !.day = @ % 64,
                 !.month = @ % 32]}

-----------------------------------------------------------------------------
(* The chip. *)

Init ==
  /\ registers \in Found
  /\ protected \in BOOLEAN
  /\ phase = "idle"
  /\ request = NoRequest
  /\ answer = NoAnswer
  /\ truth = Nothing
  /\ ticks = 0
  /\ sealed = FALSE

\* A second passes.  What a running chip does to registers that hold no date is
\* left open by not counting them.
Tick ==
  /\ Running(registers)
  /\ OfThisCentury(Decoded(registers))
  /\ registers = Encoded(Decoded(registers))
  /\ ticks < MaxTicks
  /\ registers' = Encoded(Succ(Decoded(registers)))
  /\ truth' = IF truth = Nothing THEN Nothing ELSE Succ(truth)
  /\ ticks' = ticks + 1
  /\ UNCHANGED <<protected, phase, request, answer, sealed>>

\* The battery is empty and the board without power.
NewBattery ==
  /\ phase = "idle"
  /\ registers' \in Found
  /\ protected' \in BOOLEAN
  /\ truth' = Nothing
  /\ ticks' = 0
  /\ UNCHANGED <<phase, request, answer, sealed>>

-----------------------------------------------------------------------------
(* The handlers. *)

HandlerGone ==
  /\ phase' = "idle"
  /\ request' = NoRequest
  /\ answer' = NoAnswer
  /\ sealed' = FALSE

\* The board restarts: the handler is gone, the chip runs on its battery.
PowerLoss ==
  /\ phase # "idle"
  /\ HandlerGone
  /\ UNCHANGED <<chip, truth, ticks>>

Rest ==
  /\ phase = "answered"
  /\ HandlerGone
  /\ UNCHANGED <<chip, truth, ticks>>

Arrive ==
  \E r \in Requests :
    /\ phase = "idle"
    /\ request' = r
    /\ sealed' = protected
    /\ phase' = IF r.op = "GET" THEN "start" ELSE "check"
    /\ UNCHANGED <<chip, answer, truth, ticks>>

Answer(status, time) ==
  /\ answer' = [status |-> status, time |-> time]
  /\ phase' = "answered"

\* POST /time authenticates and parses before it touches the chip.
RefuseTime ==
  /\ phase = "check"
  /\ \/ ~ request.allowed /\ Answer(401, Nothing)
     \/ request.allowed /\ request.body = Malformed /\ Answer(400, Nothing)
  /\ UNCHANGED <<chip, request, truth, ticks, sealed>>

CheckTime ==
  /\ phase = "check"
  /\ request.allowed
  /\ request.body # Malformed
  /\ phase' = "start"
  /\ UNCHANGED <<chip, request, answer, truth, ticks, sealed>>

\* Mutant: the seconds register is written anew instead of without its bit.
SetRunningFromZero ==
  /\ phase = "start"
  /\ registers' = IF protected THEN registers ELSE [registers EXCEPT !.second = 0]
  /\ phase' = "unprotect"
  /\ UNCHANGED <<protected, request, answer, truth, ticks, sealed>>

\* Mutant: a halted clock is left halted.
LeaveHalted ==
  /\ phase = "start"
  /\ phase' = "unprotect"
  /\ UNCHANGED <<chip, request, answer, truth, ticks, sealed>>

\* if (!Rtc.GetIsRunning()) Rtc.SetIsRunning(true), before the write protection
\* is looked at: the chip ignores the write while it is on.
SetRunning ==
  /\ phase = "start"
  /\ registers' = IF protected THEN registers
                  ELSE [registers EXCEPT !.second = @ % 128]
  /\ phase' = "unprotect"
  /\ UNCHANGED <<protected, request, answer, truth, ticks, sealed>>

\* if (Rtc.GetIsWriteProtected()) Rtc.SetIsWriteProtected(false).
Unprotect ==
  /\ phase = "unprotect"
  /\ protected' = FALSE
  /\ phase' = IF request.op = "GET" THEN "read" ELSE "write"
  /\ UNCHANGED <<registers, request, answer, truth, ticks, sealed>>

\* The date of a request, when it is one the chip is made for and every member
\* is the number it says.
Meant ==
  LET asked == request.body
      date == [asked EXCEPT !.year = @ - 2000]
  IN  IF OfThisCentury(date) THEN date ELSE Nothing

\* The burst that sets the date; the chip takes it whole.
SetDateTime ==
  /\ phase = "write"
  /\ registers' \in Kept(Encoded(Constructed(request.body)))
  /\ truth' = Meant
  /\ ticks' = 0
  /\ phase' = "verify"
  /\ UNCHANGED <<protected, request, answer, sealed>>

\* Mutant: the date that was asked for is checked, not what the chip says.
VerifyTheRequest ==
  /\ phase = "verify"
  /\ Answer(IF IsValid(Constructed(request.body)) THEN 200 ELSE 400, Nothing)
  /\ UNCHANGED <<chip, request, truth, ticks, sealed>>

\* The date is read back: 400 tells the client that the clock is spoilt now.
Verify ==
  /\ phase = "verify"
  /\ Answer(IF IsValid(Decoded(registers)) THEN 200 ELSE 400, Nothing)
  /\ UNCHANGED <<chip, request, truth, ticks, sealed>>

\* GET /time: the date, or the first of January 1970 when it is none.
ServeTime ==
  /\ phase = "read"
  /\ LET now == Decoded(registers)
     IN  Answer(200, IF IsValid(now) THEN now ELSE Nothing)
  /\ UNCHANGED <<chip, request, truth, ticks, sealed>>

Next ==
  \/ Tick \/ NewBattery \/ PowerLoss
  \/ Arrive \/ RefuseTime \/ CheckTime
  \/ SetRunning \/ Unprotect \/ SetDateTime \/ Verify \/ ServeTime
  \/ Rest

Spec == Init /\ [][Next]_vars

-----------------------------------------------------------------------------
(* What the clock is for. *)

\* The chip and the handler hold what the code and the chip can hold; in
\* particular no register outgrows its byte.
TypeOK ==
  /\ registers \in Dates
  /\ protected \in BOOLEAN
  /\ phase \in {"idle", "check", "start", "unprotect", "write", "verify", "read", "answered"}
  /\ request \in Requests \cup {NoRequest}
  /\ answer.status \in {0, 200, 400, 401} /\ answer.time \in Dates \cup {Nothing}
  /\ truth \in Dates \cup {Nothing}
  /\ ticks \in 0 .. MaxTicks
  /\ sealed \in BOOLEAN

\* A date of this century, once asked for, is kept: the clock runs and reads that
\* date and the seconds since, through requests that only look, refused ones and
\* restarts, until another date is set or the battery goes.
KeepsTime ==
  truth # Nothing => Running(registers) /\ Decoded(registers) = truth

\* What POST /time answers is the truth about the chip, whatever was asked for:
\* 200 if it holds a calendar date afterwards, 400 if it holds none.
AnswerTellsTheClock ==
  phase = "answered" /\ request.op = "POST" /\ request.allowed /\ request.body # Malformed =>
    answer.status = (IF IsDate(Decoded(registers)) THEN 200 ELSE 400)

\* GET /time never serves a time that is not in the calendar, and serves a time
\* whenever one was set.
ServesADate ==
  phase = "answered" /\ request.op = "GET" =>
    /\ answer.time # Nothing => IsDate(answer.time)
    /\ truth # Nothing => answer.time \in Dates

\* GET /time on a chip that it finds writable leaves the clock running, even if an
\* earlier POST /time stopped it: 80 seconds or more set the halt bit.
LookingStartsIt ==
  phase = "answered" /\ request.op = "GET" /\ ~ sealed => Running(registers)

\* "RTC was not actively running, starting now" (SD_Lite.ino:250): after GET /time
\* a clock that was halted runs.
StartsNow ==
  phase = "answered" /\ request.op = "GET" => Running(registers)
=============================================================================
