----------------------------- MODULE MCRtcClock -----------------------------
(* Dates at the edges of the calendar and of the bytes, for TLC. *)
EXTENDS RtcClock

Date(year, month, day, hour, minute, second) ==
  [year |-> year, month |-> month, day |-> day,
   hour |-> hour, minute |-> minute, second |-> second]

\* The last moment of February in a leap year and of a year, a day April has not,
\* and members that wrap, halt the clock or mean something else to the chip.
MCAsked ==
  {Date(y, m, d, h, mi, s) :
     y \in {2024, 2099, 1999}, m \in {2, 4, 12}, d \in {29, 31}, h \in {23, 40},
     mi \in {59, 256}, s \in {59, 100}}
    \cup {Date(2023, 2, 28, 23, 59, 59), Date(2000, 2, 29, 0, 0, 0),
          Date(2100, 2, 29, 0, 0, 0), Date(70000, 1, 1, 0, 0, 0),
          Date(2031, -1, 1, 0, 0, 0), Date(2009, 8, 31, 9, 9, 9)}

\* A halted clock at its first date, and noise.
MCFound == {Date(0, 1, 1, 0, 0, 128), Date(255, 255, 255, 255, 255, 255)}
=============================================================================
