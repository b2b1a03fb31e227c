------------------------------- MODULE RtcTask -------------------------------
(****************************************************************************)
(* The reference clock of the real-time clock's test bench, the system      *)
(* function $c_rtc of verilog/dv/user_rtc/pli_rtc.c: every call in the text *)
(* of the bench is checked before the simulation begins, then the bench     *)
(* makes its calls.  mktime is the C library's, in a time zone without      *)
(* summer time, as far as the task can call for it: one field is one past   *)
(* its end.                                                                 *)
(****************************************************************************)
EXTENDS Image, Integers, Sequences

CONSTANT Benches   \* bound: the sequences of calls a bench makes

CMD_RTC_INIT == 0
CMD_RTC_NEXT_SECOND == 1
CMD_RTC_NEXT_DATE == 2

(* An argument: its type, and its value when it is checked and when the     *)
(* call is made, which for a constant are the same.                         *)
Argument(type, checked, value) == [type |-> type, checked |-> checked, value |-> value]
Numbers == {"vpiReg", "vpiIntegerVar", "vpiConstant"}

VARIABLES
  bench, made,          \* the calls, and how many of them are made
  simulation,           \* "compile", "run", or "finish"
  tm,
  answer,               \* what the last call returned, or Unset
  start, dates, seconds,\* history: the last INIT and the steps since
  missing               \* history: an argument was read that is not there

rtcVars == <<image, bench, made, simulation, tm, answer, start, dates, seconds, missing>>

Unset == -1   \* the number in an array that nobody has written

Time(y, mon, d, h, min, s) ==
  [tm_year |-> y, tm_mon |-> mon, tm_mday |-> d, tm_hour |-> h, tm_min |-> min, tm_sec |-> s]

RtcInit ==
  /\ bench \in Choice("rtc", Benches)
  /\ made = 0 /\ simulation = "compile"
  /\ tm = Time(0, 0, 0, 0, 0, 0) /\ start = tm
  /\ answer = Unset /\ dates = 0 /\ seconds = 0 /\ missing = FALSE

------------------------------------------------------------------------------
Given(args, k) == k \in DOMAIN args /\ args[k].type \in Numbers

(* A test that leaves the last argument out.                                *)
AcceptableSix(args) ==
  /\ Given(args, 1)
  /\ IF args[1].checked = CMD_RTC_INIT THEN \A k \in 2..6 : Given(args, k) ELSE Len(args) = 1

(* PLIbook_RtcCompiletf: the tests are chosen by the value that the command *)
(* has before the simulation begins.                                        *)
Acceptable(args) ==
  /\ Given(args, 1)
  /\ IF args[1].checked = CMD_RTC_INIT
       THEN Len(args) = 7 /\ \A k \in 2..7 : Given(args, k)
       ELSE Len(args) = 1

Compiletf ==
  /\ simulation = "compile"
  /\ simulation' = IF \A k \in DOMAIN bench : Acceptable(bench[k]) THEN "run" ELSE "finish"
  /\ UNCHANGED <<bench, made, tm, answer, start, dates, seconds, missing>>

------------------------------------------------------------------------------
Leap(year) == year % 4 = 0 /\ (year % 100 # 0 \/ year % 400 = 0)
DaysOf(t) ==
  IF t.tm_mon = 1 THEN IF Leap(t.tm_year + 1900) THEN 29 ELSE 28
  ELSE IF t.tm_mon \in {3, 5, 8, 10} THEN 30 ELSE 31

mktime(t) ==
  LET sec == 3600 * t.tm_hour + 60 * t.tm_min + t.tm_sec
      rest == sec % 86400
      day == t.tm_mday + sec \div 86400
      over == day > DaysOf(t)
      month == IF over THEN t.tm_mon + 1 ELSE t.tm_mon
  IN  Time(t.tm_year + month \div 12, month % 12, IF over THEN 1 ELSE day,
           rest \div 3600, (rest \div 60) % 60, rest % 60)

(* The month taken as it is given.                                          *)
InitialMonthAsGiven(v) == Time(v[2] - 1900, v[3], v[4], v[5], v[6], v[7])

(* The months of the C library begin with 0.                                *)
Initial(v) == Time(v[2] - 1900, v[3] - 1, v[4], v[5], v[6], v[7])

(* A date and a time of day that there are.                                 *)
IsTime(t) ==
  /\ t.tm_year \in Nat /\ t.tm_mon \in 0..11 /\ t.tm_mday \in 1..DaysOf(t)
  /\ t.tm_hour \in 0..23 /\ t.tm_min \in 0..59 /\ t.tm_sec \in 0..59

(* Values that set the clock to a time that there is, and so early that a  *)
(* number of calls later the year is before 8000: an int does not hold the  *)
(* answers from there on.                                                   *)
Settable(v, calls) ==
  LET t == Time(v[2] - 1900, v[3] - 1, v[4], v[5], v[6], v[7])
  IN  IsTime(t) /\ t.tm_year + 1900 + calls < 8000

(* A constant is what it was when it was checked, and a bench that sets the *)
(* clock sets it to such values.                                            *)
ASSUME BenchAssumption ==
  /\ Benches # {}
  /\ \A calls \in Benches :
       /\ calls \in Seq(Seq([type : STRING, checked : Int, value : Int]))
       /\ \A k \in DOMAIN calls : \A i \in DOMAIN calls[k] :
            calls[k][i].type = "vpiConstant" => calls[k][i].checked = calls[k][i].value
       /\ \A k \in DOMAIN calls :
            Len(calls[k]) = 7 => Settable([i \in 1..7 |-> calls[k][i].value], Len(calls))

Stepped(cmd, t) ==
  CASE cmd = CMD_RTC_NEXT_SECOND -> [t EXCEPT !.tm_sec = @ + 1]
    [] cmd = CMD_RTC_NEXT_DATE -> [t EXCEPT !.tm_mday = @ + 1]
    [] OTHER -> t

(* Two decimal digits, read as hexadecimal.                                 *)
TwoDigits(n) == 16 * (n \div 10) + (n % 10)

Result(cmd, t) ==
  CASE cmd = CMD_RTC_NEXT_SECOND ->
         TwoDigits(t.tm_mday) * 16777216 + TwoDigits(t.tm_hour) * 65536
         + TwoDigits(t.tm_min) * 256 + TwoDigits(t.tm_sec)
    [] cmd = CMD_RTC_NEXT_DATE ->
         LET year == t.tm_year + 1900
         IN  TwoDigits(year \div 100) * 16777216 + TwoDigits(year % 100) * 65536
             + TwoDigits(t.tm_mon + 1) * 256 + TwoDigits(t.tm_mday)
    [] OTHER -> Unset

(* PLIbook_RtcCalltf: the command is read anew.                             *)
Calltf ==
  LET args == bench[made + 1]
      cmd == args[1].value
      values == [k \in 1..7 |-> IF k \in DOMAIN args THEN args[k].value ELSE 1]
      t == mktime(Stepped(cmd, IF cmd = CMD_RTC_INIT THEN Initial(values) ELSE tm))
  IN  /\ simulation = "run" /\ made < Len(bench)
      /\ made' = made + 1
      /\ tm' = t
      /\ answer' = Result(cmd, t)
      /\ missing' = (missing \/ (cmd = CMD_RTC_INIT /\ Len(args) < 7))
      /\ start' = IF cmd = CMD_RTC_INIT THEN Time(values[2], values[3], values[4], values[5],
                                                  values[6], values[7]) ELSE start
      /\ dates' = IF cmd = CMD_RTC_INIT THEN 0
                  ELSE IF cmd = CMD_RTC_NEXT_DATE THEN dates + 1 ELSE dates
      /\ seconds' = IF cmd = CMD_RTC_INIT THEN 0
                    ELSE IF cmd = CMD_RTC_NEXT_SECOND THEN seconds + 1 ELSE seconds
      /\ UNCHANGED <<bench, simulation>>

RtcNext == Runs("rtc") /\ (Compiletf \/ Calltf) /\ UNCHANGED image

RtcSpec == RtcInit /\ [][RtcNext]_rtcVars

------------------------------------------------------------------------------
(* The number of a day, months counted from March.                          *)
DayNumber(y, m, d) ==
  LET yy == IF m > 2 THEN y ELSE y - 1
      mm == IF m > 2 THEN m - 3 ELSE m + 9
  IN  365 * yy + yy \div 4 - yy \div 100 + yy \div 400 + (153 * mm + 2) \div 5 + d

SecondOfDay(t) == 3600 * t.tm_hour + 60 * t.tm_min + t.tm_sec

(* The decimal number whose digits are the hexadecimal ones of the answer.  *)
Decimal(n) ==
  LET digit(k) == (n \div 16^k) % 16
  IN  digit(0) + 10 * digit(1) + 100 * digit(2) + 1000 * digit(3) + 10000 * digit(4)
      + 100000 * digit(5) + 1000000 * digit(6) + 10000000 * digit(7)

LastCommand == bench[made][1].value
StartDay == DayNumber(start.tm_year, start.tm_mon, start.tm_mday)
ClockNow == SecondOfDay(start) + seconds

(* After a bench has set the clock, what a call returns is the date, or the *)
(* day and the time, that the steps lead to, over the ends of days, months  *)
(* and years (PLIbook_RtcCalltf).                                           *)
ClockRight ==
  start.tm_year > 0 /\ made > 0 /\ ~missing =>
    /\ LastCommand = CMD_RTC_NEXT_DATE =>
         LET n == Decimal(answer)
         IN  /\ DayNumber(n \div 10000, (n \div 100) % 100, n % 100)
                  = StartDay + dates + ClockNow \div 86400
             /\ (n \div 100) % 100 \in 1..12 /\ n % 100 \in 1..31
    /\ LastCommand = CMD_RTC_NEXT_SECOND =>
         LET n == Decimal(answer)
         IN  /\ n % 1000000 = ((ClockNow % 86400) \div 3600) * 10000
                              + ((ClockNow \div 60) % 60) * 100 + (ClockNow % 60)
             /\ DayNumber(tm.tm_year + 1900, tm.tm_mon + 1, n \div 1000000)
                  = StartDay + dates + ClockNow \div 86400

(* A call whose command is a constant reads only arguments that are there   *)
(* (compiletf has already verified, line 171); one whose command is a       *)
(* variable need not.                                                       *)
ArgumentsThere ==
  (\A k \in DOMAIN bench : bench[k] # <<>> => bench[k][1].type = "vpiConstant") => ~missing

==============================================================================
