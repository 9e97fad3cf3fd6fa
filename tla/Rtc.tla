-------------------------------- MODULE Rtc --------------------------------
(***************************************************************************)
(* The real-time counter driver, src/firmware/drivers/mss_rtc/mss_rtc.c.   *)
(* A function of the driver is a straight line of accesses to the RTC, to  *)
(* the NVIC and to SYSREG, so a call is the sequence of the accesses it    *)
(* still has to make (todo); the counter, the uploads and the alarm run in *)
(* their own clock domain between any two of them, and the wake-up handler *)
(* of the application interrupts the thread between any two of them.       *)
(*                                                                         *)
(* A 32-bit alarm, compare or count word is its four bytes, the most       *)
(* significant first: in calendar mode each byte is a field, in binary     *)
(* mode the word <<0, 0, 0, n>> is the number n < Radix.  The bounds of    *)
(* the hardware, 2^32 and 16#7FF, are the constants Radix and              *)
(* MAX_BINARY_HIGHER_COUNT.                                                *)
(***************************************************************************)
EXTENDS Integers, Sequences

CONSTANTS
  Radix,                    \* values of the lower word in binary mode
  MAX_BINARY_HIGHER_COUNT,  \* largest value of the upper one
  Instants,                 \* the dates the calendar goes through, in turn
  CalendarArgs,             \* dates the application sets
  CalendarAlarms,           \* dates, with don't-cares, it asks an alarm for
  BinaryArgs,               \* counts and alarm values it gives in binary mode
  MaxCalls                  \* bound on the calls of the application

Fields == {"second", "minute", "hour", "day", "month", "year", "weekday", "week"}

ASSUME RtcAssumption ==
  /\ CalendarArgs \cup CalendarAlarms \subseteq [Fields -> 0..255]
  /\ Radix \in Nat \ {0} /\ MAX_BINARY_HIGHER_COUNT \in Nat /\ MaxCalls \in Nat
  /\ Instants \in Seq(CalendarArgs) /\ Instants # <<>>
  /\ BinaryArgs \subseteq Nat

VARIABLES
  running, stopping, \* CONTROL_REG: counting; told to stop and still counting
  mode,              \* MODE_REG: the bits that are set
  alarmOn,           \* the alarm is enabled (ALARM_ON, ALARM_OFF)
  alarm, compare,    \* ALARM_LOWER/UPPER_REG, COMPARE_LOWER/UPPER_REG
  load,              \* the count registers as written, for the next upload
  upload,            \* what is being uploaded, or NoUpload
  count, updated,    \* the count; it has counted since the flag was cleared
  wake,              \* the wake-up output of the RTC
  m3en,              \* RTC_WAKEUP_CR lets it through to the Cortex-M3
  nvic,              \* [enabled, pending] of RTC_Wakeup_IRQn
  todo,              \* accesses the call and the handler still have to make
  calls,             \* calls made so far
  got,               \* bytes of the count that were read, or NotRead
  started,           \* the application's last word: counting or not
  armed, rung        \* the alarm in force; the count at which it rang

vars == <<running, stopping, mode, alarmOn, alarm, compare, load, upload,
          count, updated, wake, m3en, nvic, todo, calls, got, started, armed,
          rung>>

CLK_MODE == "CLK_MODE"                      \* 1: calendar, 0: binary
WAKEUP_EN == "WAKEUP_EN"
WAKEUP_RESET == "WAKEUP_RESET"
WAKEUP_CONTINUE == "WAKEUP_CONTINUE"
MSS_RTC_CALENDAR_DONT_CARE == 255
NoUpload == [lower |-> <<>>, upper |-> <<>>]
NeverRung == NoUpload
NoAlarm == [kind |-> "none"]
NotRead == [half \in {"lower", "upper"} |-> <<-1, -1, -1, -1>>]

Word(n) == <<0, 0, 0, n>>
ZeroWord == Word(0)
COMPARE_ALL_BITS == <<255, 255, 255, 255>>

----------------------------------------------------------------------------
(* What the counter does on its own. *)

\* The registers of the calendar, as the two words the alarm is compared with.
CalendarWords(c) == [lower |-> <<c.day, c.hour, c.minute, c.second>>,
                     upper |-> <<c.week, c.weekday, c.year, c.month>>]
BinaryWords(n) == [lower |-> Word(n % Radix), upper |-> Word(n \div Radix)]
BinaryCount(w) == (w.upper[4] * Radix) + w.lower[4]

ZeroCount == IF CLK_MODE \in mode THEN CalendarWords(Instants[1])
                                  ELSE BinaryWords(0)

Advance(w) ==
  IF CLK_MODE \in mode
  THEN LET here == {i \in DOMAIN Instants : CalendarWords(Instants[i]) = w}
           i == IF here = {} THEN Len(Instants) ELSE CHOOSE j \in here : TRUE
       IN  CalendarWords(Instants[(i % Len(Instants)) + 1])
  ELSE BinaryWords((BinaryCount(w) + 1)
                     % (Radix * (MAX_BINARY_HIGHER_COUNT + 1)))

SameWhere(mask, a, b) == \A k \in 1..4 : mask[k] = 255 => a[k] = b[k]
Matches(w) == /\ alarmOn /\ WAKEUP_EN \in mode
              /\ SameWhere(compare.lower, alarm.lower, w.lower)
              /\ SameWhere(compare.upper, alarm.upper, w.upper)

Ring(w) == /\ wake' = TRUE /\ rung' = w
           /\ nvic' = [nvic EXCEPT !.pending = @ \/ m3en]
NoRing == UNCHANGED <<wake, rung, nvic>>

\* The comparator looks at a count the counter reaches; whether it looks at one
\* that was there before, or was uploaded, is the hardware's choice.
MayRing(w) == NoRing \/ (Matches(w) /\ Ring(w))

Tick ==
  LET next == Advance(count)
  IN  /\ running
      /\ IF Matches(next) THEN Ring(next) ELSE NoRing
      /\ count' = IF Matches(next) /\ WAKEUP_RESET \in mode THEN ZeroCount
                                                            ELSE next
      /\ updated' = TRUE
      /\ UNCHANGED <<running, stopping, mode, alarmOn, alarm, compare, load,
                     upload, m3en, todo, calls, got, started, armed>>

\* The counter stops some time after it is told to.
Stopped == /\ stopping
           /\ stopping' = FALSE /\ running' = FALSE
           /\ UNCHANGED <<mode, alarmOn, alarm, compare, load, upload, count,
                          updated, wake, m3en, nvic, todo, calls, got, started,
                          armed, rung>>

Uploaded == /\ upload # NoUpload
            /\ count' = upload /\ upload' = NoUpload
            /\ MayRing(upload)
            /\ UNCHANGED <<running, stopping, mode, alarmOn, alarm, compare, load,
                           updated, m3en, todo, calls, got, started, armed>>

\* Power-up, or a reset of the processor that the RTC counted through.
Init ==
  /\ running \in BOOLEAN /\ stopping = FALSE /\ mode = {} /\ alarmOn = FALSE
  /\ alarm = [lower |-> ZeroWord, upper |-> ZeroWord] /\ compare = alarm
  /\ load = BinaryWords(0) /\ upload = NoUpload
  /\ count = BinaryWords(0) /\ updated = FALSE
  /\ wake \in BOOLEAN /\ m3en = FALSE
  /\ nvic = [enabled |-> FALSE, pending |-> FALSE]
  /\ todo = [thread |-> <<>>, handler |-> <<>>] /\ calls = 0 /\ got = NotRead
  /\ started = running /\ armed = NoAlarm /\ rung = NeverRung

----------------------------------------------------------------------------
(* The accesses. *)

Access(kind, value) == [kind |-> kind, value |-> value]
Control(c) == <<Access("CONTROL", c)>>
WriteMode(m) == <<Access("MODE", m)>>
WriteAlarm(half, w) == <<Access("ALARM", [half |-> half, word |-> w])>>
WriteCompare(half, w) == <<Access("COMPARE", [half |-> half, word |-> w])>>
WriteCount(half, k, v) == <<Access("COUNT", [half |-> half, byte |-> k, to |-> v])>>
NVIC(op) == <<Access("NVIC", op)>>
UploadNotAwaited == <<>>
WaitUpload == <<Access("WAIT_UPLOAD", 0)>>
ReadCount(half, bytes) == <<Access("READ", [half |-> half, bytes |-> bytes])>>
AlarmOn(request) == <<Access("ALARM_ON", request)>>

MSS_RTC_start == Control("START")
MSS_RTC_stop == Control("STOP") \o <<Access("WAIT_STOPPED", 0)>>
MSS_RTC_reset_counter == Control("RESET") \o WaitUpload
MSS_RTC_enable_irq == NVIC("enable")
MSS_RTC_disable_irq == NVIC("disable")
\* The dummy read that follows makes the posted write take effect: the write
\* is over when the function returns.
MSS_RTC_clear_irq == Control("WAKEUP_CLR")

get_clock_mode == IF CLK_MODE \in mode THEN 1 ELSE 0

MSS_RTC_init(m, prescaler_fits) ==
  IF ~prescaler_fits THEN <<>> ELSE
     MSS_RTC_stop \o Control("ALARM_OFF")
  \o MSS_RTC_disable_irq \o NVIC("clear pending") \o MSS_RTC_clear_irq
  \o <<Access("M3_EN", 0)>>
  \o WriteMode(IF m = 1 THEN {CLK_MODE} ELSE {})
  \o WriteAlarm("lower", ZeroWord) \o WriteAlarm("upper", ZeroWord)
  \o WriteCompare("lower", ZeroWord) \o WriteCompare("upper", ZeroWord)
  \o MSS_RTC_reset_counter

g_rtc_max_count_lut ==
  [second |-> 59, minute |-> 59, hour |-> 23, day |-> 31, month |-> 12,
   year |-> 254, weekday |-> 7, week |-> 52]
g_rtc_min_count_lut ==
  [second |-> 0, minute |-> 0, hour |-> 0, day |-> 1, month |-> 1,
   year |-> 0, weekday |-> 1, week |-> 1]
InRange(c) == \A f \in Fields : c[f] \in g_rtc_min_count_lut[f]..g_rtc_max_count_lut[f]

MSS_RTC_set_calendar_count(c) ==
  IF InRange(c) /\ get_clock_mode = 1
  THEN LET w == CalendarWords(c)
       IN     WriteCount("lower", 4, c.second) \o WriteCount("lower", 3, c.minute)
           \o WriteCount("lower", 2, c.hour) \o WriteCount("lower", 1, c.day)
           \o WriteCount("upper", 4, c.month) \o WriteCount("upper", 3, c.year)
           \o WriteCount("upper", 2, c.weekday) \o WriteCount("upper", 1, c.week)
           \o Control("UPLOAD") \o WaitUpload
  ELSE <<>>

MSS_RTC_set_binary_count(n) ==
  IF get_clock_mode = 0 /\ n \div Radix <= MAX_BINARY_HIGHER_COUNT
  THEN    WriteCount("lower", 4, n % Radix) \o WriteCount("upper", 4, n \div Radix)
       \o Control("UPLOAD") \o WaitUpload
  ELSE <<>>

\* The word is shifted one byte to the left and the field put in, or nothing.
add_alarm_cfg_values(item, w) ==
  [value |-> Append(Tail(w.value),
                    IF item = MSS_RTC_CALENDAR_DONT_CARE THEN 0 ELSE item),
   mask  |-> Append(Tail(w.mask),
                    IF item = MSS_RTC_CALENDAR_DONT_CARE THEN 0 ELSE 255)]

AlarmWord(items) ==
  LET add(w, k) == add_alarm_cfg_values(items[k], w)
  IN  add(add(add(add([value |-> ZeroWord, mask |-> ZeroWord], 1), 2), 3), 4)

WriteAlarms(lower, upper) ==
     WriteAlarm("lower", lower.value) \o WriteCompare("lower", lower.mask)
  \o WriteAlarm("upper", upper.value) \o WriteCompare("upper", upper.mask)

\* What set_rtc_mode does depends on the registers when it is reached.
set_rtc_mode(m) == <<Access("SET_MODE", m)>>
LeftStopped(m) ==
  CASE mode = m -> <<>>
    [] mode # m /\ running -> MSS_RTC_stop \o WriteMode(m)
    [] OTHER -> WriteMode(m)
SetModeAccesses(m) ==
  CASE mode = m -> <<>>
    [] mode # m /\ running -> MSS_RTC_stop \o WriteMode(m) \o MSS_RTC_start
    [] OTHER -> WriteMode(m)

MSS_RTC_set_calendar_count_alarm(c) ==
  IF get_clock_mode # 1 THEN <<>> ELSE
     Control("ALARM_OFF")
  \o WriteAlarms(AlarmWord(<<c.day, c.hour, c.minute, c.second>>),
                 AlarmWord(<<c.week, c.weekday, c.year, c.month>>))
  \o set_rtc_mode({CLK_MODE, WAKEUP_EN, WAKEUP_CONTINUE})
  \o AlarmOn([kind |-> "calendar", date |-> c])

AlarmLeftOn(n, periodic) ==
  IF get_clock_mode # 0 THEN <<>> ELSE
     WriteCompare("lower", COMPARE_ALL_BITS) \o WriteCompare("upper", COMPARE_ALL_BITS)
  \o WriteAlarm("lower", Word(n % Radix)) \o WriteAlarm("upper", Word(n \div Radix))
  \o set_rtc_mode({WAKEUP_EN, WAKEUP_CONTINUE}
                     \cup (IF periodic THEN {WAKEUP_RESET} ELSE {}))
  \o AlarmOn([kind |-> "binary", count |-> n])

MSS_RTC_set_binary_count_alarm(n, periodic) ==
  IF get_clock_mode # 0 THEN <<>> ELSE
     Control("ALARM_OFF")
  \o WriteCompare("lower", COMPARE_ALL_BITS) \o WriteCompare("upper", COMPARE_ALL_BITS)
  \o WriteAlarm("lower", Word(n % Radix)) \o WriteAlarm("upper", Word(n \div Radix))
  \o set_rtc_mode({WAKEUP_EN, WAKEUP_CONTINUE}
                     \cup (IF periodic THEN {WAKEUP_RESET} ELSE {}))
  \o AlarmOn([kind |-> "binary", count |-> n])

MSS_RTC_get_calendar_count ==
  IF get_clock_mode # 1 THEN <<>> ELSE
     ReadCount("lower", {4}) \o ReadCount("lower", {3}) \o ReadCount("lower", {2})
  \o ReadCount("lower", {1}) \o ReadCount("upper", {4}) \o ReadCount("upper", {3})
  \o ReadCount("upper", {2}) \o ReadCount("upper", {1})

MSS_RTC_get_binary_count ==
  IF get_clock_mode # 0 THEN <<>>
  ELSE ReadCount("lower", 1..4) \o ReadCount("upper", 1..4)

MSS_RTC_clear_update_flag == Control("UPDATED")
MSS_RTC_get_update_flag == updated

----------------------------------------------------------------------------
(* The thread and the handler make their accesses one at a time; the      *)
(* handler runs to its end before the thread goes on.                      *)

At(who, kind) == /\ todo[who] # <<>> /\ Head(todo[who]).kind = kind
                 /\ who = "thread" => todo.handler = <<>>
Value(who) == Head(todo[who]).value
Next1(who) == todo' = [todo EXCEPT ![who] = Tail(@)]

\* CONTROL_REG takes commands: a bit that is written as 0 does nothing.
ControlWrite(who) ==
  LET c == Value(who) IN
  /\ At(who, "CONTROL") /\ Next1(who)
  /\ running' = (running \/ c = "START")
  /\ stopping' = (stopping \/ (c = "STOP" /\ running))
  /\ alarmOn' = (alarmOn /\ c # "ALARM_OFF")
  /\ armed' = IF c = "ALARM_OFF" THEN NoAlarm ELSE armed
  /\ rung' = IF c = "ALARM_OFF" THEN NeverRung ELSE rung
  /\ upload' = CASE c = "UPLOAD" -> load [] c = "RESET" -> ZeroCount
                 [] OTHER -> upload
  /\ updated' = (updated /\ c # "UPDATED")
  /\ got' = IF c = "UPDATED" THEN NotRead ELSE got
  /\ wake' = (wake /\ c # "WAKEUP_CLR")
  /\ UNCHANGED <<mode, alarm, compare, load, count, m3en, nvic, calls, started>>

AlarmOnWrite ==
  /\ At("thread", "ALARM_ON") /\ Next1("thread")
  /\ alarmOn' = TRUE /\ armed' = Value("thread")
  /\ \/ wake' = wake /\ nvic' = nvic /\ rung' = NeverRung
     \/ /\ WAKEUP_EN \in mode /\ SameWhere(compare.lower, alarm.lower, count.lower)
        /\ SameWhere(compare.upper, alarm.upper, count.upper) /\ Ring(count)
  /\ UNCHANGED <<running, stopping, mode, alarm, compare, load, upload, count,
                 updated, m3en, calls, got, started>>

\* MODE_REG, the alarm and the compare registers, the count registers.
RegisterWrite ==
  LET v == Value("thread") IN
  /\ \E k \in {"MODE", "ALARM", "COMPARE", "COUNT", "M3_EN"} : At("thread", k)
  /\ Next1("thread")
  /\ mode' = IF At("thread", "MODE") THEN v ELSE mode
  /\ alarm' = IF At("thread", "ALARM") THEN [alarm EXCEPT ![v.half] = v.word]
                                       ELSE alarm
  /\ compare' = IF At("thread", "COMPARE") THEN [compare EXCEPT ![v.half] = v.word]
                                           ELSE compare
  /\ load' = IF At("thread", "COUNT") THEN [load EXCEPT ![v.half][v.byte] = v.to]
                                      ELSE load
  /\ m3en' = (m3en \/ At("thread", "M3_EN"))
  /\ UNCHANGED <<running, stopping, alarmOn, upload, count, updated, wake, nvic,
                 calls, got, started, armed, rung>>

SetMode == /\ At("thread", "SET_MODE")
           /\ todo' = [todo EXCEPT !.thread =
                         SetModeAccesses(Value("thread")) \o Tail(@)]
           /\ UNCHANGED <<running, stopping, mode, alarmOn, alarm, compare, load,
                          upload, count, updated, wake, m3en, nvic, calls, got,
                          started, armed, rung>>

\* A wake-up output that is still high makes the interrupt pending again.
NvicWrite ==
  /\ At("thread", "NVIC") /\ Next1("thread")
  /\ nvic' = CASE Value("thread") = "enable" -> [nvic EXCEPT !.enabled = TRUE]
               [] Value("thread") = "disable" -> [nvic EXCEPT !.enabled = FALSE]
               [] OTHER -> [nvic EXCEPT !.pending = wake /\ m3en]
  /\ UNCHANGED <<running, stopping, mode, alarmOn, alarm, compare, load, upload,
                 count, updated, wake, m3en, calls, got, started, armed, rung>>

Wait == /\ \/ At("thread", "WAIT_STOPPED") /\ ~running
           \/ At("thread", "WAIT_UPLOAD") /\ upload = NoUpload
        /\ Next1("thread")
        /\ UNCHANGED <<running, stopping, mode, alarmOn, alarm, compare, load,
                       upload, count, updated, wake, m3en, nvic, calls, got,
                       started, armed, rung>>

Read ==
  LET v == Value("thread") IN
  /\ At("thread", "READ") /\ Next1("thread")
  /\ got' = [got EXCEPT ![v.half] = [k \in 1..4 |->
                 IF k \in v.bytes THEN count[v.half][k] ELSE @[k]]]
  /\ UNCHANGED <<running, stopping, mode, alarmOn, alarm, compare, load, upload,
                 count, updated, wake, m3en, nvic, calls, started, armed, rung>>

\* RTC_Wakeup_IRQHandler as mss_rtc.h shows it: process_alarm, then
\* MSS_RTC_clear_irq.
HandlerEntry ==
  /\ nvic.enabled /\ nvic.pending /\ todo.handler = <<>>
  /\ nvic' = [nvic EXCEPT !.pending = FALSE]
  /\ todo' = [todo EXCEPT !.handler = MSS_RTC_clear_irq \o <<Access("RETURN", 0)>>]
  /\ UNCHANGED <<running, stopping, mode, alarmOn, alarm, compare, load, upload,
                 count, updated, wake, m3en, calls, got, started, armed, rung>>

HandlerReturn ==
  /\ At("handler", "RETURN") /\ Next1("handler")
  /\ nvic' = [nvic EXCEPT !.pending = @ \/ (wake /\ m3en)]
  /\ UNCHANGED <<running, stopping, mode, alarmOn, alarm, compare, load, upload,
                 count, updated, wake, m3en, calls, got, started, armed, rung>>

----------------------------------------------------------------------------
(* The application: MSS_RTC_init first, then any call. *)

Call(accesses, start) ==
  /\ todo.thread = <<>> /\ todo.handler = <<>> /\ calls < MaxCalls
  /\ calls' = calls + 1
  /\ todo' = [todo EXCEPT !.thread = accesses]
  /\ started' = start /\ got' = NotRead
  /\ UNCHANGED <<running, stopping, mode, alarmOn, alarm, compare, load, upload,
                 count, updated, wake, m3en, nvic, armed, rung>>

CallInit == \E m \in {0, 1}, fits \in BOOLEAN :
              Call(MSS_RTC_init(m, fits), started /\ ~fits)
CallStart == calls > 0 /\ Call(MSS_RTC_start, TRUE)
CallStop == calls > 0 /\ Call(MSS_RTC_stop, FALSE)
CallSet == /\ calls > 0
           /\ \/ \E c \in CalendarArgs : Call(MSS_RTC_set_calendar_count(c), started)
              \/ \E n \in BinaryArgs : Call(MSS_RTC_set_binary_count(n), started)
              \/ Call(MSS_RTC_reset_counter, started)
CallAlarm ==
  /\ calls > 0
  /\ \/ \E c \in CalendarAlarms : Call(MSS_RTC_set_calendar_count_alarm(c), started)
     \/ \E n \in BinaryArgs, p \in BOOLEAN :
           Call(MSS_RTC_set_binary_count_alarm(n, p), started)
CallIrq == calls > 0 /\ (\/ Call(MSS_RTC_enable_irq, started)
                         \/ Call(MSS_RTC_disable_irq, started)
                         \/ Call(MSS_RTC_clear_irq, started))
CallRead == calls > 0 /\ (\/ Call(MSS_RTC_get_calendar_count, started)
                          \/ Call(MSS_RTC_get_binary_count, started)
                          \/ Call(MSS_RTC_clear_update_flag, started))

Hardware == Tick \/ Stopped \/ Uploaded
Thread == \/ ControlWrite("thread") \/ AlarmOnWrite \/ RegisterWrite \/ SetMode
          \/ NvicWrite \/ Wait \/ Read
Handler == HandlerEntry \/ ControlWrite("handler") \/ HandlerReturn
App == \/ CallInit \/ CallStart \/ CallStop \/ CallSet \/ CallAlarm \/ CallIrq
       \/ CallRead
Next == Hardware \/ Thread \/ Handler \/ App

Spec == Init /\ [][Next]_vars

\* The clock runs, the processor runs, and it takes its interrupts.
Fairness == WF_vars(Tick) /\ WF_vars(Stopped) /\ WF_vars(Uploaded)
              /\ WF_vars(Thread) /\ WF_vars(Handler)
FairSpec == Spec /\ Fairness

----------------------------------------------------------------------------
(* Properties. *)

LowerFields == <<"day", "hour", "minute", "second">>
UpperFields == <<"week", "weekday", "year", "month">>
FieldAsAsked(date, field, byte) ==
  date[field] = MSS_RTC_CALENDAR_DONT_CARE \/ date[field] = byte
AsAsked(request, w) ==
  \/ /\ request.kind = "calendar"
     /\ \A k \in 1..4 : /\ FieldAsAsked(request.date, LowerFields[k], w.lower[k])
                        /\ FieldAsAsked(request.date, UpperFields[k], w.upper[k])
  \/ /\ request.kind = "binary"
     /\ BinaryCount(w) = request.count

\* The alarm rings only at a count that has every field the application asked
\* for, in the request that is in force: never at a count that matches half of
\* an old request and half of a new one, nor for a request that was withdrawn.
RingsAsAsked == rung # NeverRung => AsAsked(armed, rung)

\* A count that was read with the update flag clear is the count there is: none
\* of its bytes comes from before an increment, or from before an upload that a
\* call which has returned had asked for.
WholeRead == got.lower[4] >= 0 /\ got.upper[1] >= 0 /\ ~MSS_RTC_get_update_flag => got = count

Attainable(request) ==
  \/ /\ request.kind = "calendar"
     /\ \E i \in DOMAIN Instants : AsAsked(request, CalendarWords(Instants[i]))
  \/ /\ request.kind = "binary"
     /\ request.count < Radix * (MAX_BINARY_HIGHER_COUNT + 1)

\* An alarm for a count that can come rings, as long as the application has the
\* counter run and does not set another: setting an alarm, which may have to
\* stop the counter to write the mode, leaves it counting.
AlarmRings ==
  (started /\ Attainable(armed) /\ rung = NeverRung)
    ~> (rung # NeverRung \/ ~started \/ armed = NoAlarm)
=============================================================================
