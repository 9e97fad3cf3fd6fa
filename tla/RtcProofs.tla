------------------------------ MODULE RtcProofs ------------------------------
(***************************************************************************)
(* Theorems about Rtc: an alarm rings only at a count that was asked for,  *)
(* and a count that was read whole is one the counter had.  For every      *)
(* radix, calendar, set of dates and set of counts, and any number of      *)
(* calls.                                                                  *)
(***************************************************************************)
EXTENDS Rtc, SequenceTheorems, TLAPS

Halves == {"lower", "upper"}
Words  == [1..4 -> Nat]
Modes  == {CLK_MODE, WAKEUP_EN, WAKEUP_RESET, WAKEUP_CONTINUE}

Requests == [kind : {"calendar"}, date : CalendarAlarms]
              \cup [kind : {"binary"}, count : BinaryArgs]

Commands == {"START", "STOP", "RESET", "UPLOAD", "UPDATED", "WAKEUP_CLR", "ALARM_OFF"}
HalfWords == [half : Halves, word : Words]

AccessSet ==
       [kind : {"CONTROL"}, value : Commands]
  \cup [kind : {"MODE", "SET_MODE"}, value : SUBSET Modes]
  \cup [kind : {"ALARM", "COMPARE"}, value : HalfWords]
  \cup [kind : {"COUNT"}, value : [half : Halves, byte : 1..4, to : Nat]]
  \cup [kind : {"READ"}, value : [half : Halves, bytes : SUBSET (1..4)]]
  \cup [kind : {"ALARM_ON"}, value : Requests]
  \cup [kind : {"NVIC"}, value : {"enable", "disable", "clear pending"}]
  \cup [kind : {"M3_EN", "WAIT_STOPPED", "WAIT_UPLOAD"}, value : {0}]

HandlerCalls == { <<>>, <<Access("RETURN", 0)>>,
                  <<Access("CONTROL", "WAKEUP_CLR"), Access("RETURN", 0)>> }

TypeOK ==
  /\ running \in BOOLEAN /\ stopping \in BOOLEAN /\ mode \subseteq Modes
  /\ alarmOn \in BOOLEAN
  /\ alarm \in [Halves -> Words] /\ compare \in [Halves -> Words]
  /\ load \in [Halves -> Words] /\ count \in [Halves -> Words]
  /\ upload = NoUpload \/ upload \in [Halves -> Words]
  /\ updated \in BOOLEAN /\ wake \in BOOLEAN /\ m3en \in BOOLEAN
  /\ DOMAIN todo = {"thread", "handler"}
  /\ todo.thread \in Seq(AccessSet) /\ todo.handler \in HandlerCalls
  /\ got \in [Halves -> [1..4 -> Nat \cup {-1}]]

-----------------------------------------------------------------------------
(* What a sequence of accesses holds, and how it ends. *)
Pending(s) == {s[i] : i \in 1..Len(s)}
Last(s) == s[Len(s)]

Off == Access("CONTROL", "ALARM_OFF")
Touches(a) == a.kind \in {"ALARM", "COMPARE"}
Uploads(a) == a = Access("CONTROL", "RESET") \/ a = Access("CONTROL", "UPLOAD")
Reads(a, h, k) == a.kind = "READ" /\ a.value.half = h /\ k \in a.value.bytes
Has(s, kind) == \E a \in Pending(s) : a.kind = kind

(* The alarm is off when its registers are written. *)
OffFirst(s) == \A i \in 1..Len(s) :
                 Touches(s[i]) => \E j \in 1..Len(s) : j < i /\ s[j] = Off

(* The words that make the comparator look for what is asked. *)
ItemsOf(c, h) == IF h = "lower" THEN <<c.day, c.hour, c.minute, c.second>>
                                ELSE <<c.week, c.weekday, c.year, c.month>>
AlarmFor(r, h) == IF r.kind = "calendar" THEN AlarmWord(ItemsOf(r.date, h)).value
                  ELSE Word(IF h = "lower" THEN r.count % Radix ELSE r.count \div Radix)
CompareFor(r, h) == IF r.kind = "calendar" THEN AlarmWord(ItemsOf(r.date, h)).mask
                    ELSE COMPARE_ALL_BITS
Looks(al, co, r) == \A h \in Halves : al[h] = AlarmFor(r, h) /\ co[h] = CompareFor(r, h)

(* What P is to write is for the request r, and what it is not to write is *)
(* there already.                                                          *)
Writes(P, kind, h, now, for) ==
  /\ \A a \in P : a.kind = kind /\ a.value.half = h => a.value.word = for
  /\ now = for \/ \E a \in P : a.kind = kind /\ a.value.half = h
WillLook(P, al, co, r) ==
  \A h \in Halves : /\ Writes(P, "ALARM", h, al[h], AlarmFor(r, h))
                    /\ Writes(P, "COMPARE", h, co[h], CompareFor(r, h))

(* The alarm is turned on last, when the comparator looks for what it is   *)
(* turned on for.                                                          *)
Pledged(s, al, co) ==
  \A i \in 1..Len(s) : s[i].kind = "ALARM_ON" =>
     i = Len(s) /\ WillLook(Pending(s), al, co, s[i].value)

WaitsAtEnd(s) == \A a \in Pending(s) : Uploads(a) => Last(s).kind = "WAIT_UPLOAD"
UpperLast(s) == \A i \in 1..Len(s) : Reads(s[i], "upper", 1) => i = Len(s)
ReadsAtEnd(s) == Has(s, "READ") => /\ Reads(Last(s), "upper", 1) /\ UpperLast(s)
                                   /\ \A a \in Pending(s) : a.kind = "READ"
Covers(s, g) == \A h \in Halves, k \in 1..4 : g[h][k] = -1 => \E a \in Pending(s) : Reads(a, h, k)

-----------------------------------------------------------------------------
Setting ==
  /\ alarmOn => OffFirst(todo.thread)
  /\ Pledged(todo.thread, alarm, compare)

(* The registers hold the request in force, if there is one. *)
Armed == IF alarmOn THEN armed \in Requests /\ Looks(alarm, compare, armed)
                    ELSE armed = NoAlarm /\ rung = NeverRung

(* An upload is waited for by the call that asks for it. *)
Awaited == /\ WaitsAtEnd(todo.thread)
           /\ upload # NoUpload => /\ todo.thread # <<>>
                                   /\ Last(todo.thread).kind = "WAIT_UPLOAD"

(* A byte that was not read will be, nothing is uploaded in the meantime,  *)
(* and one that was read is the byte there is.                             *)
Reading ==
  /\ ReadsAtEnd(todo.thread)
  /\ Has(todo.thread, "READ") => got["upper"][1] = -1
  /\ Has(todo.thread, "READ") \/ got["upper"][1] # -1 => Covers(todo.thread, got)
  /\ \A h \in Halves, k \in 1..4 : got[h][k] # -1 =>
        /\ upload = NoUpload /\ \A a \in Pending(todo.thread) : ~Uploads(a)
        /\ ~updated => got[h][k] = count[h][k]

IInv == TypeOK /\ Setting /\ Armed /\ RingsAsAsked /\ Awaited /\ Reading

-----------------------------------------------------------------------------
(* Sequences of accesses. *)

LEMMA PendingCat ==
  ASSUME NEW s \in Seq(AccessSet), NEW t \in Seq(AccessSet)
  PROVE  /\ s \o t \in Seq(AccessSet) /\ Pending(s \o t) = Pending(s) \cup Pending(t)
         /\ t # <<>> => s \o t # <<>> /\ Last(s \o t) = Last(t)
<1>1. /\ s \o t \in Seq(AccessSet) /\ Len(s \o t) = Len(s) + Len(t)
      /\ \A i \in 1..Len(s \o t) : (s \o t)[i] = IF i <= Len(s) THEN s[i] ELSE t[i - Len(s)]
      /\ Len(s) \in Nat /\ Len(t) \in Nat
  OBVIOUS
<1>2. ASSUME NEW a \in Pending(s \o t)  PROVE a \in Pending(s) \cup Pending(t)
  <2>1. PICK i \in 1..Len(s \o t) : a = (s \o t)[i]
    BY DEF Pending
  <2>2. CASE i <= Len(s)
    BY <1>1, <2>1, <2>2 DEF Pending
  <2>3. CASE ~(i <= Len(s))
    <3>1. i - Len(s) \in 1..Len(t) /\ a = t[i - Len(s)]
      BY <1>1, <2>1, <2>3
    <3> QED  BY <3>1 DEF Pending
  <2> QED  BY <2>2, <2>3
<1>3. ASSUME NEW i \in 1..Len(s)  PROVE s[i] \in Pending(s \o t)
  <2>1. i \in 1..Len(s \o t) /\ (s \o t)[i] = s[i]
    BY <1>1
  <2> QED  BY <2>1 DEF Pending
<1>4. ASSUME NEW i \in 1..Len(t)  PROVE t[i] \in Pending(s \o t)
  <2>1. Len(s) + i \in 1..Len(s \o t) /\ (s \o t)[Len(s) + i] = t[i]
    BY <1>1
  <2> QED  BY <2>1 DEF Pending
<1>5. Pending(s \o t) = Pending(s) \cup Pending(t)
  BY <1>2, <1>3, <1>4 DEF Pending
<1>6. t # <<>> => s \o t # <<>> /\ Last(s \o t) = Last(t)
  BY <1>1 DEF Last
<1> QED  BY <1>1, <1>5, <1>6

LEMMA PendingOne ==
  ASSUME NEW a \in AccessSet
  PROVE  <<a>> \in Seq(AccessSet) /\ Pending(<<a>>) = {a} /\ Last(<<a>>) = a /\ <<a>> # <<>>
BY DEF Pending, Last

LEMMA PendingNone == Pending(<<>>) = {}
BY DEF Pending

LEMMA PendingTail ==
  ASSUME NEW s \in Seq(AccessSet), s # <<>>
  PROVE  /\ Head(s) \in AccessSet /\ Tail(s) \in Seq(AccessSet)
         /\ Pending(s) = {Head(s)} \cup Pending(Tail(s))
         /\ Tail(s) # <<>> => Last(Tail(s)) = Last(s)
         /\ Tail(s) = <<>> => Last(s) = Head(s) /\ Pending(s) = {Head(s)}
         /\ Len(s) = Len(Tail(s)) + 1 /\ Head(s) = s[1] /\ Len(Tail(s)) \in Nat
         /\ \A i \in 1..Len(Tail(s)) : Tail(s)[i] = s[i + 1]
<1>1. /\ Head(s) = s[1] /\ Tail(s) \in Seq(AccessSet) /\ Len(s) \in Nat \ {0} /\ Len(Tail(s)) = Len(s) - 1
      /\ \A i \in 1..Len(Tail(s)) : Tail(s)[i] = s[i + 1] /\ Head(s) \in AccessSet
  OBVIOUS
<1>2. ASSUME NEW i \in 1..Len(s)  PROVE s[i] \in {Head(s)} \cup Pending(Tail(s))
  <2>1. CASE i = 1
    BY <1>1, <2>1
  <2>2. CASE i # 1
    <3>1. i - 1 \in 1..Len(Tail(s)) /\ Tail(s)[i - 1] = s[i]
      BY <1>1, <2>2
    <3> QED  BY <3>1 DEF Pending
  <2> QED  BY <2>1, <2>2
<1>3. ASSUME NEW i \in 1..Len(Tail(s))  PROVE Tail(s)[i] \in Pending(s)
  <2>1. i + 1 \in 1..Len(s) /\ s[i + 1] = Tail(s)[i]
    BY <1>1
  <2> QED  BY <2>1 DEF Pending
<1>4. Head(s) \in Pending(s)
  BY <1>1 DEF Pending
<1>5. Pending(s) = {Head(s)} \cup Pending(Tail(s))
  BY <1>2, <1>3, <1>4 DEF Pending
<1>6. Tail(s) # <<>> => Last(Tail(s)) = Last(s)
  BY <1>1 DEF Last
<1>7. Tail(s) = <<>> => Last(s) = Head(s) /\ Pending(s) = {Head(s)}
  <2> SUFFICES ASSUME Tail(s) = <<>>  PROVE Last(s) = Head(s) /\ Pending(s) = {Head(s)}
    OBVIOUS
  <2>1. Len(Tail(s)) = 0 /\ Pending(Tail(s)) = {}
    BY PendingNone
  <2>2. Len(s) = 1
    <3>1. Len(Tail(s)) = Len(s) - 1 /\ Len(s) \in Nat
      BY <1>1
    <3> QED  BY <2>1, <3>1
  <2> QED  BY <1>1, <1>5, <2>1, <2>2 DEF Last
<1> QED  BY <1>1, <1>5, <1>6, <1>7

LEMMA LastIsPending ==
  ASSUME NEW s \in Seq(AccessSet), s # <<>>  PROVE Last(s) \in Pending(s)
<1>1. Len(s) \in 1..Len(s)
  OBVIOUS
<1> QED  BY <1>1 DEF Last, Pending

-----------------------------------------------------------------------------
(* Accesses by their kind. *)

LEMMA AccessTyped ==
  ASSUME NEW a \in AccessSet
  PROVE  /\ a.kind = "CONTROL" => a.value \in Commands
         /\ a.kind \in {"MODE", "SET_MODE"} => a.value \in SUBSET Modes
         /\ a.kind \in {"ALARM", "COMPARE"} => a.value \in HalfWords
         /\ a.kind = "COUNT" => a.value \in [half : Halves, byte : 1..4, to : Nat]
         /\ a.kind = "READ" => a.value \in [half : Halves, bytes : SUBSET (1..4)]
         /\ a.kind = "ALARM_ON" => a.value \in Requests
BY DEF AccessSet

LEMMA IsAccess ==
  /\ \A c \in Commands : Access("CONTROL", c) \in AccessSet
  /\ \A m \in SUBSET Modes : Access("MODE", m) \in AccessSet /\ Access("SET_MODE", m) \in AccessSet
  /\ \A v \in HalfWords : Access("ALARM", v) \in AccessSet /\ Access("COMPARE", v) \in AccessSet
  /\ \A v \in [half : Halves, byte : 1..4, to : Nat] : Access("COUNT", v) \in AccessSet
  /\ \A v \in [half : Halves, bytes : SUBSET (1..4)] : Access("READ", v) \in AccessSet
  /\ \A r \in Requests : Access("ALARM_ON", r) \in AccessSet
  /\ \A op \in {"enable", "disable", "clear pending"} : Access("NVIC", op) \in AccessSet
  /\ \A k \in {"M3_EN", "WAIT_STOPPED", "WAIT_UPLOAD"} : Access(k, 0) \in AccessSet
BY DEF AccessSet, Access

(* Sequences that are put together: what they hold, and that the alarm is *)
(* turned off before its registers are written.                           *)
Made(s, P) == s \in Seq(AccessSet) /\ Pending(s) = P

LEMMA MadeOne ==
  ASSUME NEW a \in AccessSet  PROVE Made(<<a>>, {a})
BY PendingOne DEF Made

LEMMA MadeCat ==
  ASSUME NEW s, NEW t, NEW P, NEW Q, Made(s, P), Made(t, Q)
  PROVE  Made(s \o t, P \cup Q)
BY PendingCat DEF Made

(* A call has one of four ends. *)
Proper(s) ==
  /\ s \in Seq(AccessSet) /\ OffFirst(s) /\ \A al, co : Pledged(s, al, co)
  /\ WaitsAtEnd(s) /\ ReadsAtEnd(s) /\ (Has(s, "READ") => Covers(s, NotRead))

Plain(P) == \A a \in P : a.kind \notin {"ALARM", "COMPARE", "ALARM_ON", "READ"} /\ ~Uploads(a)

LEMMA PlainProper ==
  ASSUME NEW s, NEW P, Made(s, P), Plain(P)
  PROVE  Proper(s)
<1>1. \A i \in 1..Len(s) : s[i] \in P
  BY DEF Made, Pending
<1>2. OffFirst(s) /\ \A al, co : Pledged(s, al, co)
  BY <1>1 DEF Plain, OffFirst, Touches, Pledged
<1>3. WaitsAtEnd(s) /\ ~Has(s, "READ")
  BY DEF Made, Plain, WaitsAtEnd, Has
<1> QED  BY <1>2, <1>3 DEF Proper, Made, ReadsAtEnd

LEMMA EmptyProper == Proper(<<>>)
<1>1. Made(<<>>, {})
  BY PendingNone DEF Made
<1> QED  BY <1>1, PlainProper DEF Plain

(* Accesses of these kinds only. *)
Only(s, kinds) == s \in Seq(AccessSet) /\ \A a \in Pending(s) : a.kind \in kinds

LEMMA OnlyOne ==
  ASSUME NEW a \in AccessSet, NEW kinds, a.kind \in kinds  PROVE Only(<<a>>, kinds)
BY PendingOne DEF Only

LEMMA OnlyCat ==
  ASSUME NEW s, NEW t, NEW kinds, Only(s, kinds), Only(t, kinds)  PROVE Only(s \o t, kinds)
BY PendingCat DEF Only

LEMMA OnlyMore ==
  ASSUME NEW s, NEW kinds, NEW more, Only(s, kinds), kinds \subseteq more  PROVE Only(s, more)
BY DEF Only

LEMMA OnlyKind ==
  ASSUME NEW s, NEW k, NEW more, Only(s, {k}), k \in more  PROVE Only(s, more)
BY DEF Only

LEMMA WaitProper ==
  ASSUME NEW s, Only(s, {"CONTROL", "COUNT", "MODE", "ALARM", "COMPARE", "NVIC", "M3_EN",
                         "WAIT_STOPPED", "WAIT_UPLOAD"}),
         OffFirst(s), Last(s).kind = "WAIT_UPLOAD"
  PROVE  Proper(s)
<1>1. \A i \in 1..Len(s) : s[i].kind # "ALARM_ON"
  BY DEF Only, Pending
<1>2. \A al, co : Pledged(s, al, co)
  BY <1>1 DEF Pledged
<1>3. WaitsAtEnd(s) /\ ~Has(s, "READ")
  BY DEF Only, WaitsAtEnd, Has
<1> QED  BY <1>2, <1>3 DEF Proper, Only, ReadsAtEnd

(* Nothing is to be turned off where no register of the alarm is written, *)
(* nor behind an ALARM_OFF.                                                *)
LEMMA OffNotNeeded ==
  ASSUME NEW s, Only(s, {"CONTROL", "COUNT", "WAIT_STOPPED", "WAIT_UPLOAD"})  PROVE OffFirst(s)
<1>1. \A i \in 1..Len(s) : s[i] \in Pending(s)
  BY DEF Pending
<1> QED  BY <1>1 DEF Only, OffFirst, Touches

Quiet(s) == s \in Seq(AccessSet) /\ OffFirst(s) /\ Off \in Pending(s)

LEMMA QuietCat ==
  ASSUME NEW s, Quiet(s), NEW t \in Seq(AccessSet)  PROVE Quiet(s \o t)
<1>1. /\ s \in Seq(AccessSet) /\ s \o t \in Seq(AccessSet) /\ Off \in Pending(s \o t)
  BY PendingCat DEF Quiet
<1>2. /\ Len(s \o t) = Len(s) + Len(t) /\ Len(s) \in Nat /\ Len(t) \in Nat
      /\ \A i \in 1..Len(s \o t) : (s \o t)[i] = IF i <= Len(s) THEN s[i] ELSE t[i - Len(s)]
  BY <1>1
<1>3. PICK k \in 1..Len(s) : s[k] = Off
  BY DEF Quiet, Pending
<1>4. ASSUME NEW i \in 1..Len(s \o t), Touches((s \o t)[i])
      PROVE  \E j \in 1..Len(s \o t) : j < i /\ (s \o t)[j] = Off
  <2>1. CASE i <= Len(s)
    <3>1. i \in 1..Len(s) /\ Touches(s[i])
      BY <1>2, <1>4, <2>1
    <3>2. PICK j \in 1..Len(s) : j < i /\ s[j] = Off
      BY <3>1 DEF Quiet, OffFirst
    <3>3. j \in 1..Len(s \o t) /\ (s \o t)[j] = Off
      BY <1>2, <3>2
    <3> QED  BY <3>2, <3>3
  <2>2. CASE ~(i <= Len(s))
    <3>1. k \in 1..Len(s \o t) /\ k < i /\ (s \o t)[k] = Off
      BY <1>2, <1>3, <2>2
    <3> QED  BY <3>1
  <2> QED  BY <2>1, <2>2
<1> QED  BY <1>1, <1>4 DEF Quiet, OffFirst

LEMMA QuietOff ==
  /\ Quiet(Control("ALARM_OFF"))
  /\ \A s : Only(s, {"CONTROL", "COUNT", "WAIT_STOPPED", "WAIT_UPLOAD"})
              => Quiet(s \o Control("ALARM_OFF"))
<1> DEFINE off == Control("ALARM_OFF")
<1>1. Off \in AccessSet /\ Off.kind = "CONTROL" /\ off = <<Off>>
  BY IsAccess DEF Off, Access, Commands, Control
<1>2. off \in Seq(AccessSet) /\ Pending(off) = {Off} /\ Only(off, {"CONTROL", "COUNT", "WAIT_STOPPED", "WAIT_UPLOAD"})
  <2> HIDE DEF off
  <2> DEFINE kinds == {"CONTROL", "COUNT", "WAIT_STOPPED", "WAIT_UPLOAD"}
  <2>1. Off.kind \in kinds
    BY <1>1
  <2> HIDE DEF kinds
  <2>2. Only(<<Off>>, kinds)
    BY <1>1, <2>1, OnlyOne
  <2> QED  BY <1>1, <2>2, PendingOne DEF kinds
<1> HIDE DEF off
<1>3. ASSUME NEW s, Only(s, {"CONTROL", "COUNT", "WAIT_STOPPED", "WAIT_UPLOAD"})
      PROVE  Quiet(s \o off)
  <2>1. Only(s \o off, {"CONTROL", "COUNT", "WAIT_STOPPED", "WAIT_UPLOAD"})
    BY <1>2, <1>3, OnlyCat
  <2>2. Off \in Pending(s \o off) /\ s \o off \in Seq(AccessSet)
    BY <1>2, <1>3, PendingCat DEF Only
  <2> QED  BY <2>1, <2>2, OffNotNeeded DEF Quiet
<1>4. Quiet(off)
  BY <1>2, OffNotNeeded DEF Quiet
<1> QED  BY <1>3, <1>4 DEF off

-----------------------------------------------------------------------------
(* The pieces of the calls. *)

LEMMA Piece ==
  ASSUME NEW a \in AccessSet
  PROVE  Only(<<a>>, {a.kind}) /\ Made(<<a>>, {a}) /\ <<a>> # <<>> /\ Last(<<a>>) = a
<1>1. a.kind \in {a.kind}
  OBVIOUS
<1> QED  BY <1>1, OnlyOne, MadeOne, PendingOne

LEMMA Pieces ==
  /\ \A c \in Commands : Only(Control(c), {"CONTROL"}) /\ Made(Control(c), {Access("CONTROL", c)})
  /\ \A m \in SUBSET Modes : /\ Only(WriteMode(m), {"MODE"})
                             /\ Made(WriteMode(m), {Access("MODE", m)})
                             /\ Made(set_rtc_mode(m), {Access("SET_MODE", m)})
  /\ \A op \in {"enable", "disable", "clear pending"} :
        Only(NVIC(op), {"NVIC"}) /\ Made(NVIC(op), {Access("NVIC", op)})
  /\ Only(WaitUpload, {"WAIT_UPLOAD"}) /\ WaitUpload # <<>> /\ Last(WaitUpload).kind = "WAIT_UPLOAD"
  /\ Only(<<Access("M3_EN", 0)>>, {"M3_EN"})
  /\ Made(<<Access("WAIT_STOPPED", 0)>>, {Access("WAIT_STOPPED", 0)})
  /\ Only(<<Access("WAIT_STOPPED", 0)>>, {"WAIT_STOPPED"})
<1>1. \A k, v : Access(k, v).kind = k /\ Access(k, v).value = v
  BY DEF Access
<1>2. ASSUME NEW c \in Commands
      PROVE  Only(Control(c), {"CONTROL"}) /\ Made(Control(c), {Access("CONTROL", c)})
  <2>1. Access("CONTROL", c) \in AccessSet
    BY IsAccess
  <2> QED  BY <1>1, <2>1, Piece DEF Control
<1>3. ASSUME NEW m \in SUBSET Modes
      PROVE  /\ Only(WriteMode(m), {"MODE"})
             /\ Made(WriteMode(m), {Access("MODE", m)})
             /\ Made(set_rtc_mode(m), {Access("SET_MODE", m)})
  <2>1. Access("MODE", m) \in AccessSet /\ Access("SET_MODE", m) \in AccessSet
    BY IsAccess
  <2> QED  BY <1>1, <2>1, Piece DEF WriteMode, set_rtc_mode
<1>4. ASSUME NEW op \in {"enable", "disable", "clear pending"}
      PROVE  Only(NVIC(op), {"NVIC"}) /\ Made(NVIC(op), {Access("NVIC", op)})
  <2>1. Access("NVIC", op) \in AccessSet
    BY IsAccess
  <2> QED  BY <1>1, <2>1, Piece DEF NVIC
<1>5. \A k \in {"M3_EN", "WAIT_STOPPED", "WAIT_UPLOAD"} :
        /\ Only(<<Access(k, 0)>>, {k}) /\ Made(<<Access(k, 0)>>, {Access(k, 0)})
        /\ <<Access(k, 0)>> # <<>> /\ Last(<<Access(k, 0)>>).kind = k
  <2>1. ASSUME NEW k \in {"M3_EN", "WAIT_STOPPED", "WAIT_UPLOAD"}
        PROVE  /\ Only(<<Access(k, 0)>>, {k}) /\ Made(<<Access(k, 0)>>, {Access(k, 0)})
               /\ <<Access(k, 0)>> # <<>> /\ Last(<<Access(k, 0)>>).kind = k
    <3>1. Access(k, 0) \in AccessSet
      BY IsAccess
    <3> QED  BY <1>1, <3>1, Piece
  <2> QED  BY <2>1
<1> QED  BY <1>2, <1>3, <1>4, <1>5 DEF WaitUpload

LEMMA PiecesOfWords ==
  /\ \A h \in Halves, w \in Words :
        /\ Only(WriteAlarm(h, w), {"ALARM"})
        /\ Made(WriteAlarm(h, w), {Access("ALARM", [half |-> h, word |-> w])})
        /\ Only(WriteCompare(h, w), {"COMPARE"})
        /\ Made(WriteCompare(h, w), {Access("COMPARE", [half |-> h, word |-> w])})
  /\ \A h \in Halves, k \in 1..4, v \in Nat : Only(WriteCount(h, k, v), {"COUNT"})
  /\ \A h \in Halves, b \in SUBSET (1..4) :
        LET a == Access("READ", [half |-> h, bytes |-> b])
        IN  Made(ReadCount(h, b), {a}) /\ ReadCount(h, b) # <<>> /\ Last(ReadCount(h, b)) = a
<1>1. \A k, v : Access(k, v).kind = k /\ Access(k, v).value = v
  BY DEF Access
<1>2. ASSUME NEW h \in Halves, NEW w \in Words
      PROVE  /\ Only(WriteAlarm(h, w), {"ALARM"})
             /\ Made(WriteAlarm(h, w), {Access("ALARM", [half |-> h, word |-> w])})
             /\ Only(WriteCompare(h, w), {"COMPARE"})
             /\ Made(WriteCompare(h, w), {Access("COMPARE", [half |-> h, word |-> w])})
  <2> DEFINE v == [half |-> h, word |-> w]
  <2>1. v \in HalfWords
    BY DEF HalfWords
  <2>2. Access("ALARM", v) \in AccessSet /\ Access("COMPARE", v) \in AccessSet
    BY <2>1, IsAccess
  <2> QED  BY <1>1, <2>2, Piece DEF WriteAlarm, WriteCompare
<1>3. ASSUME NEW h \in Halves, NEW k \in 1..4, NEW n \in Nat
      PROVE  Only(WriteCount(h, k, n), {"COUNT"})
  <2> DEFINE v == [half |-> h, byte |-> k, to |-> n]
  <2>1. v \in [half : Halves, byte : 1..4, to : Nat]
    OBVIOUS
  <2>2. Access("COUNT", v) \in AccessSet
    BY <2>1, IsAccess
  <2> QED  BY <1>1, <2>2, Piece DEF WriteCount
<1>4. ASSUME NEW h \in Halves, NEW b \in SUBSET (1..4)
      PROVE  LET a == Access("READ", [half |-> h, bytes |-> b])
             IN  Made(ReadCount(h, b), {a}) /\ ReadCount(h, b) # <<>> /\ Last(ReadCount(h, b)) = a
  <2> DEFINE v == [half |-> h, bytes |-> b]
  <2>1. v \in [half : Halves, bytes : SUBSET (1..4)]
    OBVIOUS
  <2>2. Access("READ", v) \in AccessSet
    BY <2>1, IsAccess
  <2> QED  BY <2>2, Piece DEF ReadCount
<1> QED  BY <1>2, <1>3, <1>4

-----------------------------------------------------------------------------
(* The calls. *)

LEMMA StopMade ==
  /\ Made(MSS_RTC_stop, {Access("CONTROL", "STOP"), Access("WAIT_STOPPED", 0)})
  /\ Only(MSS_RTC_stop, {"CONTROL", "WAIT_STOPPED"})
<1>1. "STOP" \in Commands
  BY DEF Commands
<1>2. Made(MSS_RTC_stop, {Access("CONTROL", "STOP")} \cup {Access("WAIT_STOPPED", 0)})
  BY <1>1, Pieces, MadeCat DEF MSS_RTC_stop
<1>3. \A k, v : Access(k, v).kind = k
  BY DEF Access
<1> QED  BY <1>2, <1>3 DEF Made, Only

LEMMA ControlCallsProper ==
  /\ Proper(MSS_RTC_start) /\ Proper(MSS_RTC_stop) /\ Proper(MSS_RTC_clear_update_flag)
  /\ Proper(MSS_RTC_enable_irq) /\ Proper(MSS_RTC_disable_irq) /\ Proper(MSS_RTC_clear_irq)
<1>1. \A k, v : Access(k, v).kind = k /\ Access(k, v).value = v
  BY DEF Access
<1>2. ASSUME NEW c \in Commands \ {"RESET", "UPLOAD"}  PROVE Proper(Control(c))
  <2>1. Made(Control(c), {Access("CONTROL", c)})
    BY Pieces
  <2>2. Plain({Access("CONTROL", c)})
    BY <1>1 DEF Plain, Uploads
  <2> QED  BY <2>1, <2>2, PlainProper
<1>3. ASSUME NEW op \in {"enable", "disable"}  PROVE Proper(NVIC(op))
  <2>1. Made(NVIC(op), {Access("NVIC", op)})
    BY Pieces
  <2>2. Plain({Access("NVIC", op)})
    BY <1>1 DEF Plain, Uploads
  <2> QED  BY <2>1, <2>2, PlainProper
<1>4. Proper(MSS_RTC_stop)
  <2>1. Plain({Access("CONTROL", "STOP"), Access("WAIT_STOPPED", 0)})
    BY <1>1 DEF Plain, Uploads
  <2> QED  BY <2>1, StopMade, PlainProper
<1>5. {"START", "UPDATED", "WAKEUP_CLR"} \subseteq Commands \ {"RESET", "UPLOAD"}
  BY DEF Commands
<1> QED  BY <1>2, <1>3, <1>4, <1>5
         DEF MSS_RTC_start, MSS_RTC_clear_update_flag, MSS_RTC_enable_irq, MSS_RTC_disable_irq,
             MSS_RTC_clear_irq

(* Behind counts and commands, an upload is waited for. *)
LEMMA UploadProper ==
  ASSUME NEW s, Only(s, {"CONTROL", "COUNT"})  PROVE Proper(s \o WaitUpload)
<1> DEFINE few == {"CONTROL", "COUNT", "WAIT_STOPPED", "WAIT_UPLOAD"}
           all == {"CONTROL", "COUNT", "MODE", "ALARM", "COMPARE", "NVIC", "M3_EN",
                   "WAIT_STOPPED", "WAIT_UPLOAD"}
           t   == s \o WaitUpload
<1>1. Only(s, few) /\ Only(WaitUpload, few) /\ few \subseteq all
  <2>1. Only(s, few)
    BY DEF Only
  <2>2. "WAIT_UPLOAD" \in few /\ few \subseteq all
    OBVIOUS
  <2>3. Only(WaitUpload, {"WAIT_UPLOAD"})
    BY Pieces
  <2> HIDE DEF few, all
  <2> QED  BY <2>1, <2>2, <2>3, OnlyKind
<1>2. Last(t).kind = "WAIT_UPLOAD"
  BY <1>1, Pieces, PendingCat DEF Only
<1> HIDE DEF few, all, t
<1>3. Only(t, few)
  BY <1>1, OnlyCat DEF t
<1>4. Only(t, all) /\ OffFirst(t)
  BY <1>1, <1>3, OnlyMore, OffNotNeeded DEF few
<1> QED  BY <1>2, <1>4, WaitProper DEF all, t

LEMMA ResetProper == Proper(MSS_RTC_reset_counter)
<1>1. "RESET" \in Commands
  BY DEF Commands
<1>2. Only(Control("RESET"), {"CONTROL", "COUNT"})
  <2>1. Only(Control("RESET"), {"CONTROL"})
    BY <1>1, Pieces
  <2> QED  BY <2>1 DEF Only
<1> QED  BY <1>2, UploadProper DEF MSS_RTC_reset_counter

LEMMA DivMod ==
  ASSUME NEW n \in Nat
  PROVE  n % Radix \in Nat /\ n \div Radix \in Nat /\ (n \div Radix) * Radix + (n % Radix) = n
<1>1. Radix \in Nat /\ Radix > 0
  BY RtcAssumption
<1>2. n % Radix \in Nat /\ n \div Radix \in Int /\ Radix * (n \div Radix) + (n % Radix) = n
      /\ n % Radix < Radix
  BY <1>1
<1>3. n \div Radix >= 0
  BY <1>1, <1>2
<1>4. (n \div Radix) * Radix = Radix * (n \div Radix)
  BY <1>1, <1>2
<1> QED  BY <1>2, <1>3, <1>4

LEMMA SetCountProper ==
  /\ \A c \in CalendarArgs : Proper(MSS_RTC_set_calendar_count(c))
  /\ \A n \in BinaryArgs : Proper(MSS_RTC_set_binary_count(n))
<1> DEFINE kinds == {"CONTROL", "COUNT"}
<1>1. \A h \in Halves, k \in 1..4, v \in Nat : Only(WriteCount(h, k, v), kinds)
  BY PiecesOfWords, OnlyMore
<1>2. Only(Control("UPLOAD"), kinds)
  <2>1. "UPLOAD" \in Commands
    BY DEF Commands
  <2>2. Only(Control("UPLOAD"), {"CONTROL"})
    BY <2>1, Pieces
  <2> QED  BY <2>2 DEF Only
<1> HIDE DEF kinds
<1>3. ASSUME NEW c \in CalendarArgs  PROVE Proper(MSS_RTC_set_calendar_count(c))
  <2>1. /\ c.second \in Nat /\ c.minute \in Nat /\ c.hour \in Nat /\ c.day \in Nat
        /\ c.month \in Nat /\ c.year \in Nat /\ c.weekday \in Nat /\ c.week \in Nat
    <3>1. c \in [Fields -> 0..255]
      BY RtcAssumption
    <3>2. \A f \in Fields : c[f] \in Nat
      BY <3>1
    <3> HIDE <3>1
    <3> QED  BY <3>2 DEF Fields
  <2>2. /\ Only(WriteCount("lower", 4, c.second), kinds) /\ Only(WriteCount("lower", 3, c.minute), kinds)
        /\ Only(WriteCount("lower", 2, c.hour), kinds) /\ Only(WriteCount("lower", 1, c.day), kinds)
        /\ Only(WriteCount("upper", 4, c.month), kinds) /\ Only(WriteCount("upper", 3, c.year), kinds)
        /\ Only(WriteCount("upper", 2, c.weekday), kinds) /\ Only(WriteCount("upper", 1, c.week), kinds)
    BY <1>1, <2>1 DEF Halves
  <2>3. Only(WriteCount("lower", 4, c.second) \o WriteCount("lower", 3, c.minute)
           \o WriteCount("lower", 2, c.hour) \o WriteCount("lower", 1, c.day), kinds)
    BY <2>2, OnlyCat
  <2>4. Only(WriteCount("lower", 4, c.second) \o WriteCount("lower", 3, c.minute)
           \o WriteCount("lower", 2, c.hour) \o WriteCount("lower", 1, c.day)
           \o WriteCount("upper", 4, c.month) \o WriteCount("upper", 3, c.year)
           \o WriteCount("upper", 2, c.weekday) \o WriteCount("upper", 1, c.week)
           \o Control("UPLOAD"), kinds)
    BY <1>2, <2>2, <2>3, OnlyCat
  <2> QED  BY <2>4, UploadProper, EmptyProper DEF kinds, MSS_RTC_set_calendar_count
<1>4. ASSUME NEW n \in BinaryArgs  PROVE Proper(MSS_RTC_set_binary_count(n))
  <2>1. n % Radix \in Nat /\ n \div Radix \in Nat
    BY RtcAssumption, DivMod
  <2>2. Only(WriteCount("lower", 4, n % Radix), kinds) /\ Only(WriteCount("upper", 4, n \div Radix), kinds)
    BY <1>1, <2>1 DEF Halves
  <2>3. Only(WriteCount("lower", 4, n % Radix) \o WriteCount("upper", 4, n \div Radix)
               \o Control("UPLOAD"), kinds)
    BY <1>2, <2>2, OnlyCat
  <2> QED  BY <2>3, UploadProper, EmptyProper DEF kinds, MSS_RTC_set_binary_count
<1> QED  BY <1>3, <1>4

LEMMA InitProper ==
  ASSUME NEW m \in {0, 1}, NEW fits \in BOOLEAN  PROVE Proper(MSS_RTC_init(m, fits))
<1> DEFINE all == {"CONTROL", "COUNT", "MODE", "ALARM", "COMPARE", "NVIC", "M3_EN",
                   "WAIT_STOPPED", "WAIT_UPLOAD"}
           md  == IF m = 1 THEN {CLK_MODE} ELSE {}
           s1  == MSS_RTC_stop \o Control("ALARM_OFF")
           s2  == s1 \o MSS_RTC_disable_irq \o NVIC("clear pending") \o MSS_RTC_clear_irq
           s3  == s2 \o <<Access("M3_EN", 0)>> \o WriteMode(md)
           s4  == s3 \o WriteAlarm("lower", ZeroWord) \o WriteAlarm("upper", ZeroWord)
           s5  == s4 \o WriteCompare("lower", ZeroWord) \o WriteCompare("upper", ZeroWord)
           s6  == s5 \o MSS_RTC_reset_counter
<1>1. {"ALARM_OFF", "WAKEUP_CLR", "RESET"} \subseteq Commands
  BY DEF Commands
<1>2. md \in SUBSET Modes /\ ZeroWord \in Words /\ {"lower", "upper"} = Halves
  BY DEF Modes, ZeroWord, Word, Words, Halves
<1>3. /\ \A c \in Commands : Only(Control(c), all)
      /\ Only(WriteMode(md), all) /\ \A op \in {"disable", "clear pending"} : Only(NVIC(op), all)
      /\ Only(<<Access("M3_EN", 0)>>, all) /\ Only(MSS_RTC_stop, all) /\ Only(WaitUpload, all)
  <2>1. /\ "CONTROL" \in all /\ "MODE" \in all /\ "NVIC" \in all /\ "M3_EN" \in all
        /\ "WAIT_UPLOAD" \in all
    OBVIOUS
  <2>2. Only(MSS_RTC_stop, all)
    BY StopMade DEF Only
  <2> HIDE DEF all, md
  <2>3. \A c \in Commands : Only(Control(c), all)
    BY <2>1, Pieces, OnlyKind
  <2>4. Only(WriteMode(md), {"MODE"}) /\ \A op \in {"disable", "clear pending"} : Only(NVIC(op), {"NVIC"})
    BY <1>2, Pieces
  <2>5. Only(<<Access("M3_EN", 0)>>, {"M3_EN"}) /\ Only(WaitUpload, {"WAIT_UPLOAD"})
    BY Pieces
  <2> QED  BY <2>1, <2>2, <2>3, <2>4, <2>5, OnlyKind
<1>4. \A h \in Halves : Only(WriteAlarm(h, ZeroWord), all) /\ Only(WriteCompare(h, ZeroWord), all)
  <2>1. "ALARM" \in all /\ "COMPARE" \in all
    OBVIOUS
  <2>2. \A h \in Halves : /\ Only(WriteAlarm(h, ZeroWord), {"ALARM"})
                          /\ Only(WriteCompare(h, ZeroWord), {"COMPARE"})
    BY <1>2, PiecesOfWords
  <2> HIDE DEF all
  <2> QED  BY <2>1, <2>2, OnlyKind
<1> HIDE DEF all, md
<1>5. /\ Only(MSS_RTC_disable_irq, all) /\ Only(NVIC("clear pending"), all)
      /\ Only(MSS_RTC_clear_irq, all) /\ Only(Control("ALARM_OFF"), all)
  BY <1>1, <1>3 DEF MSS_RTC_disable_irq, MSS_RTC_clear_irq
<1>6. /\ Only(MSS_RTC_reset_counter, all) /\ MSS_RTC_reset_counter # <<>>
      /\ Last(MSS_RTC_reset_counter).kind = "WAIT_UPLOAD"
  <2>1. Only(Control("RESET"), all)
    BY <1>1, <1>3
  <2> QED  BY <1>3, <2>1, OnlyCat, Pieces, PendingCat DEF MSS_RTC_reset_counter, Only
<1>7. Quiet(s1) /\ Only(s1, all)
  <2>1. Only(MSS_RTC_stop, {"CONTROL", "COUNT", "WAIT_STOPPED", "WAIT_UPLOAD"})
    BY StopMade, OnlyMore
  <2> QED  BY <2>1, <1>3, <1>5, QuietOff, OnlyCat
<1>8. \A s, t : Quiet(s) /\ Only(s, all) /\ Only(t, all) => Quiet(s \o t) /\ Only(s \o t, all)
  BY OnlyCat, QuietCat DEF Only
<1>9. Quiet(s2) /\ Only(s2, all)
  <2> HIDE DEF s1
  <2> QED  BY <1>5, <1>7, <1>8
<1>10. Quiet(s3) /\ Only(s3, all)
  <2> HIDE DEF s2
  <2> QED  BY <1>3, <1>9, <1>8
<1>11. Quiet(s4) /\ Only(s4, all)
  <2> HIDE DEF s3
  <2> QED  BY <1>2, <1>4, <1>10, <1>8
<1>12. Quiet(s5) /\ Only(s5, all)
  <2> HIDE DEF s4
  <2> QED  BY <1>2, <1>4, <1>11, <1>8
<1>13. Quiet(s6) /\ Only(s6, all) /\ Last(s6).kind = "WAIT_UPLOAD"
  <2> HIDE DEF s5
  <2> QED  BY <1>6, <1>12, <1>8, PendingCat DEF Only
<1>14. Proper(s6)
  <2> HIDE DEF s6
  <2> QED  BY <1>13, WaitProper DEF all, Quiet
<1> QED  BY <1>14, EmptyProper DEF MSS_RTC_init, md

(* The byte that is read last is not read before. *)
LEMMA OneMoreRead ==
  ASSUME NEW s \in Seq(AccessSet), NEW a \in AccessSet,
         \A x \in Pending(s) : ~Reads(x, "upper", 1)
  PROVE  UpperLast(s \o <<a>>)
<1>1. /\ Len(s \o <<a>>) = Len(s) + 1 /\ Len(s) \in Nat
      /\ \A i \in 1..Len(s) : (s \o <<a>>)[i] = s[i]
  OBVIOUS
<1>2. \A i \in 1..Len(s) : ~Reads((s \o <<a>>)[i], "upper", 1)
  BY <1>1 DEF Pending
<1>3. \A i \in 1..Len(s \o <<a>>) : i \in 1..Len(s) \/ i = Len(s \o <<a>>)
  BY <1>1
<1> QED  BY <1>2, <1>3 DEF UpperLast

LEMMA ReadsProper ==
  ASSUME NEW s, Only(s, {"READ"}), Reads(Last(s), "upper", 1), UpperLast(s), Covers(s, NotRead)
  PROVE  Proper(s)
<1>1. \A i \in 1..Len(s) : s[i].kind = "READ"
  BY DEF Only, Pending
<1>2. OffFirst(s) /\ \A al, co : Pledged(s, al, co)
  BY <1>1 DEF OffFirst, Touches, Pledged
<1>3. WaitsAtEnd(s)
  BY DEF Only, WaitsAtEnd, Uploads, Access
<1> QED  BY <1>2, <1>3 DEF Proper, Only, ReadsAtEnd

LEMMA GetProper == Proper(MSS_RTC_get_calendar_count) /\ Proper(MSS_RTC_get_binary_count)
<1> DEFINE r(h, b) == Access("READ", [half |-> h, bytes |-> b])
<1>1. \A h \in Halves, b \in SUBSET (1..4) :
        /\ Made(ReadCount(h, b), {r(h, b)}) /\ ReadCount(h, b) # <<>> /\ Last(ReadCount(h, b)) = r(h, b)
        /\ ReadCount(h, b) \in Seq(AccessSet)
  BY PiecesOfWords DEF Made
<1>2. \A h \in Halves, b \in SUBSET (1..4) :
        r(h, b).kind = "READ" /\ \A k \in b : Reads(r(h, b), h, k)
  BY DEF Access, Reads
<1>6. \A h \in Halves, b \in SUBSET (1..4) :
        /\ Reads(r(h, b), "upper", 1) => h = "upper" /\ 1 \in b
        /\ r(h, b) \in AccessSet /\ ReadCount(h, b) = <<r(h, b)>>
  BY IsAccess DEF Access, Reads, ReadCount
<1>3. /\ {"lower", "upper"} = Halves /\ 1..4 \in SUBSET (1..4)
      /\ {1} \in SUBSET (1..4) /\ {2} \in SUBSET (1..4) /\ {3} \in SUBSET (1..4) /\ {4} \in SUBSET (1..4)
  BY DEF Halves
<1> HIDE DEF r
<1>4. Proper(MSS_RTC_get_binary_count)
  <2> DEFINE s == ReadCount("lower", 1..4) \o ReadCount("upper", 1..4)
  <2>1. Made(s, {r("lower", 1..4)} \cup {r("upper", 1..4)}) /\ Last(s) = r("upper", 1..4)
    BY <1>1, <1>3, MadeCat, PendingCat
  <2> HIDE DEF s
  <2>2. Only(s, {"READ"})
    BY <1>2, <1>3, <2>1 DEF Made, Only
  <2>3. Reads(Last(s), "upper", 1) /\ Covers(s, NotRead)
    BY <1>2, <1>3, <2>1 DEF Made, Covers, Halves
  <2>4. UpperLast(s)
    <3>1. \A x \in Pending(ReadCount("lower", 1..4)) : ~Reads(x, "upper", 1)
      <4>1. Pending(ReadCount("lower", 1..4)) = {r("lower", 1..4)}
        BY <1>1, <1>3 DEF Made
      <4>2. ~Reads(r("lower", 1..4), "upper", 1)
        BY <1>3, <1>6
      <4> QED  BY <4>1, <4>2
    <3>2. r("upper", 1..4) \in AccessSet /\ ReadCount("upper", 1..4) = <<r("upper", 1..4)>>
          /\ ReadCount("lower", 1..4) \in Seq(AccessSet)
      BY <1>1, <1>3, <1>6
    <3> QED  BY <3>1, <3>2, OneMoreRead DEF s
  <2> QED  BY <2>2, <2>3, <2>4, ReadsProper, EmptyProper DEF s, MSS_RTC_get_binary_count
<1>5. Proper(MSS_RTC_get_calendar_count)
  <2> DEFINE s1 == ReadCount("lower", {4}) \o ReadCount("lower", {3}) \o ReadCount("lower", {2})
                     \o ReadCount("lower", {1})
             s2 == s1 \o ReadCount("upper", {4}) \o ReadCount("upper", {3}) \o ReadCount("upper", {2})
             s  == s2 \o ReadCount("upper", {1})
             P1 == {r("lower", {4})} \cup {r("lower", {3})} \cup {r("lower", {2})} \cup {r("lower", {1})}
             P2 == P1 \cup {r("upper", {4})} \cup {r("upper", {3})} \cup {r("upper", {2})}
             P  == P2 \cup {r("upper", {1})}
  <2>1. Made(s1, P1)
    BY <1>1, <1>3, MadeCat
  <2>2. Made(s2, P2)
    <3> HIDE DEF s1, P1
    <3> QED  BY <1>1, <1>3, <2>1, MadeCat
  <2>8. UpperLast(s)
    <3>1. \A x \in P2 : ~Reads(x, "upper", 1)
      <4>1. \A b \in SUBSET (1..4) : ~Reads(r("lower", b), "upper", 1)
        BY <1>3, <1>6
      <4>2. \A k \in {2, 3, 4} : ~Reads(r("upper", {k}), "upper", 1)
        BY <1>3, <1>6
      <4> QED  BY <1>3, <4>1, <4>2
    <3> HIDE DEF s2, P2
    <3>2. s2 \in Seq(AccessSet) /\ \A x \in Pending(s2) : ~Reads(x, "upper", 1)
      BY <2>2, <3>1 DEF Made
    <3>3. r("upper", {1}) \in AccessSet /\ ReadCount("upper", {1}) = <<r("upper", {1})>>
      BY <1>3, <1>6
    <3> QED  BY <3>2, <3>3, OneMoreRead
  <2>3. Made(s, P) /\ Last(s) = r("upper", {1})
    <3> HIDE DEF s2, P2
    <3> DEFINE u == ReadCount("upper", {1})
    <3>1. Made(u, {r("upper", {1})}) /\ u # <<>> /\ Last(u) = r("upper", {1}) /\ u \in Seq(AccessSet)
      BY <1>1, <1>3
    <3>2. s2 \in Seq(AccessSet)
      BY <2>2 DEF Made
    <3> HIDE DEF u
    <3>3. Made(s2 \o u, P2 \cup {r("upper", {1})})
      BY <2>2, <3>1, MadeCat
    <3>4. Last(s2 \o u) = Last(u)
      BY <3>1, <3>2, PendingCat
    <3> QED  BY <3>1, <3>3, <3>4 DEF u
  <2> HIDE DEF s
  <2>4. /\ \A a \in P : a.kind = "READ"
        /\ \A h \in Halves, k \in 1..4 : r(h, {k}) \in P
    BY <1>2, <1>3
  <2> HIDE DEF P
  <2>5. Only(s, {"READ"})
    BY <2>3, <2>4 DEF Made, Only
  <2>6. Reads(Last(s), "upper", 1)
    BY <1>2, <1>3, <2>3
  <2>7. Covers(s, NotRead)
    <3>1. ASSUME NEW h \in Halves, NEW k \in 1..4  PROVE \E a \in Pending(s) : Reads(a, h, k)
      <4>1. Reads(r(h, {k}), h, k) /\ r(h, {k}) \in Pending(s)
        BY <1>2, <2>3, <2>4 DEF Made
      <4> QED  BY <4>1
    <3> QED  BY <3>1 DEF Covers
  <2> QED  BY <2>5, <2>6, <2>7, <2>8, ReadsProper, EmptyProper DEF s, MSS_RTC_get_calendar_count
<1> QED  BY <1>4, <1>5

-----------------------------------------------------------------------------
(* The words of an alarm. *)

LEMMA Appended ==
  ASSUME NEW S, NEW t \in Seq(S), NEW c \in S
  PROVE  /\ Append(t, c) \in Seq(S) /\ Len(Append(t, c)) = Len(t) + 1
         /\ \A k \in 1..Len(t) : Append(t, c)[k] = t[k]
         /\ Append(t, c)[Len(t) + 1] = c
OBVIOUS

LEMMA FourthItem ==
  ASSUME NEW S, NEW t \in Seq(S), Len(t) = 3, NEW c \in S
  PROVE  /\ Append(t, c) \in Seq(S) /\ Len(Append(t, c)) = 4
         /\ \A k \in 1..3 : Append(t, c)[k] = t[k]
         /\ Append(t, c)[4] = c
<1>1. /\ Append(t, c) \in Seq(S) /\ Len(Append(t, c)) = Len(t) + 1
      /\ \A k \in 1..Len(t) : Append(t, c)[k] = t[k]
      /\ Append(t, c)[Len(t) + 1] = c
  BY Appended, Zenon
<1> QED  BY <1>1

LEMMA ShiftIn ==
  ASSUME NEW S, NEW x \in Seq(S), Len(x) = 4, NEW c \in S
  PROVE  /\ Append(Tail(x), c) \in Seq(S) /\ Len(Append(Tail(x), c)) = 4
         /\ \A k \in 1..3 : Append(Tail(x), c)[k] = x[k + 1]
         /\ Append(Tail(x), c)[4] = c
<1>1. x # <<>>
  OBVIOUS
<1> DEFINE t == Tail(x)
<1>2. /\ t \in Seq(S) /\ Len(t) = Len(x) - 1
      /\ \A k \in 1..Len(t) : t[k] = x[k + 1]
  BY <1>1
<1> HIDE DEF t
<1>3. Len(t) = 3 /\ \A k \in 1..3 : t[k] = x[k + 1]
  BY <1>2
<1>4. /\ Append(t, c) \in Seq(S) /\ Len(Append(t, c)) = 4
      /\ \A k \in 1..3 : Append(t, c)[k] = t[k]
      /\ Append(t, c)[4] = c
  <2>1. t \in Seq(S) /\ Len(t) = 3
    BY <1>2, <1>3
  <2> QED  BY <2>1, FourthItem, Zenon
<1> QED  BY <1>3, <1>4 DEF t

(* Four items have been put in. *)
WordPair(w) == /\ w.value \in Seq(Nat) /\ Len(w.value) = 4
               /\ w.mask \in Seq(Nat) /\ Len(w.mask) = 4
Asked(w, k, item) == item # 255 => w.mask[k] = 255 /\ w.value[k] = item

LEMMA AddItem ==
  ASSUME NEW w, WordPair(w), NEW item \in 0..255, NEW n, n = add_alarm_cfg_values(item, w)
  PROVE  /\ WordPair(n) /\ Asked(n, 4, item)
         /\ \A x : \A k \in 1..3 : Asked(w, k + 1, x) => Asked(n, k, x)
<1> DEFINE a == IF item = MSS_RTC_CALENDAR_DONT_CARE THEN 0 ELSE item
           b == IF item = MSS_RTC_CALENDAR_DONT_CARE THEN 0 ELSE 255
<1>1. n.value = Append(Tail(w.value), a) /\ n.mask = Append(Tail(w.mask), b)
  BY DEF add_alarm_cfg_values
<1>2. a \in Nat /\ b \in Nat /\ (item # 255 => a = item /\ b = 255)
  BY DEF MSS_RTC_CALENDAR_DONT_CARE
<1> HIDE DEF a, b
<1>3. /\ n.value \in Seq(Nat) /\ Len(n.value) = 4 /\ n.value[4] = a
      /\ \A k \in 1..3 : n.value[k] = w.value[k + 1]
  <2> DEFINE v == w.value
  <2>1. v \in Seq(Nat) /\ Len(v) = 4
    BY DEF WordPair
  <2>2. n.value = Append(Tail(v), a)
    BY <1>1
  <2> HIDE DEF v
  <2>3. /\ Append(Tail(v), a) \in Seq(Nat) /\ Len(Append(Tail(v), a)) = 4
        /\ \A k \in 1..3 : Append(Tail(v), a)[k] = v[k + 1]
        /\ Append(Tail(v), a)[4] = a
    <3>1. a \in Nat
      BY <1>2
    <3> QED  BY <2>1, <3>1, ShiftIn, Zenon
  <2> QED  BY <2>2, <2>3 DEF v
<1>4. /\ n.mask \in Seq(Nat) /\ Len(n.mask) = 4 /\ n.mask[4] = b
      /\ \A k \in 1..3 : n.mask[k] = w.mask[k + 1]
  <2> DEFINE v == w.mask
  <2>1. v \in Seq(Nat) /\ Len(v) = 4
    BY DEF WordPair
  <2>2. n.mask = Append(Tail(v), b)
    BY <1>1
  <2> HIDE DEF v
  <2>3. /\ Append(Tail(v), b) \in Seq(Nat) /\ Len(Append(Tail(v), b)) = 4
        /\ \A k \in 1..3 : Append(Tail(v), b)[k] = v[k + 1]
        /\ Append(Tail(v), b)[4] = b
    <3>1. b \in Nat
      BY <1>2
    <3> QED  BY <2>1, <3>1, ShiftIn, Zenon
  <2> QED  BY <2>2, <2>3 DEF v
<1> QED  BY <1>2, <1>3, <1>4 DEF WordPair, Asked

LEMMA WordOfItems ==
  ASSUME NEW items, items[1] \in 0..255, items[2] \in 0..255, items[3] \in 0..255,
         items[4] \in 0..255, NEW w, w = AlarmWord(items)
  PROVE  /\ w.value \in Words /\ w.mask \in Words
         /\ \A k \in 1..4 : Asked(w, k, items[k])
<1> DEFINE w0 == [value |-> ZeroWord, mask |-> ZeroWord]
           w1 == add_alarm_cfg_values(items[1], w0)
           w2 == add_alarm_cfg_values(items[2], w1)
           w3 == add_alarm_cfg_values(items[3], w2)
           w4 == add_alarm_cfg_values(items[4], w3)
<1>1. WordPair(w0)
  BY DEF ZeroWord, Word, WordPair
<1>2. w = w4
  BY DEF AlarmWord
<1> HIDE DEF w0
<1>3. ASSUME NEW x, WordPair(x), NEW item \in 0..255
      PROVE  /\ WordPair(add_alarm_cfg_values(item, x)) /\ Asked(add_alarm_cfg_values(item, x), 4, item)
             /\ \A y : /\ Asked(x, 4, y) => Asked(add_alarm_cfg_values(item, x), 3, y)
                       /\ Asked(x, 3, y) => Asked(add_alarm_cfg_values(item, x), 2, y)
                       /\ Asked(x, 2, y) => Asked(add_alarm_cfg_values(item, x), 1, y)
  <2> DEFINE n == add_alarm_cfg_values(item, x)
  <2>1. /\ WordPair(n) /\ Asked(n, 4, item)
        /\ \A y : \A k \in 1..3 : Asked(x, k + 1, y) => Asked(n, k, y)
    BY <1>3, AddItem, Zenon
  <2> HIDE DEF n
  <2>2. \A y : \A k \in {1, 2, 3} : Asked(x, k + 1, y) => Asked(n, k, y)
    BY <2>1
  <2>3. 1 + 1 = 2 /\ 2 + 1 = 3 /\ 3 + 1 = 4
    OBVIOUS
  <2>4. \A y : Asked(x, 4, y) => Asked(n, 3, y)
    BY <2>2, <2>3
  <2>5. \A y : Asked(x, 3, y) => Asked(n, 2, y)
    BY <2>2, <2>3
  <2>6. \A y : Asked(x, 2, y) => Asked(n, 1, y)
    BY <2>2, <2>3
  <2> QED  BY <2>1, <2>4, <2>5, <2>6 DEF n
<1>10. /\ items[1] \in 0..255 /\ items[2] \in 0..255
       /\ items[3] \in 0..255 /\ items[4] \in 0..255
  OBVIOUS
<1>4. WordPair(w1) /\ Asked(w1, 4, items[1])
  BY <1>1, <1>3, <1>10
<1>5. WordPair(w2) /\ Asked(w2, 4, items[2]) /\ Asked(w2, 3, items[1])
  <2>1. w2 = add_alarm_cfg_values(items[2], w1)
    OBVIOUS
  <2> HIDE DEF w1, w2
  <2>2. /\ WordPair(w2) /\ Asked(w2, 4, items[2])
        /\ \A y : /\ Asked(w1, 4, y) => Asked(w2, 3, y)
                  /\ Asked(w1, 3, y) => Asked(w2, 2, y)
                  /\ Asked(w1, 2, y) => Asked(w2, 1, y)
    BY <2>1, <1>3, <1>4, <1>10
  <2> QED  BY <2>2, <1>4
<1>6. /\ WordPair(w3) /\ Asked(w3, 4, items[3]) /\ Asked(w3, 3, items[2]) /\ Asked(w3, 2, items[1])
  <2>1. w3 = add_alarm_cfg_values(items[3], w2)
    OBVIOUS
  <2> HIDE DEF w2, w3
  <2>2. /\ WordPair(w3) /\ Asked(w3, 4, items[3])
        /\ \A y : /\ Asked(w2, 4, y) => Asked(w3, 3, y)
                  /\ Asked(w2, 3, y) => Asked(w3, 2, y)
                  /\ Asked(w2, 2, y) => Asked(w3, 1, y)
    BY <2>1, <1>3, <1>5, <1>10
  <2> QED  BY <2>2, <1>5
<1>9. /\ WordPair(w4) /\ Asked(w4, 4, items[4]) /\ Asked(w4, 3, items[3])
      /\ Asked(w4, 2, items[2]) /\ Asked(w4, 1, items[1])
  <2>1. w4 = add_alarm_cfg_values(items[4], w3)
    OBVIOUS
  <2> HIDE DEF w3, w4
  <2>2. /\ WordPair(w4) /\ Asked(w4, 4, items[4])
        /\ \A y : /\ Asked(w3, 4, y) => Asked(w4, 3, y)
                  /\ Asked(w3, 3, y) => Asked(w4, 2, y)
                  /\ Asked(w3, 2, y) => Asked(w4, 1, y)
    BY <2>1, <1>3, <1>6, <1>10
  <2> QED  BY <2>2, <1>6
<1> HIDE DEF w4
<1>7. w.value \in Words /\ w.mask \in Words
  <2>1. /\ w.value \in Seq(Nat) /\ Len(w.value) = 4
        /\ w.mask \in Seq(Nat) /\ Len(w.mask) = 4
    BY <1>2, <1>9 DEF WordPair
  <2> QED  BY <2>1, LenProperties DEF Words
<1>8. \A k \in 1..4 : Asked(w, k, items[k])
  BY <1>2, <1>9
<1> QED  BY <1>7, <1>8

LEMMA RequestTyped ==
  ASSUME NEW r \in Requests
  PROVE  \/ /\ r.kind = "binary" /\ r.count \in Nat
         \/ /\ r.kind = "calendar" /\ r.date \in [Fields -> 0..255]
<1>1. CASE r \in [kind : {"calendar"}, date : CalendarAlarms]
  <2>1. r.kind = "calendar" /\ r.date \in CalendarAlarms
    BY <1>1
  <2> QED  BY <2>1, RtcAssumption
<1>2. CASE r \in [kind : {"binary"}, count : BinaryArgs]
  <2>1. r.kind = "binary" /\ r.count \in BinaryArgs
    BY <1>2
  <2> QED  BY <2>1, RtcAssumption
<1> QED  BY <1>1, <1>2 DEF Requests

(* The words for a date are those of its items, in the order of its half. *)
LEMMA WordsOfDate ==
  ASSUME NEW c \in [Fields -> 0..255], NEW h \in Halves, NEW w, w = AlarmWord(ItemsOf(c, h))
  PROVE  /\ w.value \in Words /\ w.mask \in Words
         /\ \A k \in 1..4 : Asked(w, k, ItemsOf(c, h)[k])
<1> DEFINE items == ItemsOf(c, h)
<1>1. /\ c.day \in 0..255 /\ c.hour \in 0..255 /\ c.minute \in 0..255 /\ c.second \in 0..255
      /\ c.week \in 0..255 /\ c.weekday \in 0..255 /\ c.year \in 0..255 /\ c.month \in 0..255
  BY DEF Fields
<1>2. items[1] \in 0..255 /\ items[2] \in 0..255 /\ items[3] \in 0..255 /\ items[4] \in 0..255
  BY <1>1 DEF ItemsOf
<1>3. w = AlarmWord(items)
  OBVIOUS
<1> HIDE DEF items
<1> QED  BY <1>2, <1>3, WordOfItems DEF items

LEMMA WordsTyped ==
  ASSUME NEW r \in Requests, NEW h \in Halves
  PROVE  AlarmFor(r, h) \in Words /\ CompareFor(r, h) \in Words
<1>1. CASE r.kind = "calendar"
  <2>1. r.date \in [Fields -> 0..255]
    BY <1>1, RequestTyped
  <2> QED  BY <1>1, <2>1, WordsOfDate DEF AlarmFor, CompareFor
<1>2. CASE r.kind = "binary"
  <2>1. r.count % Radix \in Nat /\ r.count \div Radix \in Nat
    BY <1>2, RequestTyped, DivMod
  <2>2. \A n \in Nat : Word(n) \in Words
    BY DEF Word, Words
  <2>3. COMPARE_ALL_BITS \in Words
    BY DEF COMPARE_ALL_BITS, Words
  <2> QED  BY <1>2, <2>1, <2>2, <2>3 DEF AlarmFor, CompareFor
<1> QED  BY <1>1, <1>2, RequestTyped

(* The comparator finds what it is told to look for, and nothing else. *)
LEMMA FindsWhatIsAsked ==
  ASSUME NEW r \in Requests, NEW al, NEW co, Looks(al, co, r), NEW w \in [Halves -> Words],
         SameWhere(co.lower, al.lower, w.lower), SameWhere(co.upper, al.upper, w.upper)
  PROVE  AsAsked(r, w)
<1>1. "lower" \in Halves /\ "upper" \in Halves
  BY DEF Halves
<1>2. /\ co.lower = CompareFor(r, "lower") /\ al.lower = AlarmFor(r, "lower")
      /\ co.upper = CompareFor(r, "upper") /\ al.upper = AlarmFor(r, "upper")
      /\ w.lower \in Words /\ w.upper \in Words
  BY <1>1 DEF Looks
<1>3. CASE r.kind = "calendar"
  <2> DEFINE c  == r.date
             lo == AlarmWord(ItemsOf(c, "lower"))
             up == AlarmWord(ItemsOf(c, "upper"))
  <2>1. c \in [Fields -> 0..255]
    BY <1>3, RequestTyped
  <2>2. co.lower = lo.mask /\ al.lower = lo.value /\ co.upper = up.mask /\ al.upper = up.value
    BY <1>2, <1>3 DEF CompareFor, AlarmFor
  <2>3. \A k \in 1..4 : Asked(lo, k, ItemsOf(c, "lower")[k]) /\ Asked(up, k, ItemsOf(c, "upper")[k])
    BY <1>1, <2>1, WordsOfDate
  <2> HIDE DEF lo, up
  <2>4. \A k \in 1..4 : /\ ItemsOf(c, "lower")[k] # 255 => w.lower[k] = ItemsOf(c, "lower")[k]
                        /\ ItemsOf(c, "upper")[k] # 255 => w.upper[k] = ItemsOf(c, "upper")[k]
    BY <2>2, <2>3 DEF Asked, SameWhere
  <2>5. \A k \in 1..4 : /\ ItemsOf(c, "lower")[k] = c[LowerFields[k]]
                        /\ ItemsOf(c, "upper")[k] = c[UpperFields[k]]
    BY DEF ItemsOf, LowerFields, UpperFields
  <2>6. \A k \in 1..4 : /\ FieldAsAsked(c, LowerFields[k], w.lower[k])
                        /\ FieldAsAsked(c, UpperFields[k], w.upper[k])
    BY <2>4, <2>5 DEF FieldAsAsked, MSS_RTC_CALENDAR_DONT_CARE
  <2> QED  BY <1>3, <2>6 DEF AsAsked
<1>4. CASE r.kind = "binary"
  <2>1. r.count \in Nat
    BY <1>4, RequestTyped
  <2>2. /\ co.lower = COMPARE_ALL_BITS /\ al.lower = Word(r.count % Radix)
        /\ co.upper = COMPARE_ALL_BITS /\ al.upper = Word(r.count \div Radix)
    BY <1>2, <1>4 DEF CompareFor, AlarmFor
  <2>3. COMPARE_ALL_BITS[4] = 255 /\ \A n : Word(n)[4] = n
    BY DEF COMPARE_ALL_BITS, Word
  <2>4. w.lower[4] = r.count % Radix /\ w.upper[4] = r.count \div Radix
    <3>1. /\ COMPARE_ALL_BITS[4] = 255 => Word(r.count % Radix)[4] = w.lower[4]
          /\ COMPARE_ALL_BITS[4] = 255 => Word(r.count \div Radix)[4] = w.upper[4]
      BY <2>2 DEF SameWhere
    <3> QED  BY <2>3, <3>1
  <2>5. BinaryCount(w) = (r.count \div Radix) * Radix + (r.count % Radix)
    BY <2>4 DEF BinaryCount
  <2> QED  BY <1>4, <2>1, <2>5, DivMod DEF AsAsked
<1> QED  BY <1>3, <1>4, RequestTyped

-----------------------------------------------------------------------------
(* The calls that set an alarm. *)

(* P writes what r asks for to both words of both registers, and nothing  *)
(* else to them.                                                           *)
AlarmOf(r, h)   == Access("ALARM", [half |-> h, word |-> AlarmFor(r, h)])
CompareOf(r, h) == Access("COMPARE", [half |-> h, word |-> CompareFor(r, h)])
Sets(P, r) ==
  /\ \A h \in Halves : AlarmOf(r, h) \in P /\ CompareOf(r, h) \in P
  /\ \A a \in P : /\ a.kind \notin {"ALARM_ON", "READ"} /\ ~Uploads(a)
                  /\ Touches(a) => \E h \in Halves : a = AlarmOf(r, h) \/ a = CompareOf(r, h)

LEMMA OnProper ==
  ASSUME NEW r \in Requests, NEW t, NEW P, Made(t, P), Quiet(t), Sets(P, r)
  PROVE  Proper(t \o AlarmOn(r))
<1> DEFINE on == Access("ALARM_ON", r)
           s  == t \o AlarmOn(r)
<1>1. on \in AccessSet /\ AlarmOn(r) = <<on>> /\ on.kind = "ALARM_ON" /\ on.value = r
  BY IsAccess DEF AlarmOn, Access
<1>2. /\ t \in Seq(AccessSet) /\ Pending(t) = P
      /\ AlarmOn(r) \in Seq(AccessSet) /\ Pending(AlarmOn(r)) = {on} /\ AlarmOn(r) # <<>>
      /\ Len(AlarmOn(r)) = 1
  BY <1>1, PendingOne DEF Made
<1>3. /\ s \in Seq(AccessSet) /\ Pending(s) = P \cup {on}
      /\ Len(s) = Len(t) + 1 /\ Len(t) \in Nat /\ \A i \in 1..Len(t) : s[i] = t[i]
      /\ s[Len(s)] = on
  <2>1. s \in Seq(AccessSet) /\ Pending(s) = P \cup {on}
    BY <1>2, PendingCat
  <2>2. /\ Len(s) = Len(t) + Len(<<on>>) /\ Len(t) \in Nat /\ Len(<<on>>) = 1 /\ <<on>>[1] = on
        /\ \A i \in 1..Len(s) : s[i] = IF i <= Len(t) THEN t[i] ELSE <<on>>[i - Len(t)]
    BY <1>1, <1>2
  <2> QED  BY <2>1, <2>2
<1>4. OffFirst(s)
  BY <1>2, QuietCat DEF Quiet
<1> HIDE DEF s
<1>5. \A a \in P \cup {on} : ~Uploads(a) /\ a.kind # "READ"
  BY <1>1 DEF Sets, Uploads, Access
<1>6. WaitsAtEnd(s) /\ ~Has(s, "READ")
  BY <1>3, <1>5 DEF WaitsAtEnd, Has
<1>7. \A h \in Halves : /\ AlarmOf(r, h).kind = "ALARM" /\ AlarmOf(r, h).value.half = h
                        /\ AlarmOf(r, h).value.word = AlarmFor(r, h)
                        /\ CompareOf(r, h).kind = "COMPARE" /\ CompareOf(r, h).value.half = h
                        /\ CompareOf(r, h).value.word = CompareFor(r, h)
  BY DEF AlarmOf, CompareOf, Access
<1>8. ASSUME NEW al, NEW co  PROVE Pledged(s, al, co)
  <2>1. ASSUME NEW h \in Halves
        PROVE  /\ Writes(P \cup {on}, "ALARM", h, al[h], AlarmFor(r, h))
               /\ Writes(P \cup {on}, "COMPARE", h, co[h], CompareFor(r, h))
    <3>1. AlarmOf(r, h) \in P /\ CompareOf(r, h) \in P
      BY DEF Sets
    <3>2. \A a \in P \cup {on} : a.kind = "ALARM" /\ a.value.half = h => a.value.word = AlarmFor(r, h)
      BY <1>1, <1>7 DEF Sets, Touches
    <3>3. \A a \in P \cup {on} : a.kind = "COMPARE" /\ a.value.half = h => a.value.word = CompareFor(r, h)
      BY <1>1, <1>7 DEF Sets, Touches
    <3>4. /\ \E a \in P \cup {on} : a.kind = "ALARM" /\ a.value.half = h
          /\ \E a \in P \cup {on} : a.kind = "COMPARE" /\ a.value.half = h
      BY <1>7, <3>1
    <3> QED  BY <3>2, <3>3, <3>4 DEF Writes
  <2>2. WillLook(Pending(s), al, co, r)
    BY <1>3, <2>1 DEF WillLook
  <2>3. \A i \in 1..Len(s) : s[i].kind = "ALARM_ON" => i = Len(s)
    <3>1. ASSUME NEW i \in 1..Len(s), i # Len(s)  PROVE s[i].kind # "ALARM_ON"
      <4>1. i \in 1..Len(t) /\ s[i] = t[i]
        BY <1>3, <3>1
      <4>2. s[i] \in P
        BY <1>2, <4>1 DEF Pending
      <4> QED  BY <4>2 DEF Sets
    <3> QED  BY <3>1
  <2> QED  BY <1>1, <1>3, <2>2, <2>3 DEF Pledged
<1> QED  BY <1>3, <1>4, <1>6, <1>8 DEF Proper, ReadsAtEnd, s

LEMMA AlarmProper ==
  /\ \A c \in CalendarAlarms : Proper(MSS_RTC_set_calendar_count_alarm(c))
  /\ \A n \in BinaryArgs, p \in BOOLEAN : Proper(MSS_RTC_set_binary_count_alarm(n, p))
<1>1. /\ "ALARM_OFF" \in Commands /\ "lower" \in Halves /\ "upper" \in Halves
      /\ Halves = {"lower", "upper"}
  BY DEF Commands, Halves
<1>2. Quiet(Control("ALARM_OFF")) /\ Made(Control("ALARM_OFF"), {Off})
  BY <1>1, QuietOff, Pieces DEF Off
<1>3. ASSUME NEW r \in Requests, NEW h \in Halves
      PROVE  /\ Made(WriteAlarm(h, AlarmFor(r, h)), {AlarmOf(r, h)})
             /\ Made(WriteCompare(h, CompareFor(r, h)), {CompareOf(r, h)})
  BY WordsTyped, PiecesOfWords DEF AlarmOf, CompareOf
<1>4. \A m \in SUBSET Modes : Made(set_rtc_mode(m), {Access("SET_MODE", m)})
  BY Pieces
<1>5. ASSUME NEW r \in Requests, NEW m
      PROVE  Sets({Off, Access("SET_MODE", m), AlarmOf(r, "lower"), CompareOf(r, "lower"),
                   AlarmOf(r, "upper"), CompareOf(r, "upper")}, r)
  BY <1>1 DEF Sets, Off, AlarmOf, CompareOf, Access, Touches, Uploads
<1>6. \A s, t, P, Q : Quiet(s) /\ Made(s, P) /\ Made(t, Q) => Quiet(s \o t) /\ Made(s \o t, P \cup Q)
  BY MadeCat, QuietCat DEF Made
<1>7. ASSUME NEW c \in CalendarAlarms  PROVE Proper(MSS_RTC_set_calendar_count_alarm(c))
  <2> DEFINE r  == [kind |-> "calendar", date |-> c]
             m  == {CLK_MODE, WAKEUP_EN, WAKEUP_CONTINUE}
             lo == AlarmWord(<<c.day, c.hour, c.minute, c.second>>)
             up == AlarmWord(<<c.week, c.weekday, c.year, c.month>>)
             w  == WriteAlarms(lo, up)
             s1 == Control("ALARM_OFF") \o w
             s  == s1 \o set_rtc_mode(m)
             Pw == {AlarmOf(r, "lower")} \cup {CompareOf(r, "lower")}
                     \cup {AlarmOf(r, "upper")} \cup {CompareOf(r, "upper")}
             P  == {Off, Access("SET_MODE", m), AlarmOf(r, "lower"), CompareOf(r, "lower"),
                    AlarmOf(r, "upper"), CompareOf(r, "upper")}
  <2>1. r \in Requests /\ m \in SUBSET Modes
    BY DEF Requests, Modes
  <2>2. /\ lo.value = AlarmFor(r, "lower") /\ lo.mask = CompareFor(r, "lower")
        /\ up.value = AlarmFor(r, "upper") /\ up.mask = CompareFor(r, "upper")
    BY DEF AlarmFor, CompareFor, ItemsOf
  <2> HIDE DEF r, lo, up, m
  <2>3. Made(w, Pw)
    <3>1. /\ Made(WriteAlarm("lower", lo.value), {AlarmOf(r, "lower")})
          /\ Made(WriteCompare("lower", lo.mask), {CompareOf(r, "lower")})
          /\ Made(WriteAlarm("upper", up.value), {AlarmOf(r, "upper")})
          /\ Made(WriteCompare("upper", up.mask), {CompareOf(r, "upper")})
      BY <1>1, <1>3, <2>1, <2>2
    <3> QED  BY <3>1, MadeCat DEF WriteAlarms
  <2> HIDE DEF w, Pw
  <2>4. Quiet(s1) /\ Made(s1, {Off} \cup Pw)
    BY <1>2, <1>6, <2>3
  <2> HIDE DEF s1
  <2>5. Quiet(s) /\ Made(s, ({Off} \cup Pw) \cup {Access("SET_MODE", m)})
    BY <1>4, <1>6, <2>1, <2>4
  <2>6. ({Off} \cup Pw) \cup {Access("SET_MODE", m)} = P
    BY DEF Pw
  <2> HIDE DEF s
  <2>7. Proper(s \o AlarmOn(r))
    BY <1>5, <2>1, <2>5, <2>6, OnProper
  <2> QED  BY <2>7, EmptyProper DEF MSS_RTC_set_calendar_count_alarm, s, s1, w, lo, up, m, r
<1>8. ASSUME NEW n \in BinaryArgs, NEW p \in BOOLEAN
      PROVE  Proper(MSS_RTC_set_binary_count_alarm(n, p))
  <2> DEFINE r  == [kind |-> "binary", count |-> n]
             m  == {WAKEUP_EN, WAKEUP_CONTINUE} \cup (IF p THEN {WAKEUP_RESET} ELSE {})
             s1 == Control("ALARM_OFF") \o WriteCompare("lower", COMPARE_ALL_BITS)
                     \o WriteCompare("upper", COMPARE_ALL_BITS)
             s2 == s1 \o WriteAlarm("lower", Word(n % Radix)) \o WriteAlarm("upper", Word(n \div Radix))
             s  == s2 \o set_rtc_mode(m)
             P1 == {Off} \cup {CompareOf(r, "lower")} \cup {CompareOf(r, "upper")}
             P2 == P1 \cup {AlarmOf(r, "lower")} \cup {AlarmOf(r, "upper")}
             P  == {Off, Access("SET_MODE", m), AlarmOf(r, "lower"), CompareOf(r, "lower"),
                    AlarmOf(r, "upper"), CompareOf(r, "upper")}
  <2>1. r \in Requests /\ m \in SUBSET Modes
    BY DEF Requests, Modes
  <2>2. /\ Word(n % Radix) = AlarmFor(r, "lower") /\ Word(n \div Radix) = AlarmFor(r, "upper")
        /\ COMPARE_ALL_BITS = CompareFor(r, "lower") /\ COMPARE_ALL_BITS = CompareFor(r, "upper")
    BY DEF AlarmFor, CompareFor
  <2> HIDE DEF r, m
  <2>3. Quiet(s1) /\ Made(s1, P1)
    <3>1. /\ Made(WriteCompare("lower", COMPARE_ALL_BITS), {CompareOf(r, "lower")})
          /\ Made(WriteCompare("upper", COMPARE_ALL_BITS), {CompareOf(r, "upper")})
      BY <1>1, <1>3, <2>1, <2>2
    <3> QED  BY <1>2, <1>6, <3>1
  <2> HIDE DEF s1, P1
  <2>4. Quiet(s2) /\ Made(s2, P2)
    <3>1. /\ Made(WriteAlarm("lower", Word(n % Radix)), {AlarmOf(r, "lower")})
          /\ Made(WriteAlarm("upper", Word(n \div Radix)), {AlarmOf(r, "upper")})
      BY <1>1, <1>3, <2>1, <2>2
    <3> QED  BY <1>6, <2>3, <3>1
  <2> HIDE DEF s2
  <2>5. Quiet(s) /\ Made(s, P2 \cup {Access("SET_MODE", m)})
    <3> HIDE DEF P2
    <3> QED  BY <1>4, <1>6, <2>1, <2>4
  <2>6. P2 \cup {Access("SET_MODE", m)} = P
    BY DEF P1
  <2> HIDE DEF s
  <2>7. Proper(s \o AlarmOn(r))
    BY <1>5, <2>1, <2>5, <2>6, OnProper
  <2> QED  BY <2>7, EmptyProper DEF MSS_RTC_set_binary_count_alarm, s, s2, s1, m, r
<1> QED  BY <1>7, <1>8

-----------------------------------------------------------------------------
(* The first access of a sequence is made. *)

LEMMA TailOffFirst ==
  ASSUME NEW s \in Seq(AccessSet), s # <<>>, OffFirst(s)
  PROVE  ~Touches(Head(s)) /\ (Head(s) # Off => OffFirst(Tail(s)))
<1>1. /\ Len(s) = Len(Tail(s)) + 1 /\ Head(s) = s[1] /\ Len(Tail(s)) \in Nat
      /\ \A i \in 1..Len(Tail(s)) : Tail(s)[i] = s[i + 1]
  BY PendingTail
<1>2. ~Touches(s[1])
  <2>1. 1 \in 1..Len(s) /\ ~(\E j \in 1..Len(s) : j < 1)
    BY <1>1
  <2> QED  BY <2>1 DEF OffFirst
<1>3. ASSUME Head(s) # Off, NEW i \in 1..Len(Tail(s)), Touches(Tail(s)[i])
      PROVE  \E j \in 1..Len(Tail(s)) : j < i /\ Tail(s)[j] = Off
  <2>1. i + 1 \in 1..Len(s) /\ Touches(s[i + 1])
    BY <1>1, <1>3
  <2>2. PICK j \in 1..Len(s) : j < i + 1 /\ s[j] = Off
    BY <2>1 DEF OffFirst
  <2>3. j # 1
    BY <1>1, <1>3, <2>2
  <2>4. j - 1 \in 1..Len(Tail(s)) /\ j - 1 < i /\ Tail(s)[j - 1] = s[j]
    BY <1>1, <2>2, <2>3
  <2> QED  BY <2>2, <2>4
<1> QED  BY <1>1, <1>2, <1>3 DEF OffFirst

(* Register now holds what its write wrote. *)
Takes(a, kind, old, new) ==
  \A h \in Halves : new[h] = IF a.kind = kind /\ a.value.half = h THEN a.value.word ELSE old[h]

LEMMA TailWrites ==
  ASSUME NEW P, NEW a, NEW kind, NEW h, NEW now, NEW for, Writes(P \cup {a}, kind, h, now, for),
         NEW next, next = IF a.kind = kind /\ a.value.half = h THEN a.value.word ELSE now
  PROVE  Writes(P, kind, h, next, for)
BY DEF Writes

LEMMA TailPledged ==
  ASSUME NEW s \in Seq(AccessSet), s # <<>>, NEW al, NEW co, Pledged(s, al, co),
         NEW al2, NEW co2, Takes(Head(s), "ALARM", al, al2), Takes(Head(s), "COMPARE", co, co2)
  PROVE  Pledged(Tail(s), al2, co2)
<1> DEFINE a == Head(s)
           t == Tail(s)
<1>1. /\ Len(s) = Len(t) + 1 /\ Len(t) \in Nat /\ Pending(s) = Pending(t) \cup {a}
      /\ \A i \in 1..Len(t) : t[i] = s[i + 1]
  BY PendingTail
<1>2. ASSUME NEW r, WillLook(Pending(s), al, co, r)  PROVE WillLook(Pending(t), al2, co2, r)
  <2> HIDE DEF a, t
  <2>1. ASSUME NEW h \in Halves
        PROVE  /\ Writes(Pending(t), "ALARM", h, al2[h], AlarmFor(r, h))
               /\ Writes(Pending(t), "COMPARE", h, co2[h], CompareFor(r, h))
    <3>1. /\ Writes(Pending(t) \cup {a}, "ALARM", h, al[h], AlarmFor(r, h))
          /\ Writes(Pending(t) \cup {a}, "COMPARE", h, co[h], CompareFor(r, h))
      BY <1>1, <1>2 DEF WillLook
    <3>2. /\ al2[h] = IF a.kind = "ALARM" /\ a.value.half = h THEN a.value.word ELSE al[h]
          /\ co2[h] = IF a.kind = "COMPARE" /\ a.value.half = h THEN a.value.word ELSE co[h]
      BY DEF Takes, a
    <3> QED  BY <3>1, <3>2, TailWrites
  <2> QED  BY <2>1 DEF WillLook
<1>3. ASSUME NEW i \in 1..Len(t), t[i].kind = "ALARM_ON"
      PROVE  i = Len(t) /\ WillLook(Pending(t), al2, co2, t[i].value)
  <2>1. i + 1 \in 1..Len(s) /\ s[i + 1] = t[i] /\ s[i + 1].kind = "ALARM_ON"
    BY <1>1, <1>3
  <2>2. i + 1 = Len(s) /\ WillLook(Pending(s), al, co, t[i].value)
    BY <2>1 DEF Pledged
  <2>3. i = Len(t)
    <3>1. Len(t) \in Nat /\ Len(s) = Len(t) + 1
      BY <1>1
    <3>2. i + 1 = Len(s)
      BY <2>2
    <3> HIDE DEF t
    <3> QED  BY <3>1, <3>2
  <2> QED  BY <1>2, <2>2, <2>3
<1> QED  BY <1>3 DEF Pledged

LEMMA TailEnds ==
  ASSUME NEW s \in Seq(AccessSet), s # <<>>
  PROVE  /\ WaitsAtEnd(s) => WaitsAtEnd(Tail(s))
         /\ ReadsAtEnd(s) => ReadsAtEnd(Tail(s))
<1>1. /\ Pending(s) = {Head(s)} \cup Pending(Tail(s))
      /\ Tail(s) # <<>> => Last(Tail(s)) = Last(s)
  BY PendingTail
<1>2. CASE Tail(s) = <<>>
  <2>1. Pending(Tail(s)) = {}
    BY <1>2, PendingNone
  <2> QED  BY <2>1 DEF WaitsAtEnd, ReadsAtEnd, Has
<1>3. CASE Tail(s) # <<>>
  <2>1. UpperLast(s) => UpperLast(Tail(s))
    <3>1. /\ Len(s) = Len(Tail(s)) + 1 /\ Len(Tail(s)) \in Nat
          /\ \A i \in 1..Len(Tail(s)) : Tail(s)[i] = s[i + 1]
      BY PendingTail
    <3>2. \A i \in 1..Len(Tail(s)) : i + 1 \in 1..Len(s)
      BY <3>1
    <3>3. ASSUME NEW i \in 1..Len(Tail(s)), i + 1 = Len(s)  PROVE i = Len(Tail(s))
      <4>1. Len(s) = Len(Tail(s)) + 1 /\ Len(Tail(s)) \in Nat
        BY <3>1
      <4> HIDE <3>1
      <4> QED  BY <3>3, <4>1
    <3> QED  BY <3>1, <3>2, <3>3 DEF UpperLast
  <2> QED  BY <1>1, <1>3, <2>1 DEF WaitsAtEnd, ReadsAtEnd, Has
<1> QED  BY <1>2, <1>3

(* Accesses in front that have nothing to do with alarm, upload and count. *)
LEMMA InFront ==
  ASSUME NEW b \in Seq(AccessSet), Plain(Pending(b)), NEW t \in Seq(AccessSet), ~Has(t, "READ")
  PROVE  /\ b \o t \in Seq(AccessSet) /\ Pending(b \o t) = Pending(b) \cup Pending(t)
         /\ OffFirst(t) => OffFirst(b \o t)
         /\ \A al, co : Pledged(t, al, co) => Pledged(b \o t, al, co)
         /\ WaitsAtEnd(t) => WaitsAtEnd(b \o t)
         /\ ~Has(b \o t, "READ")
<1> DEFINE s == b \o t
<1>1. /\ s \in Seq(AccessSet) /\ Pending(s) = Pending(b) \cup Pending(t)
      /\ t # <<>> => Last(s) = Last(t)
  BY PendingCat
<1>2. /\ Len(s) = Len(b) + Len(t) /\ Len(b) \in Nat /\ Len(t) \in Nat
      /\ \A i \in 1..Len(s) : s[i] = IF i <= Len(b) THEN b[i] ELSE t[i - Len(b)]
  OBVIOUS
<1> HIDE DEF s
<1>3. \A i \in 1..Len(s) : /\ i <= Len(b) => s[i] \in Pending(b)
                           /\ ~(i <= Len(b)) => i - Len(b) \in 1..Len(t) /\ s[i] = t[i - Len(b)]
  BY <1>2 DEF Pending
<1>4. ASSUME OffFirst(t)  PROVE OffFirst(s)
  <2>1. ASSUME NEW i \in 1..Len(s), Touches(s[i])
        PROVE  \E j \in 1..Len(s) : j < i /\ s[j] = Off
    <3>1. ~(i <= Len(b))
      BY <1>3, <2>1 DEF Plain, Touches
    <3>2. i - Len(b) \in 1..Len(t) /\ Touches(t[i - Len(b)])
      BY <1>3, <2>1, <3>1
    <3>3. PICK j \in 1..Len(t) : j < i - Len(b) /\ t[j] = Off
      BY <1>4, <3>2 DEF OffFirst
    <3>4. j + Len(b) \in 1..Len(s) /\ j + Len(b) < i /\ s[j + Len(b)] = t[j]
      <4>1. j + Len(b) \in 1..Len(s) /\ j + Len(b) < i /\ ~(j + Len(b) <= Len(b))
        BY <1>2, <3>3
      <4>2. (j + Len(b)) - Len(b) = j
        BY <1>2
      <4> QED  BY <1>2, <4>1, <4>2
    <3> QED  BY <3>3, <3>4
  <2> QED  BY <2>1 DEF OffFirst
<1>5. ASSUME NEW al, NEW co, Pledged(t, al, co)  PROVE Pledged(s, al, co)
  <2>1. ASSUME NEW i \in 1..Len(s), s[i].kind = "ALARM_ON"
        PROVE  i = Len(s) /\ WillLook(Pending(s), al, co, s[i].value)
    <3>1. ~(i <= Len(b))
      BY <1>3, <2>1 DEF Plain
    <3>2. i - Len(b) \in 1..Len(t) /\ s[i] = t[i - Len(b)]
      BY <1>3, <3>1
    <3>3. i - Len(b) = Len(t) /\ WillLook(Pending(t), al, co, s[i].value)
      BY <1>5, <2>1, <3>2 DEF Pledged
    <3>4. ASSUME NEW kind \in {"ALARM", "COMPARE"}, NEW h, NEW now, NEW for,
                 Writes(Pending(t), kind, h, now, for)
          PROVE  Writes(Pending(s), kind, h, now, for)
      BY <1>1, <3>4 DEF Writes, Plain
    <3> QED  BY <1>2, <3>3, <3>4 DEF WillLook
  <2> QED  BY <2>1 DEF Pledged
<1>6. WaitsAtEnd(t) => WaitsAtEnd(s)
  <2> SUFFICES ASSUME WaitsAtEnd(t), NEW a \in Pending(s), Uploads(a)
               PROVE  Last(s).kind = "WAIT_UPLOAD"
    BY DEF WaitsAtEnd
  <2>1. a \in Pending(t)
    BY <1>1 DEF Plain
  <2>2. t # <<>>
    BY <2>1, PendingNone
  <2> QED  BY <1>1, <2>1, <2>2 DEF WaitsAtEnd
<1>7. ~Has(s, "READ")
  BY <1>1 DEF Has, Plain
<1> QED  BY <1>1, <1>4, <1>5, <1>6, <1>7 DEF s

-----------------------------------------------------------------------------
(* The parts of the invariant, where the thread makes an access. *)

Advances == todo.thread # <<>> /\ todo'.thread = Tail(todo.thread)
Made1 == Head(todo.thread)

LEMMA SettingKept ==
  ASSUME todo.thread \in Seq(AccessSet), Setting, Advances,
         alarmOn' => alarmOn /\ Made1 # Off,
         Takes(Made1, "ALARM", alarm, alarm'), Takes(Made1, "COMPARE", compare, compare')
  PROVE  Setting'
<1>1. alarmOn' => OffFirst(todo'.thread)
  BY TailOffFirst DEF Setting, Advances, Made1
<1>2. Pledged(todo'.thread, alarm', compare')
  BY TailPledged DEF Setting, Advances, Made1
<1> QED  BY <1>1, <1>2 DEF Setting

LEMMA AwaitedKept ==
  ASSUME todo.thread \in Seq(AccessSet), Awaited, Advances,
         upload' # NoUpload => /\ upload' = upload \/ Uploads(Made1)
                               /\ Made1.kind # "WAIT_UPLOAD"
  PROVE  Awaited'
<1> DEFINE s == todo.thread
           t == Tail(s)
<1>1. todo'.thread = t /\ s # <<>>
  BY DEF Advances
<1>2. /\ t # <<>> => Last(t) = Last(s)
      /\ t = <<>> => Last(s) = Made1
      /\ Made1 \in Pending(s)
  BY <1>1, PendingTail DEF Made1
<1>3. WaitsAtEnd(t)
  BY <1>1, TailEnds DEF Awaited
<1>4. ASSUME upload' # NoUpload  PROVE t # <<>> /\ Last(t).kind = "WAIT_UPLOAD"
  <2>1. Last(s).kind = "WAIT_UPLOAD"
    BY <1>2, <1>4 DEF Awaited, WaitsAtEnd
  <2> QED  BY <1>2, <1>4, <2>1
<1> HIDE DEF t
<1> QED  BY <1>1, <1>3, <1>4 DEF Awaited

LEMMA ReadingKept ==
  ASSUME todo.thread \in Seq(AccessSet), Reading, Advances, Made1.kind # "READ",
         got' = got, ~updated' => ~updated /\ count' = count,
         upload' = upload \/ upload' = NoUpload \/ Uploads(Made1)
  PROVE  Reading'
<1> DEFINE s == todo.thread
           t == Tail(s)
<1>1. todo'.thread = t /\ s # <<>>
  BY DEF Advances
<1>2. Pending(s) = {Made1} \cup Pending(t) /\ (ReadsAtEnd(s) => ReadsAtEnd(t))
  BY <1>1, PendingTail, TailEnds DEF Made1
<1>3. ReadsAtEnd(t) /\ (Has(t, "READ") => Has(s, "READ"))
  BY <1>2 DEF Reading, Has
<1>4. Covers(s, got) => Covers(t, got)
  BY <1>2 DEF Covers, Reads
<1>5. ASSUME NEW h \in Halves, NEW k \in 1..4, got[h][k] # -1
      PROVE  /\ upload' = NoUpload /\ \A a \in Pending(t) : ~Uploads(a)
             /\ ~updated' => got[h][k] = count'[h][k]
  <2>1. /\ upload = NoUpload /\ \A a \in Pending(s) : ~Uploads(a)
        /\ ~updated => got[h][k] = count[h][k]
    BY <1>5 DEF Reading
  <2> QED  BY <1>2, <2>1
<1> HIDE DEF t
<1>6. Has(t, "READ") => got["upper"][1] = -1
  BY <1>3 DEF Reading
<1>7. Has(t, "READ") \/ got["upper"][1] # -1 => Covers(t, got)
  BY <1>3, <1>4 DEF Reading
<1> QED  BY <1>1, <1>3, <1>5, <1>6, <1>7 DEF Reading

LEMMA NotReadIs == \A h \in Halves, k \in 1..4 : NotRead[h][k] = -1
BY DEF NotRead, Halves

LEMMA ReadingForgotten ==
  ASSUME ReadsAtEnd(todo'.thread), Has(todo'.thread, "READ") => Covers(todo'.thread, NotRead),
         got' = NotRead
  PROVE  Reading'
<1>1. "upper" \in Halves /\ 1 \in 1..4
  BY DEF Halves
<1>2. got'["upper"][1] = -1
  BY <1>1, NotReadIs
<1>3. \A h \in Halves, k \in 1..4 : got'[h][k] = -1
  BY NotReadIs
<1> QED  BY <1>2, <1>3 DEF Reading

(* Nothing of the driver moves. *)
LEMMA SameSetting ==
  ASSUME Setting, todo'.thread = todo.thread, UNCHANGED <<alarmOn, alarm, compare>>  PROVE Setting'
BY DEF Setting

LEMMA SameAwaited ==
  ASSUME Awaited, todo'.thread = todo.thread, upload' = upload \/ upload' = NoUpload  PROVE Awaited'
BY DEF Awaited

LEMMA SameReading ==
  ASSUME Reading, todo'.thread = todo.thread, got' = got, upload' = upload \/ upload' = NoUpload,
         ~updated' => ~updated /\ (count' = count \/ upload # NoUpload)
  PROVE  Reading'
<1>1. ASSUME NEW h \in Halves, NEW k \in 1..4, got[h][k] # -1
      PROVE  /\ upload' = NoUpload /\ \A a \in Pending(todo.thread) : ~Uploads(a)
             /\ ~updated' => got[h][k] = count'[h][k]
  BY <1>1 DEF Reading
<1> QED  BY <1>1 DEF Reading

(* The alarm rings, if it does, at a count it was asked for. *)
LEMMA ArmedAfter ==
  ASSUME Armed, RingsAsAsked, UNCHANGED <<alarmOn, alarm, compare, armed>>,
         \/ rung' = rung
         \/ \E w \in [Halves -> Words] : Matches(w) /\ rung' = w
  PROVE  Armed' /\ RingsAsAsked'
<1>1. CASE rung' = rung
  BY <1>1 DEF Armed, RingsAsAsked
<1>2. ASSUME NEW w \in [Halves -> Words], Matches(w), rung' = w  PROVE Armed' /\ RingsAsAsked'
  <2>1. /\ alarmOn /\ SameWhere(compare.lower, alarm.lower, w.lower)
        /\ SameWhere(compare.upper, alarm.upper, w.upper)
    BY <1>2 DEF Matches
  <2>2. armed \in Requests /\ Looks(alarm, compare, armed)
    BY <2>1 DEF Armed
  <2>3. AsAsked(armed, w)
    BY <2>1, <2>2, FindsWhatIsAsked
  <2> QED  BY <1>2, <2>1, <2>2, <2>3 DEF Armed, RingsAsAsked
<1> QED  BY <1>1, <1>2

-----------------------------------------------------------------------------
(* The counts. *)

LEMMA Pair ==
  ASSUME NEW a \in Words, NEW b \in Words
  PROVE  [lower |-> a, upper |-> b] \in [Halves -> Words]
BY DEF Halves

LEMMA CountTyped ==
  /\ \A c \in CalendarArgs : CalendarWords(c) \in [Halves -> Words]
  /\ \A n \in Nat : BinaryWords(n) \in [Halves -> Words]
  /\ ZeroCount \in [Halves -> Words]
  /\ \A w \in [Halves -> Words] : Advance(w) \in [Halves -> Words]
<1>1. ASSUME NEW c \in CalendarArgs  PROVE CalendarWords(c) \in [Halves -> Words]
  <2>1. c \in [Fields -> 0..255]
    BY RtcAssumption
  <2>2. /\ c.day \in Nat /\ c.hour \in Nat /\ c.minute \in Nat /\ c.second \in Nat
        /\ c.week \in Nat /\ c.weekday \in Nat /\ c.year \in Nat /\ c.month \in Nat
    BY <2>1 DEF Fields
  <2>3. /\ <<c.day, c.hour, c.minute, c.second>> \in Words
        /\ <<c.week, c.weekday, c.year, c.month>> \in Words
    BY <2>2 DEF Words
  <2> QED  BY <2>3, Pair DEF CalendarWords
<1>2. ASSUME NEW n \in Nat  PROVE BinaryWords(n) \in [Halves -> Words]
  <2>1. \A k \in Nat : Word(k) \in Words
    BY DEF Word, Words
  <2>2. n % Radix \in Nat /\ n \div Radix \in Nat
    BY DivMod
  <2> QED  BY <2>1, <2>2, Pair DEF BinaryWords
<1>3. Len(Instants) \in Nat \ {0} /\ \A i \in 1..Len(Instants) : Instants[i] \in CalendarArgs
  <2>1. Instants \in Seq(CalendarArgs) /\ Instants # <<>>
    BY RtcAssumption
  <2> QED  BY <2>1
<1>4. ZeroCount \in [Halves -> Words]
  <2>1. Instants[1] \in CalendarArgs
    BY <1>3
  <2> QED  BY <1>1, <1>2, <2>1 DEF ZeroCount
<1>5. ASSUME NEW w \in [Halves -> Words]  PROVE Advance(w) \in [Halves -> Words]
  <2>1. CASE CLK_MODE \in mode
    <3> DEFINE here == {i \in DOMAIN Instants : CalendarWords(Instants[i]) = w}
               i == IF here = {} THEN Len(Instants) ELSE CHOOSE j \in here : TRUE
               j == (i % Len(Instants)) + 1
    <3>1. DOMAIN Instants = 1..Len(Instants)
      BY RtcAssumption
    <3>2. i \in Nat
      <4>1. here \subseteq Nat
        BY <1>3, <3>1
      <4>2. CASE here = {}
        BY <1>3, <4>2
      <4>3. CASE here # {}
        <5>1. (CHOOSE h \in here : TRUE) \in here
          BY <4>3
        <5> QED  BY <4>1, <4>3, <5>1
      <4> QED  BY <4>2, <4>3
    <3> HIDE DEF i
    <3>3. j \in 1..Len(Instants)
      <4> DEFINE n == Len(Instants)
      <4>1. n \in Nat /\ n > 0
        BY <1>3
      <4> HIDE DEF n
      <4>2. (i % n) \in 0..(n - 1)
        BY <3>2, <4>1
      <4> QED  BY <3>2, <4>1, <4>2 DEF n
    <3> HIDE DEF j
    <3>4. CalendarWords(Instants[j]) \in [Halves -> Words]
      BY <1>1, <1>3, <3>3
    <3> QED  BY <2>1, <3>4 DEF Advance, i, j
  <2>2. CASE CLK_MODE \notin mode
    <3> DEFINE m == Radix * (MAX_BINARY_HIGHER_COUNT + 1)
               n == BinaryCount(w) + 1
    <3>1. w.upper[4] \in Nat /\ w.lower[4] \in Nat
      <4>1. w.upper \in Words /\ w.lower \in Words
        BY DEF Halves
      <4> QED  BY <4>1 DEF Words
    <3>2. Radix \in Nat /\ Radix > 0 /\ MAX_BINARY_HIGHER_COUNT \in Nat
      BY RtcAssumption
    <3>3. n \in Nat /\ m \in Nat /\ m > 0
      BY <3>1, <3>2 DEF BinaryCount
    <3> HIDE DEF n, m
    <3>4. n % m \in Nat
      BY <3>3
    <3>5. Advance(w) = BinaryWords(n % m)
      BY <2>2 DEF Advance, n, m
    <3> QED  BY <1>2, <3>4, <3>5
  <2> QED  BY <2>1, <2>2
<1> QED  BY <1>1, <1>2, <1>4, <1>5

-----------------------------------------------------------------------------
(* The counter. *)

LEMMA InitKeeps == Init => IInv
<1> SUFFICES ASSUME Init  PROVE IInv
  OBVIOUS
<1>1. ZeroWord \in Words /\ BinaryWords(0) \in [Halves -> Words]
  <2>1. ZeroWord \in Words
    BY DEF ZeroWord, Word, Words
  <2> QED  BY <2>1, CountTyped
<1>2. todo.thread = <<>> /\ todo.handler = <<>> /\ DOMAIN todo = {"thread", "handler"}
  BY DEF Init
<1>3. <<>> \in Seq(AccessSet) /\ NotRead \in [Halves -> [1..4 -> Nat \cup {-1}]]
  BY DEF NotRead, Halves
<1>4. [lower |-> ZeroWord, upper |-> ZeroWord] \in [Halves -> Words]
  BY <1>1, Pair
<1>5. TypeOK
  BY <1>1, <1>2, <1>3, <1>4 DEF Init, TypeOK, HandlerCalls, Modes
<1>6. Proper(<<>>)
  BY EmptyProper
<1>7. Setting /\ Armed /\ RingsAsAsked /\ Awaited
  BY <1>2, <1>6 DEF Init, Setting, Proper, Armed, RingsAsAsked, Awaited
<1>8. Reading
  <2>1. ~Has(<<>>, "READ") /\ got = NotRead
    BY PendingNone DEF Has, Init
  <2> QED  BY <1>2, <1>6, <2>1, NotReadIs DEF Reading, Proper, Halves
<1> QED  BY <1>5, <1>7, <1>8 DEF IInv

LEMMA TickKeeps ==
  ASSUME IInv, Tick  PROVE IInv'
<1> DEFINE next == Advance(count)
<1>1. next \in [Halves -> Words] /\ ZeroCount \in [Halves -> Words]
  BY CountTyped DEF IInv, TypeOK
<1> HIDE DEF next
<1>2. /\ \/ Matches(next) /\ wake' = TRUE /\ rung' = next
         \/ UNCHANGED <<wake, rung>>
      /\ count' = next \/ count' = ZeroCount
      /\ updated' = TRUE
      /\ UNCHANGED <<running, stopping, mode, alarmOn, alarm, compare, load,
                     upload, m3en, todo, calls, got, started, armed>>
  BY DEF Tick, Ring, NoRing, next
<1>3. TypeOK'
  BY <1>1, <1>2 DEF IInv, TypeOK
<1>4. Armed' /\ RingsAsAsked'
  BY <1>1, <1>2, ArmedAfter DEF IInv
<1>5. Setting' /\ Awaited' /\ Reading'
  BY <1>2, SameSetting, SameAwaited, SameReading DEF IInv
<1> QED  BY <1>3, <1>4, <1>5 DEF IInv

LEMMA StoppedKeeps ==
  ASSUME IInv, Stopped  PROVE IInv'
<1>1. TypeOK'
  BY DEF Stopped, IInv, TypeOK
<1>2. Armed' /\ RingsAsAsked'
  BY ArmedAfter DEF IInv, Stopped
<1>3. Setting' /\ Awaited' /\ Reading'
  BY SameSetting, SameAwaited, SameReading DEF IInv, Stopped
<1> QED  BY <1>1, <1>2, <1>3 DEF IInv

LEMMA UploadedKeeps ==
  ASSUME IInv, Uploaded  PROVE IInv'
<1>1. upload \in [Halves -> Words]
  BY DEF IInv, TypeOK, Uploaded
<1>2. /\ \/ Matches(upload) /\ wake' = TRUE /\ rung' = upload
         \/ UNCHANGED <<wake, rung>>
      /\ upload # NoUpload /\ count' = upload /\ upload' = NoUpload
      /\ UNCHANGED <<running, stopping, mode, alarmOn, alarm, compare, load,
                     updated, m3en, todo, calls, got, started, armed>>
  BY DEF Uploaded, MayRing, Ring, NoRing
<1>3. TypeOK'
  BY <1>1, <1>2 DEF IInv, TypeOK
<1>4. Armed' /\ RingsAsAsked'
  BY <1>1, <1>2, ArmedAfter DEF IInv
<1>5. Setting' /\ Awaited' /\ Reading'
  BY <1>2, SameSetting, SameAwaited, SameReading DEF IInv
<1> QED  BY <1>3, <1>4, <1>5 DEF IInv

-----------------------------------------------------------------------------
(* The accesses of the thread. *)

LEMMA ThreadAdvances ==
  ASSUME TypeOK, NEW k, At("thread", k), Next1("thread")
  PROVE  /\ Advances /\ Made1.kind = k /\ Made1.value = Value("thread") /\ Made1 \in AccessSet
         /\ todo.thread \in Seq(AccessSet)
         /\ todo'.thread \in Seq(AccessSet) /\ todo'.handler = todo.handler
         /\ DOMAIN todo' = {"thread", "handler"}
<1>1. /\ todo.thread \in Seq(AccessSet) /\ DOMAIN todo = {"thread", "handler"}
      /\ todo.thread # <<>> /\ Made1.kind = k /\ Made1.value = Value("thread")
  BY DEF TypeOK, At, Made1, Value
<1>2. todo' = [todo EXCEPT !["thread"] = Tail(@)]
  BY DEF Next1
<1>3. /\ DOMAIN todo' = {"thread", "handler"} /\ todo'.thread = Tail(todo.thread)
      /\ todo'.handler = todo.handler
  BY <1>1, <1>2
<1>4. Made1 \in AccessSet /\ Tail(todo.thread) \in Seq(AccessSet)
  BY <1>1, PendingTail DEF Made1
<1> QED  BY <1>1, <1>3, <1>4 DEF Advances

LEMMA HandlerAdvances ==
  ASSUME TypeOK, NEW k, At("handler", k), Next1("handler")
  PROVE  /\ todo'.thread = todo.thread /\ DOMAIN todo' = {"thread", "handler"}
         /\ todo'.handler \in HandlerCalls
         /\ k = "CONTROL" => Value("handler") = "WAKEUP_CLR"
<1> DEFINE clr == Access("CONTROL", "WAKEUP_CLR")
           ret == Access("RETURN", 0)
<1>1. /\ DOMAIN todo = {"thread", "handler"} /\ todo.handler # <<>>
      /\ todo.handler = <<ret>> \/ todo.handler = <<clr, ret>>
      /\ Head(todo.handler).kind = k
  BY DEF TypeOK, At, HandlerCalls
<1>2. todo' = [todo EXCEPT !["handler"] = Tail(@)]
  BY DEF Next1
<1>3. /\ DOMAIN todo' = {"thread", "handler"} /\ todo'.handler = Tail(todo.handler)
      /\ todo'.thread = todo.thread
  BY <1>1, <1>2
<1>4. ret.kind = "RETURN" /\ clr.kind = "CONTROL" /\ clr.value = "WAKEUP_CLR"
  BY DEF Access
<1> HIDE DEF clr, ret
<1>5. CASE todo.handler = <<ret>>
  <2>1. Head(<<ret>>) = ret /\ Tail(<<ret>>) = <<>>
    OBVIOUS
  <2> QED  BY <1>1, <1>3, <1>4, <1>5, <2>1 DEF HandlerCalls
<1>6. CASE todo.handler = <<clr, ret>>
  <2>1. Head(<<clr, ret>>) = clr /\ Tail(<<clr, ret>>) = <<ret>>
    OBVIOUS
  <2>2. todo'.handler \in HandlerCalls
    BY <1>3, <1>6, <2>1 DEF HandlerCalls, ret
  <2>3. Value("handler") = "WAKEUP_CLR"
    BY <1>4, <1>6, <2>1 DEF Value
  <2> QED  BY <1>3, <2>2, <2>3
<1> QED  BY <1>1, <1>5, <1>6

LEMMA ThreadControlKeeps ==
  ASSUME IInv, ControlWrite("thread")  PROVE IInv'
<1> DEFINE c == Value("thread")
<1>1. /\ Advances /\ Made1.kind = "CONTROL" /\ Made1.value = c /\ Made1 \in AccessSet
      /\ todo.thread \in Seq(AccessSet) /\ todo'.thread \in Seq(AccessSet)
      /\ todo'.handler = todo.handler /\ DOMAIN todo' = {"thread", "handler"}
  BY ThreadAdvances DEF IInv, ControlWrite
<1>2. c \in Commands /\ Made1 = Access("CONTROL", c)
  <2>1. c \in Commands
    BY <1>1, AccessTyped
  <2>2. Made1 \in [kind : {"CONTROL"}, value : Commands]
    BY <1>1 DEF AccessSet
  <2> QED  BY <1>1, <2>1, <2>2 DEF Access
<1> HIDE DEF c
<1>3. /\ running' = (running \/ c = "START")
      /\ stopping' = (stopping \/ (c = "STOP" /\ running))
      /\ alarmOn' = (alarmOn /\ c # "ALARM_OFF")
      /\ armed' = IF c = "ALARM_OFF" THEN NoAlarm ELSE armed
      /\ rung' = IF c = "ALARM_OFF" THEN NeverRung ELSE rung
      /\ upload' = CASE c = "UPLOAD" -> load [] c = "RESET" -> ZeroCount [] OTHER -> upload
      /\ updated' = (updated /\ c # "UPDATED")
      /\ got' = IF c = "UPDATED" THEN NotRead ELSE got
      /\ wake' = (wake /\ c # "WAKEUP_CLR")
      /\ UNCHANGED <<mode, alarm, compare, load, count, m3en, nvic, calls, started>>
  BY DEF ControlWrite, c
<1>4. NotRead \in [Halves -> [1..4 -> Nat \cup {-1}]]
  BY DEF NotRead, Halves
<1>5. ZeroCount \in [Halves -> Words]
  BY CountTyped
<1>6. TypeOK'
  BY <1>1, <1>3, <1>4, <1>5 DEF IInv, TypeOK
<1>7. Takes(Made1, "ALARM", alarm, alarm') /\ Takes(Made1, "COMPARE", compare, compare')
  BY <1>1, <1>3 DEF Takes
<1>8. c = "ALARM_OFF" <=> Made1 = Off
  BY <1>2 DEF Off, Access
<1>9. Setting'
  BY <1>1, <1>3, <1>7, <1>8, SettingKept DEF IInv
<1>10. Armed' /\ RingsAsAsked'
  <2>1. CASE c = "ALARM_OFF"
    BY <1>3, <2>1 DEF Armed, RingsAsAsked, IInv
  <2>2. CASE c # "ALARM_OFF"
    BY <1>3, <2>2 DEF Armed, RingsAsAsked, IInv
  <2> QED  BY <2>1, <2>2
<1>11. upload' = upload \/ Uploads(Made1)
  BY <1>2, <1>3 DEF Uploads
<1>12. Awaited'
  BY <1>1, <1>11, AwaitedKept DEF IInv
<1>13. Reading'
  <2>1. CASE c # "UPDATED"
    <3>1. got' = got /\ (~updated' => ~updated /\ count' = count)
      BY <1>3, <2>1 DEF IInv, TypeOK
    <3> QED  BY <1>1, <1>11, <3>1, ReadingKept DEF IInv
  <2>2. CASE c = "UPDATED"
    <3>1. /\ todo.thread # <<>> /\ todo'.thread = Tail(todo.thread) /\ Made1 \in Pending(todo.thread)
          /\ Pending(todo'.thread) \subseteq Pending(todo.thread)
      BY <1>1, PendingTail DEF Advances, Made1
    <3>2. ~Has(todo.thread, "READ")
      BY <1>1, <3>1 DEF IInv, Reading, ReadsAtEnd
    <3>3. ~Has(todo'.thread, "READ")
      BY <3>1, <3>2 DEF Has
    <3>4. ReadsAtEnd(todo'.thread) /\ got' = NotRead
      BY <1>3, <2>2, <3>3 DEF ReadsAtEnd
    <3> QED  BY <3>3, <3>4, ReadingForgotten
  <2> QED  BY <2>1, <2>2
<1> QED  BY <1>6, <1>9, <1>10, <1>12, <1>13 DEF IInv

LEMMA HandlerControlKeeps ==
  ASSUME IInv, ControlWrite("handler")  PROVE IInv'
<1> DEFINE c == Value("handler")
<1>1. /\ todo'.thread = todo.thread /\ DOMAIN todo' = {"thread", "handler"}
      /\ todo'.handler \in HandlerCalls /\ c = "WAKEUP_CLR"
  BY HandlerAdvances DEF IInv, ControlWrite
<1> HIDE DEF c
<1>2. /\ running' = (running \/ c = "START")
      /\ stopping' = (stopping \/ (c = "STOP" /\ running))
      /\ alarmOn' = (alarmOn /\ c # "ALARM_OFF")
      /\ armed' = IF c = "ALARM_OFF" THEN NoAlarm ELSE armed
      /\ rung' = IF c = "ALARM_OFF" THEN NeverRung ELSE rung
      /\ upload' = CASE c = "UPLOAD" -> load [] c = "RESET" -> ZeroCount [] OTHER -> upload
      /\ updated' = (updated /\ c # "UPDATED")
      /\ got' = IF c = "UPDATED" THEN NotRead ELSE got
      /\ wake' = (wake /\ c # "WAKEUP_CLR")
      /\ UNCHANGED <<mode, alarm, compare, load, count, m3en, nvic, calls, started>>
  BY DEF ControlWrite, c
<1>3. /\ wake' = FALSE /\ upload' = upload /\ armed' = armed /\ rung' = rung /\ got' = got
      /\ (running' <=> running) /\ (stopping' <=> stopping) /\ (alarmOn' <=> alarmOn)
      /\ (updated' <=> updated) /\ running' \in BOOLEAN /\ stopping' \in BOOLEAN
      /\ alarmOn' \in BOOLEAN /\ updated' \in BOOLEAN
  BY <1>1, <1>2
<1>4. TypeOK'
  BY <1>1, <1>2, <1>3 DEF IInv, TypeOK
<1>5. Armed' /\ RingsAsAsked'
  BY <1>2, <1>3 DEF IInv, Armed, RingsAsAsked
<1>6. Setting'
  BY <1>1, <1>2, <1>3 DEF IInv, Setting
<1>7. Awaited' /\ Reading'
  BY <1>1, <1>2, <1>3, SameAwaited, SameReading DEF IInv
<1> QED  BY <1>4, <1>5, <1>6, <1>7 DEF IInv

LEMMA AlarmOnKeeps ==
  ASSUME IInv, AlarmOnWrite  PROVE IInv'
<1> DEFINE s == todo.thread
           r == Value("thread")
<1>1. /\ Advances /\ Made1.kind = "ALARM_ON" /\ Made1.value = r /\ Made1 \in AccessSet
      /\ s \in Seq(AccessSet) /\ todo'.thread \in Seq(AccessSet)
      /\ todo'.handler = todo.handler /\ DOMAIN todo' = {"thread", "handler"}
  BY ThreadAdvances DEF IInv, AlarmOnWrite
<1>2. r \in Requests
  BY <1>1, AccessTyped
<1> HIDE DEF r
<1>3. /\ alarmOn' = TRUE /\ armed' = r
      /\ \/ wake' = wake /\ rung' = NeverRung
         \/ /\ SameWhere(compare.lower, alarm.lower, count.lower)
            /\ SameWhere(compare.upper, alarm.upper, count.upper)
            /\ wake' = TRUE /\ rung' = count
      /\ UNCHANGED <<running, stopping, mode, alarm, compare, load, upload, count,
                     updated, m3en, calls, got, started>>
  BY DEF AlarmOnWrite, Ring, r
<1>4. TypeOK'
  BY <1>1, <1>3 DEF IInv, TypeOK
<1>5. s # <<>> /\ s[1] = Made1 /\ todo'.thread = Tail(s) /\ Len(s) = Len(Tail(s)) + 1 /\ Len(Tail(s)) \in Nat
  BY <1>1, PendingTail DEF Advances, Made1
<1>6. 1 = Len(s) /\ WillLook(Pending(s), alarm, compare, r)
  <2>1. 1 \in 1..Len(s) /\ s[1].kind = "ALARM_ON"
    BY <1>1, <1>5
  <2> QED  BY <1>1, <1>5, <2>1 DEF IInv, Setting, Pledged
<1>7. Tail(s) = <<>> /\ Pending(s) = {Made1}
  <2>1. Len(Tail(s)) = 0
    BY <1>5, <1>6
  <2>2. Tail(s) = <<>>
    BY <1>1, <1>5, <2>1
  <2> QED  BY <1>1, <1>5, <2>2, PendingTail DEF Made1
<1>8. Looks(alarm, compare, r)
  BY <1>1, <1>6, <1>7 DEF WillLook, Writes, Looks
<1>9. Armed' /\ RingsAsAsked'
  <2>1. rung' # NeverRung => AsAsked(r, rung')
    <3>1. count \in [Halves -> Words]
      BY DEF IInv, TypeOK
    <3> QED  BY <1>2, <1>3, <1>8, <3>1, FindsWhatIsAsked
  <2> QED  BY <1>2, <1>3, <1>8, <2>1 DEF Armed, RingsAsAsked
<1>10. Setting'
  <2>1. Proper(todo'.thread)
    BY <1>5, <1>7, EmptyProper
  <2> QED  BY <2>1 DEF Proper, Setting
<1>11. Awaited'
  BY <1>1, <1>3, AwaitedKept DEF IInv
<1>12. Reading'
  BY <1>1, <1>3, ReadingKept DEF IInv
<1> QED  BY <1>4, <1>9, <1>10, <1>11, <1>12 DEF IInv

LEMMA RegisterKeeps ==
  ASSUME IInv, RegisterWrite  PROVE IInv'
<1> DEFINE v == Value("thread")
           kinds == {"MODE", "ALARM", "COMPARE", "COUNT", "M3_EN"}
<1>1. PICK k \in kinds : At("thread", k)
  BY DEF RegisterWrite
<1>2. /\ Advances /\ Made1.kind = k /\ Made1.value = v /\ Made1 \in AccessSet
      /\ todo.thread \in Seq(AccessSet) /\ todo'.thread \in Seq(AccessSet)
      /\ todo'.handler = todo.handler /\ DOMAIN todo' = {"thread", "handler"}
  BY <1>1, ThreadAdvances DEF IInv, RegisterWrite
<1>3. \A x : At("thread", x) <=> x = k
  BY <1>1 DEF At
<1> HIDE DEF v
<1>4. /\ mode' = IF k = "MODE" THEN v ELSE mode
      /\ alarm' = IF k = "ALARM" THEN [alarm EXCEPT ![v.half] = v.word] ELSE alarm
      /\ compare' = IF k = "COMPARE" THEN [compare EXCEPT ![v.half] = v.word] ELSE compare
      /\ load' = IF k = "COUNT" THEN [load EXCEPT ![v.half][v.byte] = v.to] ELSE load
      /\ m3en' = (m3en \/ k = "M3_EN")
      /\ UNCHANGED <<running, stopping, alarmOn, upload, count, updated, wake, nvic,
                     calls, got, started, armed, rung>>
  BY <1>3 DEF RegisterWrite, v
<1>5. /\ k = "MODE" => v \in SUBSET Modes
      /\ k \in {"ALARM", "COMPARE"} => v.half \in Halves /\ v.word \in Words
      /\ k = "COUNT" => v.half \in Halves /\ v.byte \in 1..4 /\ v.to \in Nat
  BY <1>2, AccessTyped DEF HalfWords
<1>6. /\ alarm \in [Halves -> Words] /\ compare \in [Halves -> Words] /\ load \in [Halves -> Words]
      /\ mode \subseteq Modes /\ m3en \in BOOLEAN
  BY DEF IInv, TypeOK
<1>7. /\ alarm' \in [Halves -> Words] /\ compare' \in [Halves -> Words]
      /\ Takes(Made1, "ALARM", alarm, alarm') /\ Takes(Made1, "COMPARE", compare, compare')
  BY <1>2, <1>4, <1>5, <1>6 DEF Takes
<1>8. load' \in [Halves -> Words]
  <2>1. ASSUME NEW h \in Halves, NEW b \in 1..4, NEW n \in Nat
        PROVE  [load EXCEPT ![h][b] = n] \in [Halves -> Words]
    BY <1>6 DEF Words
  <2> QED  BY <1>4, <1>5, <1>6, <2>1
<1>9. mode' \subseteq Modes /\ m3en' \in BOOLEAN
  BY <1>4, <1>5, <1>6
<1>10. TypeOK'
  BY <1>2, <1>4, <1>7, <1>8, <1>9 DEF IInv, TypeOK
<1>11. Setting'
  <2>1. Made1 # Off
    BY <1>2 DEF Off, Access
  <2> QED  BY <1>2, <1>4, <1>7, <2>1, SettingKept DEF IInv
<1>12. Awaited' /\ Reading'
  BY <1>2, <1>4, AwaitedKept, ReadingKept DEF IInv
<1>13. Armed' /\ RingsAsAsked'
  <2>1. alarmOn => alarm' = alarm /\ compare' = compare
    <3>1. alarmOn => ~Touches(Made1)
      BY <1>2, TailOffFirst DEF IInv, Setting, Advances, Made1
    <3> QED  BY <1>2, <1>4, <3>1 DEF Touches
  <2> QED  BY <1>4, <2>1 DEF IInv, Armed, RingsAsAsked
<1> QED  BY <1>10, <1>11, <1>12, <1>13 DEF IInv

LEMMA SetModeKeeps ==
  ASSUME IInv, SetMode  PROVE IInv'
<1> DEFINE m == Value("thread")
           b == SetModeAccesses(m)
           t == Tail(todo.thread)
<1>1. /\ todo.thread \in Seq(AccessSet) /\ todo.thread # <<>> /\ DOMAIN todo = {"thread", "handler"}
      /\ Made1.kind = "SET_MODE" /\ Made1.value = m
      /\ todo' = [todo EXCEPT !["thread"] = b \o Tail(@)]
      /\ UNCHANGED <<running, stopping, mode, alarmOn, alarm, compare, load, upload, count,
                     updated, wake, m3en, nvic, calls, got, started, armed, rung>>
  BY DEF IInv, TypeOK, SetMode, At, Made1, Value
<1>2. /\ Made1 \in AccessSet /\ t \in Seq(AccessSet) /\ Made1 \in Pending(todo.thread)
      /\ Pending(todo.thread) = {Made1} \cup Pending(t)
      /\ t # <<>> => Last(t) = Last(todo.thread)
      /\ t = <<>> => Last(todo.thread) = Made1
  BY <1>1, PendingTail DEF Made1
<1>3. todo'.thread = b \o t /\ todo'.handler = todo.handler /\ DOMAIN todo' = {"thread", "handler"}
  BY <1>1
<1>4. m \in SUBSET Modes
  BY <1>1, <1>2, AccessTyped
<1>5. b \in Seq(AccessSet) /\ Plain(Pending(b))
  <2> HIDE DEF m
  <2>1. \A k, x : Access(k, x).kind = k /\ Access(k, x).value = x
    BY DEF Access
  <2>2. Made(WriteMode(m), {Access("MODE", m)})
    BY <1>4, Pieces
  <2>3. Made(MSS_RTC_start, {Access("CONTROL", "START")})
    BY Pieces DEF Commands, MSS_RTC_start
  <2>4. Made(MSS_RTC_stop \o WriteMode(m) \o MSS_RTC_start,
             ({Access("CONTROL", "STOP"), Access("WAIT_STOPPED", 0)} \cup {Access("MODE", m)})
               \cup {Access("CONTROL", "START")})
    BY <2>2, <2>3, StopMade, MadeCat
  <2>5. Made(<<>>, {})
    BY PendingNone DEF Made
  <2>6. /\ Plain({}) /\ Plain({Access("MODE", m)})
        /\ Plain(({Access("CONTROL", "STOP"), Access("WAIT_STOPPED", 0)} \cup {Access("MODE", m)})
               \cup {Access("CONTROL", "START")})
    BY <2>1 DEF Plain, Uploads
  <2> QED  BY <2>2, <2>4, <2>5, <2>6 DEF SetModeAccesses, Made
<1>6. ~Has(todo.thread, "READ") /\ ~Has(t, "READ")
  BY <1>1, <1>2 DEF IInv, Reading, ReadsAtEnd, Has
<1> HIDE DEF b, t
<1>7. TypeOK'
  <2>1. todo'.thread \in Seq(AccessSet)
    BY <1>2, <1>3, <1>5, <1>6, InFront
  <2> QED  BY <1>1, <1>3, <2>1 DEF IInv, TypeOK
<1>8. Setting'
  <2>1. alarmOn => OffFirst(t)
    <3>1. Made1 # Off
      BY <1>1 DEF Off, Access
    <3> QED  BY <1>1, <3>1, TailOffFirst DEF IInv, Setting, Made1, t
  <2>2. Pledged(t, alarm, compare)
    <3>1. Takes(Made1, "ALARM", alarm, alarm) /\ Takes(Made1, "COMPARE", compare, compare)
      BY <1>1 DEF Takes
    <3> QED  BY <1>1, <3>1, TailPledged DEF IInv, Setting, Made1, t
  <2>3. /\ alarmOn => OffFirst(b \o t)
        /\ Pledged(b \o t, alarm, compare)
    BY <1>2, <1>5, <1>6, <2>1, <2>2, InFront
  <2> QED  BY <1>1, <1>3, <2>3 DEF Setting
<1>9. Armed' /\ RingsAsAsked'
  BY <1>1 DEF IInv, Armed, RingsAsAsked
<1>10. Awaited'
  <2>1. WaitsAtEnd(t)
    BY <1>1, TailEnds DEF IInv, Awaited, t
  <2>2. WaitsAtEnd(b \o t)
    BY <1>2, <1>5, <1>6, <2>1, InFront
  <2>3. upload # NoUpload => b \o t # <<>> /\ Last(b \o t).kind = "WAIT_UPLOAD"
    <3> SUFFICES ASSUME upload # NoUpload  PROVE b \o t # <<>> /\ Last(b \o t).kind = "WAIT_UPLOAD"
      OBVIOUS
    <3>1. Last(todo.thread).kind = "WAIT_UPLOAD"
      BY DEF IInv, Awaited
    <3>2. t # <<>> /\ Last(t).kind = "WAIT_UPLOAD"
      BY <1>1, <1>2, <3>1
    <3> QED  BY <1>2, <1>5, <3>2, PendingCat
  <2> QED  BY <1>1, <1>3, <2>2, <2>3 DEF Awaited
<1>11. Reading'
  <2>1. Pending(b \o t) = Pending(b) \cup Pending(t) /\ ~Has(b \o t, "READ")
    BY <1>2, <1>5, <1>6, InFront
  <2>2. got["upper"][1] # -1 => Covers(todo.thread, got)
    BY DEF IInv, Reading
  <2>3. Covers(todo.thread, got) => Covers(b \o t, got)
    BY <1>6 DEF Covers, Reads, Has
  <2>4. ASSUME NEW h \in Halves, NEW k \in 1..4, got[h][k] # -1
        PROVE  /\ upload = NoUpload /\ \A a \in Pending(b \o t) : ~Uploads(a)
               /\ ~updated => got[h][k] = count[h][k]
    <3>1. /\ upload = NoUpload /\ \A a \in Pending(todo.thread) : ~Uploads(a)
          /\ ~updated => got[h][k] = count[h][k]
      BY <2>4 DEF IInv, Reading
    <3> QED  BY <1>2, <1>5, <2>1, <3>1 DEF Plain
  <2>5. ReadsAtEnd(b \o t)
    BY <2>1 DEF ReadsAtEnd
  <2> QED  BY <1>1, <1>3, <2>1, <2>2, <2>3, <2>4, <2>5 DEF Reading
<1> QED  BY <1>7, <1>8, <1>9, <1>10, <1>11 DEF IInv

LEMMA NvicKeeps ==
  ASSUME IInv, NvicWrite  PROVE IInv'
<1>1. /\ Advances /\ Made1.kind = "NVIC" /\ Made1 \in AccessSet
      /\ todo.thread \in Seq(AccessSet) /\ todo'.thread \in Seq(AccessSet)
      /\ todo'.handler = todo.handler /\ DOMAIN todo' = {"thread", "handler"}
  BY ThreadAdvances DEF IInv, NvicWrite
<1>2. UNCHANGED <<running, stopping, mode, alarmOn, alarm, compare, load, upload,
                  count, updated, wake, m3en, calls, got, started, armed, rung>>
  BY DEF NvicWrite
<1>3. TypeOK'
  BY <1>1, <1>2 DEF IInv, TypeOK
<1>4. Made1 # Off
  BY <1>1 DEF Off, Access
<1>5. Takes(Made1, "ALARM", alarm, alarm') /\ Takes(Made1, "COMPARE", compare, compare')
  BY <1>1, <1>2 DEF Takes
<1>6. Setting'
  BY <1>1, <1>2, <1>4, <1>5, SettingKept DEF IInv
<1>7. Awaited' /\ Reading'
  BY <1>1, <1>2, AwaitedKept, ReadingKept DEF IInv
<1>8. Armed' /\ RingsAsAsked'
  BY <1>2 DEF IInv, Armed, RingsAsAsked
<1> QED  BY <1>3, <1>6, <1>7, <1>8 DEF IInv

LEMMA WaitKeeps ==
  ASSUME IInv, Wait  PROVE IInv'
<1>1. PICK k \in {"WAIT_STOPPED", "WAIT_UPLOAD"} :
        At("thread", k) /\ (k = "WAIT_UPLOAD" => upload = NoUpload)
  BY DEF Wait
<1>2. /\ Advances /\ Made1.kind = k /\ Made1 \in AccessSet
      /\ todo.thread \in Seq(AccessSet) /\ todo'.thread \in Seq(AccessSet)
      /\ todo'.handler = todo.handler /\ DOMAIN todo' = {"thread", "handler"}
  BY <1>1, ThreadAdvances DEF IInv, Wait
<1>3. UNCHANGED <<running, stopping, mode, alarmOn, alarm, compare, load, upload,
                  count, updated, wake, m3en, nvic, calls, got, started, armed, rung>>
  BY DEF Wait
<1>4. TypeOK'
  BY <1>2, <1>3 DEF IInv, TypeOK
<1>5. Made1 # Off
  BY <1>2 DEF Off, Access
<1>6. Takes(Made1, "ALARM", alarm, alarm') /\ Takes(Made1, "COMPARE", compare, compare')
  BY <1>2, <1>3 DEF Takes
<1>7. Setting'
  BY <1>2, <1>3, <1>5, <1>6, SettingKept DEF IInv
<1>8. Awaited' /\ Reading'
  BY <1>1, <1>2, <1>3, AwaitedKept, ReadingKept DEF IInv
<1>9. Armed' /\ RingsAsAsked'
  BY <1>3 DEF IInv, Armed, RingsAsAsked
<1> QED  BY <1>4, <1>7, <1>8, <1>9 DEF IInv

LEMMA ReadKeeps ==
  ASSUME IInv, Read  PROVE IInv'
<1> DEFINE v == Value("thread")
           s == todo.thread
           t == Tail(s)
<1>1. /\ Advances /\ Made1.kind = "READ" /\ Made1.value = v /\ Made1 \in AccessSet
      /\ s \in Seq(AccessSet) /\ todo'.thread \in Seq(AccessSet)
      /\ todo'.handler = todo.handler /\ DOMAIN todo' = {"thread", "handler"}
  BY ThreadAdvances DEF IInv, Read
<1>2. v.half \in Halves /\ v.bytes \subseteq 1..4
  <2>1. v \in [half : Halves, bytes : SUBSET (1..4)]
    BY <1>1, AccessTyped
  <2> HIDE DEF v
  <2> QED  BY <2>1
<1> HIDE DEF v
<1>3. /\ got' = [got EXCEPT ![v.half] = [k \in 1..4 |->
                   IF k \in v.bytes THEN count[v.half][k] ELSE got[v.half][k]]]
      /\ UNCHANGED <<running, stopping, mode, alarmOn, alarm, compare, load, upload,
                     count, updated, wake, m3en, nvic, calls, started, armed, rung>>
  BY DEF Read, v
<1>4. got \in [Halves -> [1..4 -> Nat \cup {-1}]] /\ count \in [Halves -> Words]
  BY DEF IInv, TypeOK
<1>5. \A h \in Halves, k \in 1..4 :
         /\ Reads(Made1, h, k) => got'[h][k] = count[h][k]
         /\ ~Reads(Made1, h, k) => got'[h][k] = got[h][k]
  BY <1>1, <1>2, <1>3, <1>4 DEF Reads
<1>6. \A h \in Halves, k \in 1..4 : count[h][k] \in Nat /\ count[h][k] # -1
  BY <1>4 DEF Words
<1>7. got' \in [Halves -> [1..4 -> Nat \cup {-1}]]
  <2>1. [k \in 1..4 |-> IF k \in v.bytes THEN count[v.half][k] ELSE got[v.half][k]]
          \in [1..4 -> Nat \cup {-1}]
    BY <1>2, <1>4, <1>6
  <2> QED  BY <1>3, <1>4, <2>1
<1>8. TypeOK'
  BY <1>1, <1>3, <1>7 DEF IInv, TypeOK
<1>9. Setting'
  <2>1. Made1 # Off
    BY <1>1 DEF Off, Access
  <2>2. Takes(Made1, "ALARM", alarm, alarm') /\ Takes(Made1, "COMPARE", compare, compare')
    BY <1>1, <1>3 DEF Takes
  <2> QED  BY <1>1, <1>3, <2>1, <2>2, SettingKept DEF IInv
<1>10. Awaited'
  BY <1>1, <1>3, AwaitedKept DEF IInv
<1>11. Armed' /\ RingsAsAsked'
  BY <1>3 DEF IInv, Armed, RingsAsAsked
<1>12. /\ s # <<>> /\ todo'.thread = t /\ Made1 \in Pending(s) /\ Last(s) \in Pending(s)
       /\ Pending(s) = {Made1} \cup Pending(t) /\ Pending(t) \subseteq Pending(s)
       /\ t # <<>> => Last(t) = Last(s)
       /\ t = <<>> => Last(s) = Made1
  BY <1>1, PendingTail, LastIsPending DEF Advances, Made1
<1>13. /\ Has(s, "READ") /\ Reads(Last(s), "upper", 1) /\ UpperLast(s)
       /\ \A a \in Pending(s) : a.kind = "READ"
       /\ got["upper"][1] = -1 /\ Covers(s, got)
  <2>1. Has(s, "READ")
    BY <1>1, <1>12 DEF Has
  <2> QED  BY <2>1 DEF IInv, Reading, ReadsAtEnd
<1>14. upload = NoUpload /\ \A a \in Pending(s) : ~Uploads(a)
  <2>1. Last(s).kind = "READ"
    BY <1>12, <1>13
  <2> QED  BY <1>13, <2>1 DEF IInv, Awaited, Uploads, Access
<1>15. ReadsAtEnd(t)
  BY <1>1, <1>12, TailEnds DEF IInv, Reading
<1>16. Has(t, "READ") => got'["upper"][1] = -1
  <2> SUFFICES ASSUME Has(t, "READ")  PROVE ~Reads(Made1, "upper", 1)
    BY <1>5, <1>13 DEF Halves
  <2>1. /\ Len(s) = Len(t) + 1 /\ Len(t) \in Nat /\ Made1 = s[1]
    BY <1>1, <1>12, PendingTail DEF Made1
  <2>2. Len(t) # 0
    <3>1. PICK i \in 1..Len(t) : TRUE
      BY DEF Has, Pending
    <3> HIDE DEF t, s
    <3>2. Len(t) \in Nat
      BY <2>1
    <3> QED  BY <3>1, <3>2
  <2>3. 1 \in 1..Len(s) /\ 1 # Len(s)
    <3> HIDE DEF t, s
    <3> QED  BY <2>1, <2>2
  <2> QED  BY <1>13, <2>1, <2>3 DEF UpperLast
<1>17. Covers(t, got')
  <2> SUFFICES ASSUME NEW h \in Halves, NEW k \in 1..4, got'[h][k] = -1
               PROVE  \E a \in Pending(t) : Reads(a, h, k)
    BY DEF Covers
  <2>1. ~Reads(Made1, h, k) /\ got[h][k] = -1
    BY <1>5, <1>6
  <2>2. PICK a \in Pending(s) : Reads(a, h, k)
    BY <1>13, <2>1 DEF Covers
  <2> QED  BY <1>12, <2>1, <2>2
<1>18. ASSUME NEW h \in Halves, NEW k \in 1..4, got'[h][k] # -1
       PROVE  /\ upload' = NoUpload /\ \A a \in Pending(t) : ~Uploads(a)
              /\ ~updated' => got'[h][k] = count'[h][k]
  <2>1. ~updated => got'[h][k] = count[h][k]
    <3>1. CASE Reads(Made1, h, k)
      BY <1>5, <3>1
    <3>2. CASE ~Reads(Made1, h, k)
      BY <1>5, <1>18, <3>2 DEF IInv, Reading
    <3> QED  BY <3>1, <3>2
  <2> QED  BY <1>3, <1>12, <1>14, <2>1
<1>19. Reading'
  <2> HIDE DEF t
  <2> QED  BY <1>12, <1>15, <1>16, <1>17, <1>18 DEF Reading
<1> QED  BY <1>8, <1>9, <1>10, <1>11, <1>19 DEF IInv

-----------------------------------------------------------------------------
(* The handler. *)

LEMMA EntryKeeps ==
  ASSUME IInv, HandlerEntry  PROVE IInv'
<1>1. UNCHANGED <<running, stopping, mode, alarmOn, alarm, compare, load, upload,
                  count, updated, wake, m3en, calls, got, started, armed, rung>>
  BY DEF HandlerEntry
<1>2. /\ todo'.thread = todo.thread /\ DOMAIN todo' = {"thread", "handler"}
      /\ todo'.handler = <<Access("CONTROL", "WAKEUP_CLR"), Access("RETURN", 0)>>
  <2> DEFINE clr == Access("CONTROL", "WAKEUP_CLR")
             ret == Access("RETURN", 0)
             both == MSS_RTC_clear_irq \o <<ret>>
  <2>1. both = <<clr>> \o <<ret>>
    BY DEF MSS_RTC_clear_irq, Control
  <2>2. both = <<clr, ret>>
    <3> HIDE DEF both, clr, ret
    <3> DEFINE S == {clr, ret}
    <3>1. <<clr>> \in Seq(S) /\ <<ret>> \in Seq(S) /\ <<clr, ret>> \in Seq(S)
          /\ Len(<<clr>>) = 1 /\ Len(<<ret>>) = 1 /\ Len(<<clr, ret>>) = 2
          /\ <<clr>> \o <<ret>> \in Seq(S) /\ Len(<<clr>> \o <<ret>>) = 2
          /\ (<<clr>> \o <<ret>>)[1] = clr /\ (<<clr>> \o <<ret>>)[2] = ret
          /\ <<clr, ret>>[1] = clr /\ <<clr, ret>>[2] = ret
      OBVIOUS
    <3> HIDE DEF S
    <3> DEFINE s == <<clr>> \o <<ret>>
               t == <<clr, ret>>
    <3>2. <<clr>> \o <<ret>> = <<clr, ret>>
      <4> SUFFICES s = t
        OBVIOUS
      <4>1. s \in Seq(S) /\ t \in Seq(S) /\ Len(s) = Len(t) /\ \A i \in 1..Len(s) : s[i] = t[i]
        BY <3>1
      <4> HIDE DEF s, t
      <4> QED  BY <4>1, SeqEqual
    <3> QED  BY <2>1, <3>2
  <2>3. /\ DOMAIN todo = {"thread", "handler"} /\ todo' = [todo EXCEPT !["handler"] = both]
    BY DEF HandlerEntry, IInv, TypeOK
  <2> HIDE DEF both
  <2> QED  BY <2>2, <2>3
<1>3. TypeOK'
  BY <1>1, <1>2 DEF IInv, TypeOK, HandlerCalls
<1>4. Setting' /\ Awaited' /\ Reading'
  BY <1>1, <1>2, SameSetting, SameAwaited, SameReading DEF IInv
<1>5. Armed' /\ RingsAsAsked'
  BY <1>1 DEF IInv, Armed, RingsAsAsked
<1> QED  BY <1>3, <1>4, <1>5 DEF IInv

LEMMA ReturnKeeps ==
  ASSUME IInv, HandlerReturn  PROVE IInv'
<1>1. UNCHANGED <<running, stopping, mode, alarmOn, alarm, compare, load, upload,
                  count, updated, wake, m3en, calls, got, started, armed, rung>>
  BY DEF HandlerReturn
<1>2. /\ todo'.thread = todo.thread /\ DOMAIN todo' = {"thread", "handler"}
      /\ todo'.handler \in HandlerCalls
  BY HandlerAdvances DEF IInv, HandlerReturn
<1>3. TypeOK'
  BY <1>1, <1>2 DEF IInv, TypeOK
<1>4. Setting' /\ Awaited' /\ Reading'
  BY <1>1, <1>2, SameSetting, SameAwaited, SameReading DEF IInv
<1>5. Armed' /\ RingsAsAsked'
  BY <1>1 DEF IInv, Armed, RingsAsAsked
<1> QED  BY <1>3, <1>4, <1>5 DEF IInv

-----------------------------------------------------------------------------
(* The application. *)

LEMMA CallKeeps ==
  ASSUME IInv, NEW accesses, Proper(accesses), NEW start, Call(accesses, start)  PROVE IInv'
<1>1. /\ todo.thread = <<>> /\ got' = NotRead
      /\ todo' = [todo EXCEPT !["thread"] = accesses]
      /\ UNCHANGED <<running, stopping, mode, alarmOn, alarm, compare, load, upload,
                     count, updated, wake, m3en, nvic, armed, rung>>
  BY DEF Call
<1>2. /\ todo'.thread = accesses /\ todo'.handler = todo.handler
      /\ DOMAIN todo' = {"thread", "handler"}
  BY <1>1 DEF IInv, TypeOK
<1>3. NotRead \in [Halves -> [1..4 -> Nat \cup {-1}]]
  BY DEF NotRead, Halves
<1>4. TypeOK'
  BY <1>1, <1>2, <1>3 DEF IInv, TypeOK, Proper
<1>5. Setting'
  BY <1>1, <1>2 DEF Setting, Proper
<1>6. Awaited'
  BY <1>1, <1>2 DEF IInv, Awaited, Proper
<1>7. Reading'
  BY <1>1, <1>2, ReadingForgotten DEF Proper
<1>8. Armed' /\ RingsAsAsked'
  BY <1>1 DEF IInv, Armed, RingsAsAsked
<1> QED  BY <1>4, <1>5, <1>6, <1>7, <1>8 DEF IInv

LEMMA AppKeeps ==
  ASSUME IInv, App  PROVE IInv'
<1>1. CASE CallInit
  BY <1>1, CallKeeps, InitProper DEF CallInit
<1>2. CASE CallStart \/ CallStop \/ CallIrq
  BY <1>2, CallKeeps, ControlCallsProper DEF CallStart, CallStop, CallIrq
<1>3. CASE CallSet
  BY <1>3, CallKeeps, SetCountProper, ResetProper DEF CallSet
<1>4. CASE CallAlarm
  BY <1>4, CallKeeps, AlarmProper DEF CallAlarm
<1>5. CASE CallRead
  BY <1>5, CallKeeps, ControlCallsProper, GetProper DEF CallRead
<1> QED  BY <1>1, <1>2, <1>3, <1>4, <1>5 DEF App

-----------------------------------------------------------------------------

(* The types, what a call still has to do before the alarm is turned on or  *)
(* an upload is over, and what the registers hold for the request in force, *)
(* at every moment of every call (all of mss_rtc.c).                        *)
THEOREM RtcInvariant == Spec => []IInv
<1>1. ASSUME IInv, [Next]_vars  PROVE IInv'
  <2>1. CASE Hardware
    BY <1>1, <2>1, TickKeeps, StoppedKeeps, UploadedKeeps DEF Hardware
  <2>2. CASE Thread
    BY <1>1, <2>2, ThreadControlKeeps, AlarmOnKeeps, RegisterKeeps, SetModeKeeps, NvicKeeps,
       WaitKeeps, ReadKeeps DEF Thread
  <2>3. CASE Handler
    BY <1>1, <2>3, EntryKeeps, HandlerControlKeeps, ReturnKeeps DEF Handler
  <2>4. CASE App
    BY <1>1, <2>4, AppKeeps
  <2>5. CASE UNCHANGED vars
    BY <1>1, <2>5 DEF vars, IInv, TypeOK, Setting, Armed, RingsAsAsked, Awaited, Reading
  <2> QED  BY <1>1, <2>1, <2>2, <2>3, <2>4, <2>5 DEF Next
<1> QED  BY <1>1, InitKeeps, PTL DEF Spec

(* The alarm rings only at a count that has every field that was asked for, *)
(* in the request in force: set_calendar_count_alarm and                    *)
(* set_binary_count_alarm turn the alarm off, write the registers and only  *)
(* then turn it on, and no other call writes them.                          *)
THEOREM RingsAsAskedAlways == Spec => []RingsAsAsked
<1>1. IInv => RingsAsAsked
  BY DEF IInv
<1> QED  BY <1>1, RtcInvariant, PTL

LEMMA Extensional ==
  ASSUME NEW f \in [Halves -> [1..4 -> Nat \cup {-1}]], NEW g \in [Halves -> Words],
         \A h \in Halves, k \in 1..4 : f[h][k] = g[h][k]
  PROVE  f = g
<1>1. ASSUME NEW h \in Halves  PROVE f[h] = g[h]
  BY DEF Words
<1> QED  BY <1>1

(* A count that was read with the update flag clear is the count there is:  *)
(* the uploads that the application asked for are over, and no increment    *)
(* came between the bytes (MSS_RTC_get_calendar_count and                   *)
(* MSS_RTC_get_binary_count of mss_rtc.c).                                  *)
THEOREM WholeReadAlways == Spec => []WholeRead
<1>1. IInv => WholeRead
  <2> SUFFICES ASSUME IInv, got.lower[4] >= 0, got.upper[1] >= 0, ~updated  PROVE got = count
    BY DEF WholeRead, MSS_RTC_get_update_flag
  <2>1. got \in [Halves -> [1..4 -> Nat \cup {-1}]] /\ count \in [Halves -> Words]
    BY DEF IInv, TypeOK
  <2>2. got["upper"][1] # -1
    OBVIOUS
  <2>3. ~Has(todo.thread, "READ") /\ Covers(todo.thread, got)
    BY <2>2 DEF IInv, Reading
  <2>4. \A h \in Halves, k \in 1..4 : got[h][k] # -1
    BY <2>3 DEF Covers, Has, Reads
  <2>5. \A h \in Halves, k \in 1..4 : got[h][k] = count[h][k]
    BY <2>4 DEF IInv, Reading
  <2> QED  BY <2>1, <2>5, Extensional
<1> QED  BY <1>1, RtcInvariant, PTL

=============================================================================
