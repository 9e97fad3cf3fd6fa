------------------------- MODULE SysServicesProofs -------------------------
(***************************************************************************)
(* Theorems about SysServices: the System Controller gets the commands     *)
(* that services send, a service returns what the controller answered, and *)
(* nothing is written to a buffer that is no longer there.  For every set  *)
(* of services, every FIFO and page, and messages at any time.             *)
(***************************************************************************)
EXTENDS SysServices, Integers, TLAPS

Cell  == {"start", "ptr", "byte", "page"} \X Nat
Datum == [cmd : BOOLEAN, byte : Nat]

TypeOK ==
  /\ state \in {"IDLE", "TX_CMD", "TX_PAGED_DATA", "WAIT_RESPONSE", "RX_RESPONSE"}
  /\ cmd_opcode \in Nat /\ p_cmd \in Nat /\ cmd_size \in Nat /\ data_size \in Nat
  /\ p_response \in Buffers /\ response_size \in Nat /\ response_idx \in Nat
  /\ completion_handler \in {"none", "request", "isp"} /\ request_in_progress \in BOOLEAN
  /\ INT_ENABLE \in SUBSET {"TXTOKAY", "RCVOKAY"} /\ isr \in {"out", "tx"}
  /\ mem \in [Buffers -> [0 .. 5 -> Nat]]
  /\ txf \in Seq(Cell) /\ depth \in Nat /\ Len(txf) <= depth
  /\ rxf \in Seq(Datum) /\ reply \in Seq(Datum) /\ frame \in Seq(Cell)
  /\ pc \in {"idle", "start", "send", "wait"} /\ svc \in Services
  /\ busy \in BOOLEAN /\ ispDone \in BOOLEAN /\ pages \in Nat
  /\ last_response_length \in Nat

-----------------------------------------------------------------------------
(* What is on its way to the controller: what it has of the frame and what *)
(* is in the FIFO, one behind the other.                                   *)
Total   == Len(frame) + Len(txf)
Item(i) == IF i <= Len(frame) THEN frame[i] ELSE txf[i - Len(frame)]

Expected(s, i) ==
  CASE i = 1 -> <<"start", s.op>>
    [] i > 1 /\ s.how = "ptr" -> <<"ptr", 0>>
    [] i > 1 /\ s.how # "ptr" /\ i <= s.size -> <<"byte", i - 1>>
    [] OTHER -> <<"page", 0>>

(* The command of s, as far as it has been sent, with pages behind it. *)
Commanded(s) ==
  /\ \A i \in 1 .. Total : Item(i) = Expected(s, i)
  /\ Len(frame) <= Items(s)
  /\ state = "TX_CMD" => /\ s.how # "ptr" /\ p_cmd >= 1 /\ cmd_size >= 1
                         /\ Total = p_cmd /\ p_cmd + cmd_size = s.size
  /\ state # "TX_CMD" => Total >= Items(s) /\ (s.how # "paged" => Total = Items(s))

(* It has been answered: pages are left at most. *)
Taken(s) ==
  /\ frame = << >> /\ state # "TX_CMD"
  /\ \A i \in 1 .. Len(txf) : txf[i] = <<"page", 0>>
  /\ s.how # "paged" => txf = << >>

-----------------------------------------------------------------------------
(* What is on its way to the driver. *)
Incoming  == Len(rxf) + Len(reply)
Coming(i) == IF i <= Len(rxf) THEN rxf[i] ELSE reply[i - Len(rxf)]

IsMessage(i) == Coming(i).cmd => Coming(i).byte \in Tampers
NoOpcode     == \A i \in 1 .. Incoming : IsMessage(i)

(* The answer to s is on its way, its status behind its opcode and nothing *)
(* but messages between them.                                              *)
StatusAt(i, j) == /\ j \in i + 1 .. Incoming /\ ~Coming(j).cmd /\ Coming(j).byte = answered
                  /\ \A h \in i + 1 .. j - 1 : Coming(h).cmd
OpcodeAt(s, i) == /\ i \in 1 .. Incoming /\ Coming(i) = [cmd |-> TRUE, byte |-> s.op]
                  /\ \A h \in 1 .. Incoming : h # i => IsMessage(h)

Stored(s) == mem["stack"][0] = s.op

(* Where the answer to s is: not given, on its way, or its opcode and then *)
(* its status are in the buffer of the service.                            *)
Unanswered(s) == Commanded(s) /\ NoOpcode /\ state \in {"TX_CMD", "WAIT_RESPONSE"}
OnItsWay(s)   == /\ Taken(s) /\ state = "WAIT_RESPONSE"
                 /\ \E i, j \in 1 .. Incoming : OpcodeAt(s, i) /\ StatusAt(i, j)
OpcodeHere(s) == /\ Taken(s) /\ state = "RX_RESPONSE" /\ response_idx = 1 /\ Stored(s)
                 /\ NoOpcode /\ \E j \in 1 .. Incoming : StatusAt(0, j)
StatusHere(s) == /\ Taken(s) /\ state \in {"RX_RESPONSE", "IDLE"} /\ response_idx >= 2
                 /\ Stored(s) /\ mem["stack"][1] = answered /\ NoOpcode

-----------------------------------------------------------------------------
(* Where foreground, driver and controller are together. *)
AtRest == ~request_in_progress /\ completion_handler = "none"
            /\ frame = << >> /\ txf = << >>

(* The message of the digest check at power-up, until it has been read. *)
PowerUp ==
  /\ pc = "idle" /\ ~busy /\ p_response = "g_response" /\ AtRest /\ reply = << >>
  /\ \/ /\ state = "IDLE" /\ Len(rxf) >= 2
        /\ rxf[1] = [cmd |-> TRUE, byte |-> POR] /\ ~rxf[2].cmd
        /\ \A i \in 3 .. Len(rxf) : IsMessage(i)
     \/ /\ state = "RX_RESPONSE" /\ response_idx = 1 /\ mem["g_response"][0] = POR
        /\ NoOpcode

(* No request is under way. *)
Resting == /\ ~busy \/ pc = "send"
           /\ AtRest /\ NoOpcode /\ state = "IDLE" /\ p_response # "g_isp_response"

(* A service waits for its response. *)
Waiting(s) == /\ busy /\ pc = "wait" /\ svc = s /\ s.how # "paged"
              /\ request_in_progress /\ completion_handler = "request"
              /\ p_response = "stack" /\ cmd_opcode = s.op /\ response_size = s.length
Serving    == \E s \in Services :
                /\ Waiting(s)
                /\ Unanswered(s) \/ OnItsWay(s) \/ OpcodeHere(s) \/ StatusHere(s)

(* ISP is under way, or was; the driver takes no other request then. *)
Programming ==
  /\ busy /\ pc \in {"idle", "start"} /\ p_response = "g_isp_response"
  /\ completion_handler = IF ispDone THEN "none" ELSE "isp"
  /\ state # "IDLE" => ~ispDone
  /\ state = "TX_CMD" => request_in_progress
  /\ \A i \in 1 .. Incoming : Coming(i).cmd => Coming(i).byte # POR
  /\ \E s \in Services : s.how = "paged" /\ (Commanded(s) \/ Taken(s))

Turns ==
  /\ PowerUp \/ Resting \/ Serving \/ Programming
  /\ ~Programming => ispDone /\ "TXTOKAY" \notin INT_ENABLE
  /\ isr = "tx" => Programming
  /\ pc = "send" => busy
  /\ pc = "wait" /\ ~busy =>
       mem["stack"][0] = svc.op /\ mem["stack"][1] = answered /\ last_response_length = svc.length

IInv == TypeOK /\ Turns

-----------------------------------------------------------------------------
(* The operators of the driver. *)

(* One item of one buffer is written. *)
LEMMA StoreItem ==
  ASSUME NEW m \in [Buffers -> [0 .. 5 -> Nat]], NEW b \in Buffers, NEW k \in Nat, NEW v \in Nat
  PROVE  LET n == [m EXCEPT ![b][k] = v]
         IN  /\ n \in [Buffers -> [0 .. 5 -> Nat]]
             /\ \A c \in Buffers : c # b => n[c] = m[c]
             /\ \A c \in Buffers, h \in 0 .. 5 : h # k => n[c][h] = m[c][h]
             /\ k \in 0 .. 5 => n[b][k] = v
<1> DEFINE n == [m EXCEPT ![b][k] = v]
<1>1. n = [c \in Buffers |-> IF c = b THEN [m[b] EXCEPT ![k] = v] ELSE m[c]]
  OBVIOUS
<1>2. [m[b] EXCEPT ![k] = v] = [h \in 0 .. 5 |-> IF h = k THEN v ELSE m[b][h]]
  OBVIOUS
<1>3. \A c \in Buffers : n[c] = IF c = b THEN [h \in 0 .. 5 |-> IF h = k THEN v ELSE m[b][h]]
                                ELSE m[c]
  BY <1>1, <1>2
<1>4. n \in [Buffers -> [0 .. 5 -> Nat]]
  BY <1>1, <1>2
<1> HIDE DEF n
<1>5. /\ \A c \in Buffers : c # b => n[c] = m[c]
      /\ \A c \in Buffers, h \in 0 .. 5 : h # k => n[c][h] = m[c][h]
      /\ k \in 0 .. 5 => n[b][k] = v
  BY <1>3
<1> QED  BY <1>4, <1>5 DEF n

(* What is put into the transmit FIFO stands behind what is there, and is  *)
(* as much as it has room for.                                             *)
LEMMA Filled ==
  ASSUME TypeOK, NEW fifo \in Seq(Cell), Len(fifo) <= depth, NEW n \in Nat,
         NEW xs \in Seq(Cell), Len(xs) = n
  PROVE  /\ Sent(fifo, n) \in 0 .. n
         /\ Fill(fifo, xs) \in Seq(Cell)
         /\ Len(Fill(fifo, xs)) = Len(fifo) + Sent(fifo, n)
         /\ Len(Fill(fifo, xs)) <= depth
         /\ \A i \in 1 .. Len(fifo) : Fill(fifo, xs)[i] = fifo[i]
         /\ \A i \in 1 .. Sent(fifo, n) : Fill(fifo, xs)[Len(fifo) + i] = xs[i]
<1> DEFINE k == Sent(fifo, n)
           ys == SubSeq(xs, 1, k)
<1>1. depth \in Nat
  BY DEF TypeOK
<1>2. k \in 0 .. n /\ Len(fifo) + k <= depth
  BY <1>1 DEF Sent, Lesser
<1>3. Fill(fifo, xs) = fifo \o ys
  BY DEF Fill, Sent
<1> HIDE DEF k
<1>4. ys \in Seq(Cell) /\ Len(ys) = k /\ \A i \in 1 .. k : ys[i] = xs[i]
  BY <1>2
<1> HIDE DEF ys
<1>5. /\ fifo \o ys \in Seq(Cell) /\ Len(fifo \o ys) = Len(fifo) + k
      /\ \A i \in 1 .. Len(fifo) : (fifo \o ys)[i] = fifo[i]
      /\ \A i \in 1 .. k : (fifo \o ys)[Len(fifo) + i] = ys[i]
  BY <1>2, <1>4
<1> QED  BY <1>2, <1>3, <1>4, <1>5 DEF k

LEMMA Bytes ==
  ASSUME NEW from \in Nat, NEW n \in Nat
  PROVE  /\ from >= 1 => CmdBytes(from, n) \in Seq(Cell)
         /\ Len(CmdBytes(from, n)) = n
         /\ \A i \in 1 .. n : CmdBytes(from, n)[i] = <<"byte", from + i - 1>>
         /\ PageBytes(n) \in Seq(Cell) /\ Len(PageBytes(n)) = n
         /\ \A i \in 1 .. n : PageBytes(n)[i] = <<"page", 0>>
<1>1. /\ \A i \in 1 .. n : CmdBytes(from, n)[i] = <<"byte", from + i - 1>>
      /\ \A i \in 1 .. n : PageBytes(n)[i] = <<"page", 0>>
      /\ Len(CmdBytes(from, n)) = n /\ Len(PageBytes(n)) = n
  BY DEF CmdBytes, PageBytes
<1>2. PageBytes(n) \in Seq(Cell)
  <2>1. \A i \in 1 .. n : <<"page", 0>> \in Cell
    BY DEF Cell
  <2> QED  BY <2>1 DEF PageBytes
<1>3. ASSUME from >= 1  PROVE CmdBytes(from, n) \in Seq(Cell)
  <2>1. \A i \in 1 .. n : from + i - 1 \in Nat
    BY <1>3
  <2>2. \A i \in 1 .. n : <<"byte", from + i - 1>> \in Cell
    BY <2>1 DEF Cell
  <2> QED  BY <2>2 DEF CmdBytes
<1> QED  BY <1>1, <1>2, <1>3

(* A command as it starts. *)
LEMMA Opening ==
  ASSUME NEW op \in Nat
  PROVE  LET fifo == send_cmd_opcode(<< >>, op)
         IN  fifo \in Seq(Cell) /\ Len(fifo) = 1 /\ fifo[1] = <<"start", op>>
<1>1. <<"start", op>> \in Cell
  BY DEF Cell
<1> QED  BY <1>1 DEF send_cmd_opcode

-----------------------------------------------------------------------------
(* How the items on their way move. *)
LEMMA Received ==
  ASSUME TypeOK, rxf # << >>, rxf' = Tail(rxf), reply' = reply
  PROVE  /\ Head(rxf) \in Datum /\ Tail(rxf) \in Seq(Datum)
         /\ Incoming \in Nat /\ Incoming >= 1 /\ Incoming' = Incoming - 1
         /\ Coming(1) = Head(rxf)
         /\ \A i \in 1 .. Incoming - 1 : Coming(i)' = Coming(i + 1)
<1>1. rxf \in Seq(Datum) /\ reply \in Seq(Datum)
  BY DEF TypeOK
<1>2. Len(rxf) \in Nat /\ Len(rxf) >= 1 /\ Len(reply) \in Nat /\ Head(rxf) = rxf[1]
  BY <1>1
<1>3. /\ Head(rxf) \in Datum /\ Tail(rxf) \in Seq(Datum) /\ Len(Tail(rxf)) = Len(rxf) - 1
      /\ \A i \in 1 .. Len(rxf) - 1 : Tail(rxf)[i] = rxf[i + 1]
  BY <1>1, <1>2
<1>4. ASSUME NEW i \in 1 .. Incoming - 1  PROVE Coming(i)' = Coming(i + 1)
  <2>1. CASE i <= Len(rxf) - 1
    BY <1>2, <1>3, <2>1 DEF Coming, Incoming
  <2>2. CASE i > Len(rxf) - 1
    <3>1. i - (Len(rxf) - 1) = (i + 1) - Len(rxf)
      BY <1>2
    <3> QED  BY <1>2, <1>3, <2>2, <3>1 DEF Coming, Incoming
  <2> QED  BY <1>2, <2>1, <2>2
<1> QED  BY <1>2, <1>3, <1>4 DEF Coming, Incoming

LEMMA Pushed ==
  ASSUME TypeOK, reply # << >>, rxf' = Append(rxf, Head(reply)), reply' = Tail(reply)
  PROVE  /\ rxf' \in Seq(Datum) /\ reply' \in Seq(Datum)
         /\ Incoming \in Nat /\ Incoming' = Incoming
         /\ \A i \in 1 .. Incoming : Coming(i)' = Coming(i)
<1>1. rxf \in Seq(Datum) /\ reply \in Seq(Datum)
  BY DEF TypeOK
<1>2. Len(rxf) \in Nat /\ Len(reply) \in Nat /\ Len(reply) >= 1 /\ Head(reply) = reply[1]
  BY <1>1
<1>3. /\ rxf' \in Seq(Datum) /\ reply' \in Seq(Datum)
      /\ Len(rxf') = Len(rxf) + 1 /\ Len(reply') = Len(reply) - 1
      /\ \A i \in 1 .. Len(rxf) : rxf'[i] = rxf[i]
      /\ rxf'[Len(rxf) + 1] = reply[1]
      /\ \A i \in 1 .. Len(reply) - 1 : reply'[i] = reply[i + 1]
  BY <1>1, <1>2
<1>4. ASSUME NEW i \in 1 .. Incoming  PROVE Coming(i)' = Coming(i)
  <2>1. CASE i <= Len(rxf)
    BY <1>2, <1>3, <2>1 DEF Coming, Incoming
  <2>2. CASE i = Len(rxf) + 1
    BY <1>2, <1>3, <2>2 DEF Coming, Incoming
  <2>3. CASE i > Len(rxf) + 1
    <3>1. i - (Len(rxf) + 1) \in 1 .. Len(reply) - 1
      BY <1>2, <2>3 DEF Incoming
    <3>2. (i - (Len(rxf) + 1)) + 1 = i - Len(rxf)
      BY <1>2
    <3> QED  BY <1>2, <1>3, <2>3, <3>1, <3>2 DEF Coming, Incoming
  <2> QED  BY <1>2, <2>1, <2>2, <2>3
<1> QED  BY <1>2, <1>3, <1>4 DEF Incoming

(* Something arrives behind what is in the FIFO, ahead of the answer. *)
LEMMA Inserted ==
  ASSUME TypeOK, NEW x \in Datum, rxf' = Append(rxf, x), reply' = reply
  PROVE  /\ rxf' \in Seq(Datum)
         /\ Incoming \in Nat /\ Incoming' = Incoming + 1 /\ Len(rxf) \in 0 .. Incoming
         /\ \A i \in 1 .. Len(rxf) : Coming(i)' = Coming(i)
         /\ \A i \in Nat : i = Len(rxf) + 1 => Coming(i)' = x
         /\ \A i \in Len(rxf) + 2 .. Incoming + 1 : Coming(i)' = Coming(i - 1)
<1>1. rxf \in Seq(Datum) /\ reply \in Seq(Datum)
  BY DEF TypeOK
<1>2. Len(rxf) \in Nat /\ Len(reply) \in Nat
  BY <1>1
<1>3. /\ rxf' \in Seq(Datum) /\ Len(rxf') = Len(rxf) + 1
      /\ \A i \in 1 .. Len(rxf) : rxf'[i] = rxf[i]
      /\ rxf'[Len(rxf) + 1] = x
  BY <1>1, <1>2
<1>4. ASSUME NEW i \in Len(rxf) + 2 .. Incoming + 1  PROVE Coming(i)' = Coming(i - 1)
  <2>1. i - (Len(rxf) + 1) = (i - 1) - Len(rxf)
    BY <1>2
  <2> QED  BY <1>2, <1>3, <2>1 DEF Coming, Incoming
<1>5. \A i \in 1 .. Len(rxf) : Coming(i)' = Coming(i)
  BY <1>2, <1>3 DEF Coming
<1>6. \A i \in Nat : i = Len(rxf) + 1 => Coming(i)' = x
  BY <1>2, <1>3 DEF Coming
<1>7. Incoming \in Nat /\ Incoming' = Incoming + 1 /\ Len(rxf) \in 0 .. Incoming
  BY <1>2, <1>3 DEF Incoming
<1> QED  BY <1>3, <1>4, <1>5, <1>6, <1>7

(* The FIFO is filled: n items more on their way to the controller. *)
LEMMA Grown ==
  ASSUME TypeOK, frame' = frame, NEW n \in Nat, NEW xs \in Seq(Cell), Len(xs) = n,
         txf' = Fill(txf, xs)
  PROVE  /\ txf' \in Seq(Cell) /\ Len(txf') <= depth
         /\ Total \in Nat /\ Sent(txf, n) \in 0 .. n /\ Total' = Total + Sent(txf, n)
         /\ Len(frame) \in 0 .. Total
         /\ \A i \in 1 .. Total : Item(i)' = Item(i)
         /\ \A i \in 1 .. Sent(txf, n), h \in Nat : h = Total + i => Item(h)' = xs[i]
<1>1. txf \in Seq(Cell) /\ frame \in Seq(Cell) /\ Len(txf) <= depth
  BY DEF TypeOK
<1>2. Len(txf) \in Nat /\ Len(frame) \in Nat
  BY <1>1
<1> DEFINE k == Sent(txf, n)
<1>3. /\ k \in 0 .. n /\ txf' \in Seq(Cell) /\ Len(txf') = Len(txf) + k /\ Len(txf') <= depth
      /\ \A i \in 1 .. Len(txf) : txf'[i] = txf[i]
      /\ \A i \in 1 .. k : txf'[Len(txf) + i] = xs[i]
  BY <1>1, Filled
<1> HIDE DEF k
<1>4. Total \in Nat /\ Total' = Total + k /\ Len(frame) \in 0 .. Total
  BY <1>2, <1>3 DEF Total
<1>5. \A i \in 1 .. Total : Item(i)' = Item(i)
  BY <1>2, <1>3 DEF Total, Item
<1>6. ASSUME NEW i \in 1 .. k, NEW h \in Nat, h = Total + i  PROVE Item(h)' = xs[i]
  <2>1. h - Len(frame) = Len(txf) + i /\ h > Len(frame)
    BY <1>2, <1>3, <1>6 DEF Total
  <2>2. Item(h)' = txf'[h - Len(frame)]
    BY <2>1, <1>2 DEF Item
  <2> QED  BY <1>3, <2>1, <2>2
<1> QED  BY <1>3, <1>4, <1>5, <1>6 DEF k

LEMMA HeadTaken ==
  ASSUME TypeOK, txf # << >>
  PROVE  /\ Head(txf) \in Cell /\ Head(txf) = txf[1] /\ Tail(txf) \in Seq(Cell)
         /\ Len(txf) \in Nat /\ Len(txf) >= 1 /\ Len(Tail(txf)) = Len(txf) - 1
         /\ \A i \in 1 .. Len(txf) - 1 : Tail(txf)[i] = txf[i + 1]
         /\ Len(frame) \in Nat /\ Item(Len(frame) + 1) = Head(txf)
<1>1. txf \in Seq(Cell) /\ frame \in Seq(Cell)
  BY DEF TypeOK
<1>2. Len(txf) \in Nat /\ Len(txf) >= 1 /\ Len(frame) \in Nat /\ Head(txf) = txf[1]
  BY <1>1
<1>3. (Len(frame) + 1) - Len(frame) = 1 /\ ~(Len(frame) + 1 <= Len(frame))
  BY <1>2
<1>4. Item(Len(frame) + 1) = txf[1]
  BY <1>3 DEF Item
<1> QED  BY <1>1, <1>2, <1>4

-----------------------------------------------------------------------------
(* Types. *)
LEMMA CompletionTyped ==
  ASSUME TypeOK, NEW n \in Nat, NoCompletion \/ CompleteRequest(n)
  PROVE  /\ called'.length \in Nat /\ request_in_progress' \in BOOLEAN
         /\ completion_handler' \in {"none", "request", "isp"}
<1>1. CASE NoCompletion
  BY <1>1 DEF TypeOK, NoCompletion, NoCall
<1>2. CASE CompleteRequest(n) /\ ~NoCompletion
  <2>1. /\ called' = [handler |-> completion_handler, buffer |-> p_response, length |-> n]
        /\ completion_handler' = "none" /\ request_in_progress' = FALSE
    BY <1>2, Zenon DEF CompleteRequest
  <2> QED  BY <2>1
<1> QED  BY <1>1, <1>2

LEMMA CallbackTyped ==
  ASSUME TypeOK, called'.length \in Nat, RequestCompleted
  PROVE  busy' \in BOOLEAN /\ last_response_length' \in Nat
BY DEF TypeOK, RequestCompleted

LEMMA StoreTyped ==
  ASSUME TypeOK, NEW k \in Nat, NEW v \in Nat, Store(k, v)
  PROVE  mem' \in [Buffers -> [0 .. 5 -> Nat]]
BY StoreItem DEF TypeOK, Store

LEMMA ReceiveTyped ==
  ASSUME TypeOK, IrqReceive, Callbacks, UNCHANGED <<foreground, controller, pages>>
  PROVE  TypeOK'
<1> DEFINE r == Head(rxf)
<1>1. r \in Datum /\ Tail(rxf) \in Seq(Datum)
  BY Received DEF IrqReceive, RxOkay, TypeOK
<1>2. r.byte \in Nat /\ POR \in Nat
  BY <1>1 DEF Datum, POR
<1> HIDE DEF r
<1>3. HandleRx(r)
  BY DEF IrqReceive, r
<1> DEFINE Typed == /\ state' \in {"IDLE", "TX_CMD", "TX_PAGED_DATA", "WAIT_RESPONSE",
                                   "RX_RESPONSE"}
                    /\ p_response' = p_response /\ response_idx' \in Nat
                    /\ mem' \in [Buffers -> [0 .. 5 -> Nat]]
                    /\ \E n \in Nat : NoCompletion \/ CompleteRequest(n)
<1>4. Typed
  <2>1. CASE Notify(r) \/ Drop
    BY <2>1 DEF TypeOK, Notify, Drop, receive
  <2>2. CASE RxIdle(r)
    <3>1. CASE mem' = [mem EXCEPT ![p_response][0] = POR, ![p_response][1] = 0]
      <4> DEFINE m == [mem EXCEPT ![p_response][0] = POR]
      <4>1. m \in [Buffers -> [0 .. 5 -> Nat]]
        BY <1>2, StoreItem DEF TypeOK
      <4>2. mem' = [m EXCEPT ![p_response][1] = 0]
        BY <3>1
      <4> HIDE DEF m
      <4>3. mem' \in [Buffers -> [0 .. 5 -> Nat]]
        BY <4>1, <4>2, StoreItem DEF TypeOK
      <4>4. \/ Notify(r) \/ Drop
            \/ NoCompletion /\ response_idx' = 1 /\ state' = "RX_RESPONSE"
               /\ p_response' = p_response
        BY <2>2, Zenon DEF RxIdle
      <4> QED  BY <2>1, <4>3, <4>4
    <3> QED  BY <2>1, <2>2, <3>1 DEF RxIdle
  <2>3. CASE RxWaitResponse(r)
    <3>1. CASE Store(0, r.byte)
      <4>1. mem' \in [Buffers -> [0 .. 5 -> Nat]]
        BY <1>2, <3>1, StoreTyped
      <4>2. \/ Notify(r) \/ Drop
            \/ NoCompletion /\ response_idx' = 1 /\ state' = "RX_RESPONSE"
               /\ p_response' = p_response
        BY <2>3, Zenon DEF RxWaitResponse
      <4> QED  BY <2>1, <4>1, <4>2
    <3> QED  BY <2>1, <2>3, <3>1 DEF RxWaitResponse
  <2>4. CASE RxDigestError(r)
    <3>1. mem' \in [Buffers -> [0 .. 5 -> Nat]]
      BY <1>2, <2>4, StoreTyped DEF RxDigestError, TypeOK
    <3>2. /\ state' = "IDLE" /\ NoCompletion
          /\ p_response' = p_response /\ response_idx' = response_idx
      BY <2>4 DEF RxDigestError
    <3> QED  BY <3>1, <3>2 DEF TypeOK
  <2>5. CASE RxResponse(r)
    <3>1. CASE response_idx < response_size
      <4>1. mem' \in [Buffers -> [0 .. 5 -> Nat]]
        BY <1>2, <2>5, <3>1, StoreTyped DEF RxResponse, TypeOK
      <4>2. response_idx' = response_idx + 1 /\ p_response' = p_response
        BY <2>5, <3>1 DEF RxResponse
      <4>3. \/ CompleteRequest(response_idx') /\ state' = "IDLE"
            \/ NoCompletion /\ state' = state
        BY <2>5, Zenon DEF RxResponse
      <4>4. response_idx' \in Nat
        BY <4>2 DEF TypeOK
      <4> QED  BY <4>1, <4>2, <4>3, <4>4 DEF TypeOK
    <3>2. CASE ~(response_idx < response_size)
      BY <2>5, <3>2 DEF RxResponse, TypeOK
    <3> QED  BY <3>1, <3>2
  <2>6. CASE RxPaged(r)
    <3>1. mem' \in [Buffers -> [0 .. 5 -> Nat]]
      BY <1>2, <2>6, StoreTyped DEF RxPaged
    <3> QED  BY <2>6, <3>1 DEF RxPaged, TypeOK
  <2>7. CASE RxEvent(r)
    BY <2>1, <2>7 DEF RxEvent
  <2> QED  BY <1>3, <2>2, <2>3, <2>4, <2>5, <2>6, <2>7 DEF HandleRx
<1>5. /\ called'.length \in Nat /\ request_in_progress' \in BOOLEAN
      /\ completion_handler' \in {"none", "request", "isp"}
  BY <1>4, CompletionTyped
<1>6. busy' \in BOOLEAN /\ last_response_length' \in Nat
  BY <1>5, CallbackTyped DEF Callbacks
<1>7. rxf' \in Seq(Datum) /\ isr' \in {"out", "tx"} /\ ispDone' \in BOOLEAN
  BY <1>1 DEF IrqReceive, Callbacks, TypeOK
<1> QED  BY <1>4, <1>5, <1>6, <1>7
         DEF IrqReceive, TypeOK, request, transmit, foreground, controller

LEMMA TransmitTyped ==
  ASSUME TypeOK, state = "TX_CMD" => p_cmd >= 1, NEW page \in Nat, IrqTransmit(page), Callbacks, pages' \in Nat,
         UNCHANGED <<foreground, controller>>
  PROVE  TypeOK'
<1> DEFINE Typed == /\ state' \in {"IDLE", "TX_CMD", "TX_PAGED_DATA", "WAIT_RESPONSE",
                                   "RX_RESPONSE"}
                    /\ p_cmd' \in Nat /\ cmd_size' \in Nat /\ data_size' \in Nat
                    /\ txf' \in Seq(Cell) /\ Len(txf') <= depth
                    /\ INT_ENABLE' \in SUBSET {"TXTOKAY", "RCVOKAY"}
                    /\ \E n \in Nat : NoCompletion \/ CompleteRequest(n)
<1>1. txf \in Seq(Cell) /\ Len(txf) <= depth /\ frame' = frame
  BY DEF TypeOK, controller
<1>2. Typed
  <2>1. CASE TxCmd
    <3> DEFINE xs == CmdBytes(p_cmd, cmd_size)
    <3>1. xs \in Seq(Cell) /\ Len(xs) = cmd_size
      BY <2>1, Bytes DEF TypeOK, TxCmd
    <3>2. txf' = Fill(txf, xs)
      BY <2>1 DEF TxCmd
    <3> HIDE DEF xs
    <3>3. /\ txf' \in Seq(Cell) /\ Len(txf') <= depth
          /\ Sent(txf, cmd_size) \in 0 .. cmd_size
      BY <1>1, <3>1, <3>2, Grown DEF TypeOK
    <3> DEFINE k == Sent(txf, cmd_size)
    <3>4. /\ \/ cmd_size' = cmd_size - k /\ p_cmd' = p_cmd + k /\ state' = state
             \/ cmd_size' = 0 /\ p_cmd' = p_cmd /\ state' = "WAIT_RESPONSE"
          /\ NoCompletion /\ data_size' = data_size /\ INT_ENABLE' = INT_ENABLE
      BY <2>1 DEF TxCmd
    <3>5. k \in 0 .. cmd_size
      BY <3>3
    <3> HIDE DEF k
    <3>6. p_cmd' \in Nat /\ cmd_size' \in Nat
      <4>1. p_cmd \in Nat /\ cmd_size \in Nat
        BY DEF TypeOK
      <4>2. cmd_size - k \in Nat /\ p_cmd + k \in Nat
        BY <3>5, <4>1
      <4> QED  BY <3>4, <4>1, <4>2
    <3> QED  BY <3>3, <3>4, <3>6 DEF TypeOK
  <2>2. CASE TxPage(page)
    <3> DEFINE n == IF data_size = 0 THEN page ELSE data_size
    <3>1. n \in Nat
      BY DEF TypeOK
    <3>2. CASE n = 0
      BY <1>1, <2>2, <3>2 DEF TxPage, TypeOK
    <3>3. CASE n # 0
      <4>1. PageBytes(n) \in Seq(Cell) /\ Len(PageBytes(n)) = n
        BY <3>1, Bytes
      <4>2. txf' = Fill(txf, PageBytes(n)) /\ data_size' = n - Sent(txf, n)
        BY <2>2, <3>3 DEF TxPage
      <4> HIDE DEF n
      <4>3. txf' \in Seq(Cell) /\ Len(txf') <= depth /\ Sent(txf, n) \in 0 .. n
        BY <1>1, <3>1, <4>1, <4>2, Grown
      <4>4. data_size' \in Nat
        BY <3>1, <4>2, <4>3
      <4> QED  BY <2>2, <3>3, <4>3, <4>4 DEF TxPage, TypeOK, n
    <3> QED  BY <3>2, <3>3
  <2>3. CASE TxUnexpected
    <3>1. /\ state' = "IDLE" /\ CompleteRequest(0) /\ txf' = txf
          /\ INT_ENABLE' = INT_ENABLE \ {"TXTOKAY"}
          /\ p_cmd' = p_cmd /\ cmd_size' = cmd_size /\ data_size' = data_size
      BY <2>3 DEF TxUnexpected, transmit
    <3> QED  BY <1>1, <3>1 DEF TypeOK
  <2> QED  BY <2>1, <2>2, <2>3 DEF IrqTransmit, HandleTx
<1>3. /\ called'.length \in Nat /\ request_in_progress' \in BOOLEAN
      /\ completion_handler' \in {"none", "request", "isp"}
  BY <1>2, CompletionTyped
<1>4. busy' \in BOOLEAN /\ last_response_length' \in Nat
  BY <1>3, CallbackTyped DEF Callbacks
<1>5. ispDone' \in BOOLEAN /\ isr' \in {"out", "tx"}
  BY DEF Callbacks, TypeOK, IrqTransmit
<1> QED  BY <1>2, <1>3, <1>4, <1>5
         DEF IrqTransmit, TypeOK, request, receive, foreground, controller

-----------------------------------------------------------------------------
(* A command is sent to a FIFO that holds nothing. *)
LEMMA ServiceTyped ==
  ASSUME NEW s \in Services
  PROVE  /\ s.op \in Nat /\ s.op # POR /\ s.op \notin Tampers
         /\ s.how \in {"ptr", "cmd", "paged"}
         /\ s.size \in Nat /\ s.size >= 1 /\ s.length \in Nat /\ s.length >= 2
         /\ Items(s) \in Nat /\ Items(s) >= 1
         /\ s.how # "ptr" => Items(s) = s.size
BY ServicesAssumption DEF Items

LEMMA BytesSent ==
  ASSUME TypeOK, txf = << >>, frame = << >>, frame' = frame, depth >= 1,
         ~request_in_progress, NEW s \in Services, s.how # "ptr",
         NEW then \in {"WAIT_RESPONSE", "TX_PAGED_DATA"}, SendBytes(s.op, s.size, then)
  PROVE  /\ txf' \in Seq(Cell) /\ Len(txf') <= depth
         /\ p_cmd' \in Nat /\ cmd_size' \in Nat
         /\ state' \in {"TX_CMD", then} /\ Commanded(s)'
<1> DEFINE fifo == send_cmd_opcode(Unsent, s.op)
           n == s.size - 1
           xs == CmdBytes(1, n)
           k == 1 + Sent(fifo, n)
<1>1. /\ s.op \in Nat /\ s.size \in Nat /\ n \in Nat /\ s.size = n + 1 /\ Items(s) = s.size
  BY ServiceTyped
<1> HIDE DEF n
<1>2. Unsent = << >>
  BY DEF Unsent
<1>3. fifo \in Seq(Cell) /\ Len(fifo) = 1 /\ fifo[1] = <<"start", s.op>>
  BY <1>1, <1>2, Opening
<1>4. /\ xs \in Seq(Cell) /\ Len(xs) = n
      /\ \A i \in 1 .. n : xs[i] = <<"byte", 1 + i - 1>>
  <2>1. 1 \in Nat /\ 1 >= 1
    OBVIOUS
  <2> HIDE DEF xs
  <2>2. /\ CmdBytes(1, n) \in Seq(Cell) /\ Len(CmdBytes(1, n)) = n
        /\ \A i \in 1 .. n : CmdBytes(1, n)[i] = <<"byte", 1 + i - 1>>
    BY <1>1, <2>1, Bytes
  <2> QED  BY <2>2 DEF xs
<1>5. txf' = Fill(fifo, xs)
  BY DEF SendBytes, n
<1>6. IF k < s.size THEN state' = "TX_CMD" /\ cmd_size' = s.size - k /\ p_cmd' = k
                    ELSE state' = then /\ cmd_size' = 0 /\ p_cmd' = 0
  BY DEF SendBytes, n
<1> HIDE DEF fifo, xs
<1>7. /\ Sent(fifo, n) \in 0 .. n
      /\ txf' \in Seq(Cell) /\ Len(txf') = 1 + Sent(fifo, n) /\ Len(txf') <= depth
      /\ txf'[1] = <<"start", s.op>>
      /\ \A i \in 1 .. Sent(fifo, n) : txf'[1 + i] = xs[i]
  <2>1. \A i \in 1 .. Len(fifo) : Fill(fifo, xs)[i] = fifo[i]
    BY <1>1, <1>3, <1>4, Filled
  <2>2. /\ Sent(fifo, n) \in 0 .. n
        /\ Fill(fifo, xs) \in Seq(Cell) /\ Len(Fill(fifo, xs)) = Len(fifo) + Sent(fifo, n)
        /\ Len(Fill(fifo, xs)) <= depth
        /\ \A i \in 1 .. Sent(fifo, n) : Fill(fifo, xs)[Len(fifo) + i] = xs[i]
    BY <1>1, <1>3, <1>4, Filled
  <2>3. Fill(fifo, xs)[1] = <<"start", s.op>>
    BY <1>3, <2>1
  <2> QED  BY <1>3, <1>5, <2>2, <2>3
<1>8. k \in Nat /\ k >= 1 /\ k <= s.size /\ Len(txf') = k
  BY <1>1, <1>7
<1> HIDE DEF k
<1>9. Total' = k /\ Len(frame') = 0
  BY <1>8 DEF Total
<1>10. ASSUME NEW i \in 1 .. k  PROVE Item(i)' = Expected(s, i)
  <2>1. Item(i)' = txf'[i]
    BY <1>8, <1>9 DEF Item
  <2>2. CASE i = 1
    BY <1>7, <2>1, <2>2 DEF Expected
  <2>3. CASE i > 1
    <3>1. i - 1 \in 1 .. Sent(fifo, n) /\ 1 + (i - 1) = i /\ i <= s.size
      BY <1>1, <1>7, <1>8, <2>3 DEF k
    <3>2. txf'[i] = xs[i - 1] /\ xs[i - 1] = <<"byte", 1 + (i - 1) - 1>>
      BY <1>1, <1>4, <1>7, <3>1
    <3>3. Expected(s, i) = <<"byte", i - 1>>
      BY <2>3, <3>1 DEF Expected
    <3> QED  BY <2>1, <3>1, <3>2, <3>3
  <2> QED  BY <1>8, <2>2, <2>3
<1>11. CASE k < s.size
  <2>1. state' = "TX_CMD" /\ cmd_size' = s.size - k /\ p_cmd' = k
    BY <1>6, <1>11
  <2>2. cmd_size' \in Nat /\ cmd_size' >= 1 /\ p_cmd' + cmd_size' = s.size
    BY <1>1, <1>8, <1>11, <2>1
  <2> QED  BY <1>1, <1>7, <1>8, <1>9, <1>10, <2>1, <2>2 DEF Commanded
<1>12. CASE ~(k < s.size)
  <2>1. state' = then /\ cmd_size' = 0 /\ p_cmd' = 0
    BY <1>6, <1>12
  <2>2. Total' = Items(s)
    BY <1>1, <1>8, <1>9, <1>12
  <2> QED  BY <1>1, <1>7, <1>8, <1>9, <1>10, <2>1, <2>2 DEF Commanded
<1> QED  BY <1>11, <1>12

-----------------------------------------------------------------------------
(* A step of the handler that receives, in each of the four phases. *)
LEMMA CommandKept ==
  ASSUME UNCHANGED <<frame, txf, p_cmd, cmd_size>>, NEW s \in Services,
         state' = "TX_CMD" <=> state = "TX_CMD"
  PROVE  /\ Commanded(s) => Commanded(s)'
         /\ Taken(s) => Taken(s)'
<1>1. Total' = Total /\ \A i \in 1 .. Total : Item(i)' = Item(i)
  BY DEF Total, Item
<1> QED  BY <1>1 DEF Commanded, Taken

LEMMA OpcodesKept ==
  ASSUME TypeOK, rxf # << >>, rxf' = Tail(rxf), reply' = reply, NoOpcode
  PROVE  NoOpcode'
<1>1. ASSUME NEW i \in 1 .. Incoming'  PROVE IsMessage(i)'
  <2>1. /\ Incoming \in Nat /\ Incoming >= 1 /\ Incoming' = Incoming - 1
        /\ Coming(i)' = Coming(i + 1)
    BY <1>1, Received
  <2>2. i + 1 \in 1 .. Incoming
    BY <1>1, <2>1
  <2>3. IsMessage(i + 1)
    BY <2>2 DEF NoOpcode
  <2> QED  BY <2>1, <2>3 DEF IsMessage
<1> QED  BY <1>1 DEF NoOpcode

LEMMA ReceiveFrame ==
  ASSUME TypeOK, IrqReceive, Callbacks, UNCHANGED <<foreground, controller, pages>>
  PROVE  /\ UNCHANGED <<frame, txf, p_cmd, cmd_size, data_size, cmd_opcode, response_size>>
         /\ UNCHANGED <<reply, answered, pc, svc, INT_ENABLE>>
         /\ rxf # << >> /\ rxf' = Tail(rxf) /\ HandleRx(Head(rxf))
         /\ Head(rxf) \in Datum /\ Coming(1) = Head(rxf) /\ 1 \in 1 .. Incoming
         /\ isr' = "tx" => "TXTOKAY" \in INT_ENABLE
         /\ RequestCompleted /\ ispDone' = (ispDone \/ called'.handler = "isp")
<1>1. /\ UNCHANGED <<frame, txf, p_cmd, cmd_size, data_size, cmd_opcode, response_size>>
      /\ UNCHANGED <<reply, answered, pc, svc, INT_ENABLE>>
      /\ rxf # << >> /\ rxf' = Tail(rxf) /\ HandleRx(Head(rxf))
      /\ isr' = "tx" => "TXTOKAY" \in INT_ENABLE
      /\ RequestCompleted /\ ispDone' = (ispDone \/ called'.handler = "isp")
  BY DEF IrqReceive, RxOkay, TxOkay, Callbacks, foreground, controller, request, transmit
<1>2. /\ Head(rxf) \in Datum /\ Coming(1) = Head(rxf) /\ Incoming \in Nat /\ Incoming >= 1
  BY <1>1, Received
<1> QED  BY <1>1, <1>2

(* What an item that is not for the driver leaves behind. *)
Unheard == /\ UNCHANGED <<state, p_response, response_idx, mem>>
           /\ UNCHANGED <<completion_handler, request_in_progress>>
           /\ called' = NoCall

LEMMA HeardNothing ==
  ASSUME NEW r, Notify(r) \/ Drop  PROVE Unheard
BY DEF Notify, Drop, NoCompletion, receive, Unheard

LEMMA NothingCalled ==
  ASSUME TypeOK, called' = NoCall, RequestCompleted,
         ispDone' = (ispDone \/ called'.handler = "isp")
  PROVE  UNCHANGED <<busy, last_response_length, ispDone>>
BY DEF TypeOK, RequestCompleted, NoCall

LEMMA ReceiveResting ==
  ASSUME TypeOK, Turns, Resting, IrqReceive, Callbacks,
         UNCHANGED <<foreground, controller, pages>>
  PROVE  Turns' /\ mem' = mem
<1> DEFINE r == Head(rxf)
<1>1. /\ UNCHANGED <<frame, txf, reply, answered, pc, svc, INT_ENABLE>>
      /\ rxf # << >> /\ rxf' = Tail(rxf) /\ HandleRx(r) /\ r \in Datum
      /\ Coming(1) = r /\ 1 \in 1 .. Incoming
      /\ isr' = "tx" => "TXTOKAY" \in INT_ENABLE
      /\ RequestCompleted /\ ispDone' = (ispDone \/ called'.handler = "isp")
  BY ReceiveFrame
<1> HIDE DEF r
<1>2. state = "IDLE" /\ NoOpcode /\ AtRest
  BY DEF Resting
<1>3. RxIdle(r)
  BY <1>1, <1>2 DEF HandleRx, RxWaitResponse, RxDigestError, RxResponse, RxPaged, RxEvent
<1>4. ~(r.cmd /\ r.byte = POR)
  BY <1>1, <1>2, ServicesAssumption DEF NoOpcode, IsMessage
<1>5. Unheard
  BY <1>3, <1>4, HeardNothing DEF RxIdle
<1>6. UNCHANGED <<busy, last_response_length, ispDone>>
  BY <1>1, <1>5, NothingCalled DEF Unheard
<1>7. NoOpcode'
  BY <1>1, <1>2, OpcodesKept
<1>8. Resting'
  BY <1>1, <1>5, <1>6, <1>7 DEF Resting, AtRest, Unheard
<1>9. ~Programming
  BY DEF Programming, Resting
<1>10. ~Programming'
  BY <1>8 DEF Programming, Resting
<1> QED  BY <1>1, <1>5, <1>6, <1>8, <1>9, <1>10 DEF Turns, Unheard

LEMMA ReceivePowerUp ==
  ASSUME TypeOK, Turns, PowerUp, IrqReceive, Callbacks,
         UNCHANGED <<foreground, controller, pages>>
  PROVE  Turns' /\ \A b \in Buffers : b # "g_response" => mem'[b] = mem[b]
<1> DEFINE r == Head(rxf)
<1>1. /\ UNCHANGED <<frame, txf, reply, answered, pc, svc, INT_ENABLE>>
      /\ rxf # << >> /\ rxf' = Tail(rxf) /\ HandleRx(r) /\ r \in Datum
      /\ Coming(1) = r /\ 1 \in 1 .. Incoming
      /\ isr' = "tx" => "TXTOKAY" \in INT_ENABLE
      /\ RequestCompleted /\ ispDone' = (ispDone \/ called'.handler = "isp")
  BY ReceiveFrame
<1>2. r = Head(rxf)
  OBVIOUS
<1> HIDE DEF r
<1>3. /\ pc = "idle" /\ ~busy /\ p_response = "g_response" /\ AtRest /\ reply = << >>
      /\ "g_response" \in Buffers
  BY BufferAssumption DEF PowerUp
<1>4. ~Programming /\ ispDone /\ "TXTOKAY" \notin INT_ENABLE
  BY <1>3 DEF Programming, Turns
(* Whatever the step leaves of the phase is enough. *)
<1>5. ASSUME called' = NoCall, UNCHANGED <<completion_handler, request_in_progress, p_response>>,
             PowerUp' \/ (state' = "IDLE" /\ NoOpcode')
      PROVE  Turns'
  <2>1. UNCHANGED <<busy, last_response_length, ispDone>>
    BY <1>1, <1>5, NothingCalled
  <2>2. AtRest'
    BY <1>1, <1>3, <1>5 DEF AtRest
  <2>3. PowerUp' \/ Resting'
    BY <1>1, <1>3, <1>5, <2>1, <2>2 DEF Resting
  <2>4. ~Programming' /\ isr' # "tx"
    BY <1>1, <1>3, <1>4, <2>1 DEF Programming
  <2> QED  BY <1>1, <1>3, <1>4, <2>1, <2>3, <2>4 DEF Turns
<1>6. CASE state = "IDLE"
  <2>1. /\ Len(rxf) >= 2 /\ rxf[1] = [cmd |-> TRUE, byte |-> POR] /\ ~rxf[2].cmd
        /\ \A i \in 3 .. Len(rxf) : IsMessage(i)
    BY <1>6 DEF PowerUp
  <2>2. r.cmd /\ r.byte = POR
    BY <1>1, <1>2, <2>1
  <2>3. RxIdle(r)
    BY <1>1, <1>6 DEF HandleRx, RxWaitResponse, RxDigestError, RxResponse, RxPaged, RxEvent
  <2>4. /\ mem' = [mem EXCEPT ![p_response][0] = POR, ![p_response][1] = 0]
        /\ response_idx' = 1 /\ state' = "RX_RESPONSE"
        /\ NoCompletion /\ p_response' = p_response
    BY <2>2, <2>3 DEF RxIdle
  <2> DEFINE m == [mem EXCEPT !["g_response"][0] = POR]
  <2>5. /\ m \in [Buffers -> [0 .. 5 -> Nat]]
        /\ m["g_response"][0] = POR
        /\ \A b \in Buffers : b # "g_response" => m[b] = mem[b]
    <3>1. 0 \in Nat /\ 0 \in 0 .. 5 /\ POR \in Nat
      BY DEF POR
    <3>2. mem \in [Buffers -> [0 .. 5 -> Nat]]
      BY DEF TypeOK
    <3>3. m \in [Buffers -> [0 .. 5 -> Nat]] /\ m["g_response"][0] = POR
      BY <1>3, <3>1, <3>2, StoreItem
    <3>4. \A b \in Buffers : b # "g_response" => m[b] = mem[b]
      BY <1>3, <3>1, <3>2, StoreItem
    <3> QED  BY <3>3, <3>4
  <2>6. mem' = [m EXCEPT !["g_response"][1] = 0]
    BY <1>3, <2>4
  <2> HIDE DEF m
  <2>7. /\ mem'["g_response"][0] = m["g_response"][0]
        /\ \A b \in Buffers : b # "g_response" => mem'[b] = m[b]
    <3>1. 0 \in Nat /\ 1 \in Nat /\ 0 \in 0 .. 5 /\ 0 # 1
      OBVIOUS
    <3> QED  BY <1>3, <2>5, <2>6, <3>1, StoreItem
  <2>8. NoOpcode'
    <3>1. ASSUME NEW i \in 1 .. Incoming'  PROVE IsMessage(i)'
      <4>1. /\ Incoming \in Nat /\ Incoming' = Incoming - 1 /\ Coming(i)' = Coming(i + 1)
        BY <1>1, <3>1, Received
      <4>2. Incoming = Len(rxf) /\ Len(rxf) \in Nat /\ \A h \in 1 .. Len(rxf) : Coming(h) = rxf[h]
        BY <1>3 DEF Incoming, Coming, TypeOK
      <4>3. i + 1 \in 2 .. Len(rxf)
        BY <3>1, <4>1, <4>2
      <4>4. IsMessage(i + 1)
        <5>1. CASE i + 1 = 2
          BY <2>1, <4>2, <4>3, <5>1 DEF IsMessage
        <5>2. CASE i + 1 # 2
          BY <2>1, <4>2, <4>3, <5>2
        <5> QED  BY <5>1, <5>2
      <4> QED  BY <4>1, <4>4 DEF IsMessage
    <3> QED  BY <3>1 DEF NoOpcode
  <2>9. called' = NoCall /\ UNCHANGED <<completion_handler, request_in_progress>>
    BY <2>4 DEF NoCompletion
  <2>10. busy' = busy
    BY <1>1, <2>9, NothingCalled
  <2>11. PowerUp'
    BY <1>1, <1>3, <2>4, <2>5, <2>7, <2>8, <2>9, <2>10 DEF PowerUp, AtRest
  <2> QED  BY <1>5, <2>4, <2>5, <2>7, <2>9, <2>11
<1>7. CASE state # "IDLE"
  <2>1. state = "RX_RESPONSE" /\ response_idx = 1 /\ mem["g_response"][0] = POR /\ NoOpcode
    BY <1>7 DEF PowerUp
  <2>2. NoOpcode'
    BY <1>1, <2>1, OpcodesKept
  <2>3. CASE r.cmd
    <3>1. Unheard
      BY <1>1, <2>1, <2>3, HeardNothing
         DEF HandleRx, RxIdle, RxWaitResponse, RxDigestError, RxResponse, RxPaged, RxEvent
    <3>2. busy' = busy
      BY <1>1, <3>1, NothingCalled DEF Unheard
    <3>3. PowerUp'
      BY <1>1, <1>3, <2>1, <2>2, <3>1, <3>2 DEF PowerUp, AtRest, Unheard
    <3> QED  BY <1>5, <3>1, <3>3 DEF Unheard
  <2>4. CASE ~r.cmd
    <3>1. response_idx - 1 = 0
      BY <2>1
    <3>2. RxDigestError(r)
      BY <1>1, <1>3, <2>1, <2>4, <3>1
         DEF HandleRx, RxIdle, RxWaitResponse, RxResponse, RxPaged, RxEvent
    <3>3. /\ mem' = [mem EXCEPT !["g_response"][1] = r.byte] /\ state' = "IDLE"
          /\ NoCompletion /\ p_response' = p_response
      BY <1>3, <2>1, <3>2 DEF RxDigestError, Store
    <3>4. \A b \in Buffers : b # "g_response" => mem'[b] = mem[b]
      <4>1. r.byte \in Nat /\ 1 \in Nat
        BY <1>1 DEF Datum
      <4> QED  BY <1>3, <3>3, <4>1, StoreItem DEF TypeOK
    <3>5. called' = NoCall /\ UNCHANGED <<completion_handler, request_in_progress>>
      BY <3>3 DEF NoCompletion
    <3> QED  BY <1>5, <2>2, <3>3, <3>4, <3>5
  <2> QED  BY <2>3, <2>4
<1> QED  BY <1>6, <1>7

(* The first item has been read: what stood behind it is one place nearer. *)
LEMMA StatusNearer ==
  ASSUME TypeOK, rxf # << >>, rxf' = Tail(rxf), reply' = reply, answered' = answered,
         NEW i \in Nat, NEW j \in Nat, StatusAt(i, j),
         NEW h \in Nat, NEW l \in Nat, j = l + 1, l >= 1, i = h + 1 \/ (i = 0 /\ h = 0)
  PROVE  StatusAt(h, l)'
<1>1. /\ Incoming \in Nat /\ Incoming' = Incoming - 1
      /\ \A g \in 1 .. Incoming - 1 : Coming(g)' = Coming(g + 1)
  BY Received
<1>2. /\ j \in i + 1 .. Incoming /\ ~Coming(j).cmd /\ Coming(j).byte = answered
      /\ \A g \in i + 1 .. j - 1 : Coming(g).cmd
  BY DEF StatusAt
<1>3. l \in h + 1 .. Incoming' /\ l \in 1 .. Incoming - 1
  BY <1>1, <1>2
<1>4. Coming(l)' = Coming(j)
  BY <1>1, <1>3
<1>5. ASSUME NEW g \in h + 1 .. l - 1  PROVE Coming(g)'.cmd
  <2>1. g \in 1 .. Incoming - 1 /\ g + 1 \in i + 1 .. j - 1
    BY <1>1, <1>2, <1>3
  <2> QED  BY <1>1, <1>2, <2>1
<1> QED  BY <1>2, <1>3, <1>4, <1>5 DEF StatusAt

LEMMA OpcodeNearer ==
  ASSUME TypeOK, rxf # << >>, rxf' = Tail(rxf), reply' = reply,
         NEW s, NEW i \in Nat, OpcodeAt(s, i)
  PROVE  /\ i = 1 => NoOpcode'
         /\ \A h \in Nat : h >= 1 /\ i = h + 1 => OpcodeAt(s, h)'
<1>1. /\ Incoming \in Nat /\ Incoming' = Incoming - 1
      /\ \A g \in 1 .. Incoming - 1 : Coming(g)' = Coming(g + 1)
  BY Received
<1>2. /\ i \in 1 .. Incoming /\ Coming(i) = [cmd |-> TRUE, byte |-> s.op]
      /\ \A g \in 1 .. Incoming : g # i => IsMessage(g)
  BY DEF OpcodeAt
<1>3. ASSUME NEW g \in 1 .. Incoming', g + 1 # i  PROVE IsMessage(g)'
  <2>1. g + 1 \in 1 .. Incoming /\ Coming(g)' = Coming(g + 1)
    BY <1>1
  <2>2. IsMessage(g + 1)
    BY <1>2, <1>3, <2>1
  <2> QED  BY <2>1, <2>2 DEF IsMessage
<1>4. ASSUME i = 1  PROVE NoOpcode'
  <2>1. \A g \in 1 .. Incoming' : g + 1 # i
    BY <1>1, <1>4
  <2> QED  BY <1>3, <2>1 DEF NoOpcode
<1>5. ASSUME NEW h \in Nat, h >= 1, i = h + 1  PROVE OpcodeAt(s, h)'
  <2>1. h \in 1 .. Incoming' /\ Coming(h)' = [cmd |-> TRUE, byte |-> s.op]
    BY <1>1, <1>2, <1>5
  <2>2. \A g \in 1 .. Incoming' : g # h => g + 1 # i
    BY <1>1, <1>5
  <2> QED  BY <1>3, <2>1, <2>2 DEF OpcodeAt
<1> QED  BY <1>4, <1>5

LEMMA ReceiveServing ==
  ASSUME TypeOK, Turns, Serving, IrqReceive, Callbacks,
         UNCHANGED <<foreground, controller, pages>>
  PROVE  Turns' /\ \A b \in Buffers : b # "stack" => mem'[b] = mem[b]
<1> DEFINE r == Head(rxf)
<1>1. /\ UNCHANGED <<frame, txf, p_cmd, cmd_size, cmd_opcode, response_size>>
      /\ UNCHANGED <<reply, answered, pc, svc, INT_ENABLE>>
      /\ rxf # << >> /\ rxf' = Tail(rxf) /\ HandleRx(r) /\ r \in Datum
      /\ Coming(1) = r /\ 1 \in 1 .. Incoming
      /\ isr' = "tx" => "TXTOKAY" \in INT_ENABLE
      /\ RequestCompleted /\ ispDone' = (ispDone \/ called'.handler = "isp")
  BY ReceiveFrame
<1> HIDE DEF r
<1> PICK s \in Services : /\ Waiting(s)
                          /\ Unanswered(s) \/ OnItsWay(s) \/ OpcodeHere(s) \/ StatusHere(s)
  BY DEF Serving
<1>2. /\ busy /\ pc = "wait" /\ svc = s /\ s.how # "paged"
      /\ request_in_progress /\ completion_handler = "request"
      /\ p_response = "stack" /\ cmd_opcode = s.op /\ response_size = s.length
      /\ "stack" \in Buffers /\ "stack" # "g_isp_response"
  BY BufferAssumption DEF Waiting
<1>3. /\ s.op \in Nat /\ s.op # POR /\ s.op \notin Tampers /\ POR \notin Tampers
      /\ s.length \in Nat /\ s.length >= 2
  BY ServiceTyped, ServicesAssumption
<1>4. ~Programming /\ ispDone /\ "TXTOKAY" \notin INT_ENABLE
  BY <1>2 DEF Programming, Turns
<1>5. ~Programming' /\ isr' # "tx"
  BY <1>1, <1>2, <1>4 DEF Programming
<1>6. r.byte \in Nat
  BY <1>1 DEF Datum
(* The request stays under way. *)
<1>7. ASSUME UNCHANGED <<completion_handler, request_in_progress, p_response>>,
             called' = NoCall,
             Unanswered(s)' \/ OnItsWay(s)' \/ OpcodeHere(s)' \/ StatusHere(s)'
      PROVE  Turns'
  <2>1. UNCHANGED <<busy, last_response_length, ispDone>>
    BY <1>1, <1>7, NothingCalled
  <2>2. Waiting(s)'
    BY <1>1, <1>2, <1>7, <2>1 DEF Waiting
  <2>3. Serving'
    BY <1>7, <2>2 DEF Serving
  <2> QED  BY <1>1, <1>2, <1>4, <1>5, <2>1, <2>3 DEF Turns
<1>8. ASSUME Notify(r) \/ Drop,
             Unanswered(s)' \/ OnItsWay(s)' \/ OpcodeHere(s)' \/ StatusHere(s)'
      PROVE  Turns' /\ mem' = mem
  BY <1>7, <1>8, HeardNothing DEF Unheard
<1>9. ASSUME NEW k \in Nat, NEW v \in Nat, Store(k, v)
      PROVE  /\ \A b \in Buffers : b # "stack" => mem'[b] = mem[b]
             /\ \A h \in 0 .. 5 : h # k => mem'["stack"][h] = mem["stack"][h]
             /\ k \in 0 .. 5 => mem'["stack"][k] = v
  BY <1>2, <1>9, StoreItem DEF Store, TypeOK
<1>10. CASE Unanswered(s)
  <2>1. NoOpcode /\ NoOpcode' /\ Commanded(s) /\ state \in {"TX_CMD", "WAIT_RESPONSE"}
    BY <1>1, <1>10, OpcodesKept DEF Unanswered
  <2>2. r.cmd => r.byte # POR /\ r.byte # s.op
    BY <1>1, <1>3, <2>1 DEF NoOpcode, IsMessage
  <2>3. Notify(r) \/ Drop
    BY <1>1, <1>2, <2>1, <2>2
       DEF HandleRx, RxIdle, RxWaitResponse, RxDigestError, RxResponse, RxPaged, RxEvent
  <2>4. state' = state
    BY <2>3, HeardNothing DEF Unheard
  <2>5. Commanded(s)'
    BY <1>1, <2>1, <2>4, CommandKept
  <2> QED  BY <1>8, <2>1, <2>3, <2>4, <2>5 DEF Unanswered
<1>11. CASE OnItsWay(s)
  <2> PICK i \in 1 .. Incoming, j \in 1 .. Incoming : OpcodeAt(s, i) /\ StatusAt(i, j)
    BY <1>11 DEF OnItsWay
  <2>1. Taken(s) /\ state = "WAIT_RESPONSE"
    BY <1>11 DEF OnItsWay
  <2>2. /\ i \in Nat /\ j \in Nat /\ i >= 1 /\ j >= i + 1 /\ j - 1 \in Nat /\ j - 1 >= 1
        /\ j = (j - 1) + 1
    BY Received, <1>1 DEF StatusAt
  <2>3. RxWaitResponse(r)
    BY <1>1, <2>1 DEF HandleRx, RxIdle, RxDigestError, RxResponse, RxPaged, RxEvent
  <2>4. CASE i = 1
    <3>1. r.cmd /\ r.byte = cmd_opcode
      BY <1>1, <1>2, <2>4 DEF OpcodeAt
    <3>2. /\ Store(0, s.op) /\ response_idx' = 1 /\ state' = "RX_RESPONSE"
          /\ NoCompletion /\ p_response' = p_response
      BY <1>2, <2>3, <3>1 DEF RxWaitResponse
    <3>3. mem'["stack"][0] = s.op /\ \A b \in Buffers : b # "stack" => mem'[b] = mem[b]
      BY <1>3, <1>9, <3>2
    <3>4. NoOpcode'
      BY <1>1, <2>2, <2>4, OpcodeNearer
    <3>5. 0 \in Nat /\ 1 = 0 + 1
      OBVIOUS
    <3>6. StatusAt(0, j - 1)'
      <4> DEFINE l == j - 1
      <4>1. l \in Nat /\ l >= 1 /\ j = l + 1
        BY <2>2
      <4> HIDE DEF l
      <4>2. StatusAt(0, l)'
        BY <1>1, <2>2, <2>4, <3>5, <4>1, StatusNearer
      <4> QED  BY <4>2 DEF l
    <3>7. \E h \in 1 .. Incoming' : StatusAt(0, h)'
      BY <2>2, <3>6 DEF StatusAt
    <3>8. Taken(s)'
      BY <1>1, <2>1, <3>2 DEF Taken
    <3>9. OpcodeHere(s)'
      BY <3>2, <3>3, <3>4, <3>7, <3>8 DEF OpcodeHere, Stored
    <3>10. called' = NoCall /\ UNCHANGED <<completion_handler, request_in_progress>>
      BY <3>2 DEF NoCompletion
    <3> QED  BY <1>7, <3>2, <3>3, <3>9, <3>10
  <2>5. CASE i # 1
    <3>1. IsMessage(1)
      BY <1>1, <2>5 DEF OpcodeAt
    <3>2. ~(r.cmd /\ r.byte = cmd_opcode)
      BY <1>1, <1>2, <1>3, <3>1 DEF IsMessage
    <3>3. Notify(r) \/ Drop
      BY <2>3, <3>2 DEF RxWaitResponse
    <3>4. state' = state
      BY <3>3, HeardNothing DEF Unheard
    <3>5. Taken(s)'
      BY <1>1, <2>1, <3>4, CommandKept
    <3> PICK h \in Nat : i = h + 1 /\ h >= 1
      <4>1. i - 1 \in Nat /\ i = (i - 1) + 1 /\ i - 1 >= 1
        BY <2>2, <2>5
      <4> QED  BY <4>1
    <3> PICK l \in Nat : j = l + 1 /\ l >= 1
      BY <2>2
    <3>6. OpcodeAt(s, h)' /\ StatusAt(h, l)'
      BY <1>1, <2>2, OpcodeNearer, StatusNearer
    <3>7. h \in 1 .. Incoming' /\ l \in 1 .. Incoming'
      BY <3>6 DEF OpcodeAt, StatusAt
    <3>8. OnItsWay(s)'
      BY <2>1, <3>4, <3>5, <3>6, <3>7 DEF OnItsWay
    <3> QED  BY <1>8, <3>3, <3>8
  <2> QED  BY <2>4, <2>5
<1>12. CASE OpcodeHere(s)
  <2>1. /\ Taken(s) /\ state = "RX_RESPONSE" /\ response_idx = 1 /\ mem["stack"][0] = s.op
        /\ NoOpcode /\ NoOpcode'
    BY <1>1, <1>12, OpcodesKept DEF OpcodeHere, Stored
  <2> PICK j \in 1 .. Incoming : StatusAt(0, j)
    BY <1>12 DEF OpcodeHere
  <2>2. j \in Nat /\ j >= 1
    BY Received, <1>1
  <2>3. CASE j = 1
    <3>1. ~r.cmd /\ r.byte = answered
      BY <1>1, <2>3 DEF StatusAt
    <3>2. response_idx - 1 = 0 /\ response_idx < response_size
      BY <1>2, <1>3, <2>1
    <3>3. RxResponse(r)
      BY <1>1, <1>2, <1>3, <2>1, <3>1, <3>2
         DEF HandleRx, RxIdle, RxWaitResponse, RxDigestError, RxPaged, RxEvent
    <3>4. Store(1, r.byte) /\ response_idx' = 2 /\ p_response' = p_response
      BY <2>1, <3>2, <3>3 DEF RxResponse
    <3>5. /\ mem'["stack"][0] = s.op /\ mem'["stack"][1] = answered
          /\ \A b \in Buffers : b # "stack" => mem'[b] = mem[b]
      BY <1>6, <1>9, <2>1, <3>1, <3>4
    <3>6. CASE response_idx' = response_size
      <4>1. CompleteRequest(response_size) /\ state' = "IDLE"
        BY <3>3, <3>6 DEF RxResponse
      <4>2. /\ called' = [handler |-> "request", buffer |-> "stack", length |-> s.length]
            /\ completion_handler' = "none" /\ request_in_progress' = FALSE
        BY <1>2, <4>1 DEF CompleteRequest
      <4>3. busy' = FALSE /\ last_response_length' = s.length /\ ispDone' = ispDone
        BY <1>1, <1>4, <4>2 DEF RequestCompleted
      <4>4. AtRest'
        BY <1>1, <1>2, <2>1, <4>2 DEF AtRest, Taken
      <4>5. Resting'
        BY <1>2, <2>1, <3>4, <4>1, <4>3, <4>4 DEF Resting
      <4> QED  BY <1>1, <1>2, <1>4, <1>5, <3>5, <4>3, <4>5 DEF Turns
    <3>7. CASE response_idx' # response_size
      <4>1. NoCompletion /\ state' = state
        BY <3>3, <3>7 DEF RxResponse
      <4>2. Taken(s)'
        BY <1>1, <2>1, <4>1, CommandKept
      <4>3. StatusHere(s)'
        BY <1>1, <2>1, <3>4, <3>5, <4>1, <4>2 DEF StatusHere, Stored
      <4>4. called' = NoCall /\ UNCHANGED <<completion_handler, request_in_progress>>
        BY <4>1 DEF NoCompletion
      <4> QED  BY <1>7, <3>4, <3>5, <4>3, <4>4
    <3> QED  BY <3>6, <3>7
  <2>4. CASE j # 1
    <3>1. r.cmd
      BY <1>1, <2>2, <2>4 DEF StatusAt
    <3>2. Notify(r)
      BY <1>1, <2>1, <3>1
         DEF HandleRx, RxIdle, RxWaitResponse, RxDigestError, RxResponse, RxPaged, RxEvent
    <3>3. UNCHANGED <<state, response_idx, mem>>
      BY <3>2, HeardNothing DEF Unheard
    <3> PICK l \in Nat : j = l + 1 /\ l >= 1
      <4>1. j - 1 \in Nat /\ j = (j - 1) + 1 /\ j - 1 >= 1
        BY <2>2, <2>4
      <4> QED  BY <4>1
    <3>4. StatusAt(0, l)'
      <4>1. 0 \in Nat
        OBVIOUS
      <4> QED  BY <1>1, <2>2, <4>1, StatusNearer
    <3>5. l \in 1 .. Incoming'
      BY <3>4 DEF StatusAt
    <3>6. Taken(s)'
      BY <1>1, <2>1, <3>3, CommandKept
    <3>7. OpcodeHere(s)'
      BY <2>1, <3>3, <3>4, <3>5, <3>6 DEF OpcodeHere, Stored
    <3> QED  BY <1>8, <3>2, <3>7
  <2> QED  BY <2>3, <2>4
<1>13. CASE StatusHere(s)
  <2>1. /\ Taken(s) /\ state \in {"RX_RESPONSE", "IDLE"} /\ response_idx >= 2
        /\ mem["stack"][0] = s.op /\ mem["stack"][1] = answered /\ NoOpcode /\ NoOpcode'
        /\ response_idx \in Nat
    BY <1>1, <1>13, OpcodesKept DEF StatusHere, Stored, TypeOK
  <2>2. ASSUME state' \in {"RX_RESPONSE", "IDLE"}, response_idx' \in Nat, response_idx' >= 2,
               mem'["stack"][0] = s.op, mem'["stack"][1] = answered
        PROVE  StatusHere(s)'
    <3>1. Taken(s)'
      BY <1>1, <2>1, <2>2 DEF Taken
    <3> QED  BY <1>1, <2>1, <2>2, <3>1 DEF StatusHere, Stored
  <2>3. CASE Notify(r) \/ Drop
    <3>1. UNCHANGED <<state, response_idx, mem>>
      BY <2>3, HeardNothing DEF Unheard
    <3> QED  BY <1>8, <2>1, <2>2, <2>3, <3>1
  <2>4. ~(r.cmd /\ r.byte = POR)
    BY <1>1, <1>3, <2>1 DEF NoOpcode, IsMessage
  <2>5. CASE RxDigestError(r)
    <3>1. /\ Store(response_idx, r.byte) /\ state' = "IDLE" /\ NoCompletion
          /\ p_response' = p_response /\ response_idx' = response_idx
      BY <2>5 DEF RxDigestError
    <3>2. /\ mem'["stack"][0] = s.op /\ mem'["stack"][1] = answered
          /\ \A b \in Buffers : b # "stack" => mem'[b] = mem[b]
      BY <1>6, <1>9, <2>1, <3>1
    <3>3. called' = NoCall /\ UNCHANGED <<completion_handler, request_in_progress>>
      BY <3>1 DEF NoCompletion
    <3> QED  BY <1>7, <2>1, <2>2, <3>1, <3>2, <3>3
  <2>6. CASE RxResponse(r)
    <3>1. /\ \/ Store(response_idx, r.byte) /\ response_idx' = response_idx + 1
             \/ mem' = mem /\ response_idx' = response_idx
          /\ \/ response_idx' = response_size /\ CompleteRequest(response_size)
                /\ state' = "IDLE"
             \/ NoCompletion /\ state' = state
          /\ p_response' = p_response
      BY <2>6 DEF RxResponse
    <3>2. /\ mem'["stack"][0] = s.op /\ mem'["stack"][1] = answered
          /\ \A b \in Buffers : b # "stack" => mem'[b] = mem[b]
          /\ response_idx' \in Nat /\ response_idx' >= 2
      BY <1>6, <1>9, <2>1, <3>1
    <3>3. CASE CompleteRequest(response_size) /\ state' = "IDLE"
      <4>1. /\ called' = [handler |-> "request", buffer |-> "stack", length |-> s.length]
            /\ completion_handler' = "none" /\ request_in_progress' = FALSE
        BY <1>2, <3>3 DEF CompleteRequest
      <4>2. busy' = FALSE /\ last_response_length' = s.length /\ ispDone' = ispDone
        BY <1>1, <1>4, <4>1 DEF RequestCompleted
      <4>3. AtRest'
        BY <1>1, <1>2, <2>1, <4>1 DEF AtRest, Taken
      <4>4. Resting'
        BY <1>2, <2>1, <3>1, <3>3, <4>2, <4>3 DEF Resting
      <4> QED  BY <1>1, <1>2, <1>4, <1>5, <3>2, <4>2, <4>4 DEF Turns
    <3>4. CASE NoCompletion /\ state' = state
      <4>1. called' = NoCall /\ UNCHANGED <<completion_handler, request_in_progress>>
        BY <3>4 DEF NoCompletion
      <4> QED  BY <1>7, <2>1, <2>2, <3>1, <3>2, <3>4, <4>1
    <3> QED  BY <3>1, <3>3, <3>4
  <2> QED  BY <1>1, <2>1, <2>3, <2>4, <2>5, <2>6
           DEF HandleRx, RxIdle, RxWaitResponse, RxPaged, RxEvent
<1> QED  BY <1>10, <1>11, <1>12, <1>13

(* The request of ISP goes on, or is complete. *)
LEMMA StillProgramming ==
  ASSUME TypeOK, Programming, RequestCompleted,
         ispDone' = (ispDone \/ called'.handler = "isp"), UNCHANGED <<pc, p_response>>,
         \/ /\ NoCompletion /\ (state' # "IDLE" => ~ispDone)
            /\ (state' = "TX_CMD" => request_in_progress')
         \/ (\E n \in Nat : CompleteRequest(n)) /\ state' = "IDLE",
         \A i \in 1 .. Incoming' : Coming(i)'.cmd => Coming(i)'.byte # POR,
         \E s \in Services : s.how = "paged" /\ (Commanded(s)' \/ Taken(s)')
  PROVE  Turns'
<1>1. /\ busy /\ pc \in {"idle", "start"} /\ p_response = "g_isp_response"
      /\ completion_handler = IF ispDone THEN "none" ELSE "isp"
      /\ ispDone \in BOOLEAN
  BY DEF Programming, TypeOK
<1>2. /\ busy' = busy /\ ispDone' \in BOOLEAN
      /\ completion_handler' = IF ispDone' THEN "none" ELSE "isp"
      /\ state' # "IDLE" => ~ispDone'
      /\ state' = "TX_CMD" => request_in_progress'
  <2>1. CASE /\ NoCompletion /\ (state' # "IDLE" => ~ispDone)
             /\ (state' = "TX_CMD" => request_in_progress')
    <3>1. called' = NoCall /\ completion_handler' = completion_handler
      BY <2>1 DEF NoCompletion
    <3>2. busy' = busy /\ ispDone' = ispDone
      BY <3>1, NothingCalled
    <3> QED  BY <1>1, <2>1, <3>1, <3>2
  <2>2. CASE (\E n \in Nat : CompleteRequest(n)) /\ state' = "IDLE"
    <3> PICK n \in Nat : CompleteRequest(n)
      BY <2>2
    <3>1. CASE ispDone
      <4>1. called' = NoCall /\ completion_handler' = completion_handler
        BY <1>1, <3>1 DEF CompleteRequest, NoCompletion
      <4>2. busy' = busy /\ ispDone' = ispDone
        BY <4>1, NothingCalled
      <4> QED  BY <1>1, <2>2, <4>1, <4>2
    <3>2. CASE ~ispDone
      <4>1. /\ called' = [handler |-> "isp", buffer |-> p_response, length |-> n]
            /\ completion_handler' = "none"
        BY <1>1, <3>2 DEF CompleteRequest
      <4>2. called'.handler = "isp"
        BY <4>1
      <4>3. busy' = busy /\ ispDone' = TRUE
        BY <4>2 DEF RequestCompleted
      <4> QED  BY <2>2, <4>1, <4>3
    <3> QED  BY <3>1, <3>2
  <2> QED  BY <2>1, <2>2
<1>3. Programming'
  BY <1>1, <1>2 DEF Programming
<1> QED  BY <1>1, <1>2, <1>3 DEF Turns

(* ISP: the response may come at any time, and ends it. *)
LEMMA ReceiveProgramming ==
  ASSUME TypeOK, Turns, Programming, IrqReceive, Callbacks,
         UNCHANGED <<foreground, controller, pages>>
  PROVE  /\ Turns'
         /\ mem' # mem => ~ispDone
         /\ \A b \in Buffers : b # "g_isp_response" => mem'[b] = mem[b]
<1> DEFINE r == Head(rxf)
<1>1. /\ UNCHANGED <<frame, txf, p_cmd, cmd_size, cmd_opcode, response_size>>
      /\ UNCHANGED <<reply, answered, pc, svc, INT_ENABLE>>
      /\ rxf # << >> /\ rxf' = Tail(rxf) /\ HandleRx(r) /\ r \in Datum
      /\ Coming(1) = r /\ 1 \in 1 .. Incoming
      /\ RequestCompleted /\ ispDone' = (ispDone \/ called'.handler = "isp")
  BY ReceiveFrame
<1> HIDE DEF r
<1>2. /\ busy /\ pc \in {"idle", "start"} /\ p_response = "g_isp_response"
      /\ completion_handler = IF ispDone THEN "none" ELSE "isp"
      /\ state # "IDLE" => ~ispDone
      /\ state = "TX_CMD" => request_in_progress
      /\ \A i \in 1 .. Incoming : Coming(i).cmd => Coming(i).byte # POR
      /\ "g_isp_response" \in Buffers /\ ispDone \in BOOLEAN /\ r.byte \in Nat
      /\ response_idx \in Nat
  BY <1>1, BufferAssumption DEF Programming, TypeOK, Datum
<1> PICK s \in Services : s.how = "paged" /\ (Commanded(s) \/ Taken(s))
  BY DEF Programming
<1>3. \A i \in 1 .. Incoming' : Coming(i)'.cmd => Coming(i)'.byte # POR
  <2>1. ASSUME NEW i \in 1 .. Incoming'  PROVE Coming(i)'.cmd => Coming(i)'.byte # POR
    <3>1. /\ Incoming \in Nat /\ Incoming' = Incoming - 1 /\ Coming(i)' = Coming(i + 1)
      BY <1>1, <2>1, Received
    <3>2. i + 1 \in 1 .. Incoming
      BY <2>1, <3>1
    <3> QED  BY <1>2, <3>1, <3>2
  <2> QED  BY <2>1
<1>4. ~(r.cmd /\ r.byte = POR)
  BY <1>1, <1>2
(* The request goes on, or is complete. *)
<1>5. ASSUME p_response' = p_response, state' = "TX_CMD" <=> state = "TX_CMD",
             \/ /\ NoCompletion /\ (state' # "IDLE" => ~ispDone)
                /\ (state' = "TX_CMD" => request_in_progress')
             \/ (\E n \in Nat : CompleteRequest(n)) /\ state' = "IDLE"
      PROVE  Turns'
  <2>1. Commanded(s)' \/ Taken(s)'
    BY <1>1, <1>5, CommandKept
  <2> QED  BY <1>1, <1>3, <1>5, <2>1, StillProgramming
<1>6. ASSUME NEW k \in Nat, NEW v \in Nat, Store(k, v)
      PROVE  \A b \in Buffers : b # "g_isp_response" => mem'[b] = mem[b]
  BY <1>2, <1>6, StoreItem DEF Store, TypeOK
<1>7. CASE Notify(r) \/ Drop
  <2>1. Unheard /\ NoCompletion
    BY <1>7, HeardNothing DEF Notify, Drop
  <2> QED  BY <1>2, <1>5, <2>1 DEF Unheard
<1>8. CASE RxIdle(r)
  BY <1>4, <1>7, <1>8 DEF RxIdle
<1>9. CASE RxWaitResponse(r)
  <2>1. CASE r.cmd /\ r.byte = cmd_opcode
    <3>1. /\ state = "WAIT_RESPONSE" /\ Store(0, r.byte) /\ state' = "RX_RESPONSE"
          /\ NoCompletion /\ p_response' = p_response
      BY <1>9, <2>1 DEF RxWaitResponse
    <3> QED  BY <1>2, <1>5, <1>6, <3>1
  <2> QED  BY <1>7, <1>9, <2>1 DEF RxWaitResponse
<1>10. CASE RxDigestError(r)
  <2>1. /\ state = "RX_RESPONSE" /\ Store(response_idx, r.byte) /\ state' = "IDLE"
        /\ NoCompletion /\ p_response' = p_response
    BY <1>10 DEF RxDigestError
  <2> QED  BY <1>2, <1>5, <1>6, <2>1
<1>11. CASE RxResponse(r)
  <2>1. /\ state = "RX_RESPONSE" /\ p_response' = p_response
        /\ \/ Store(response_idx, r.byte) /\ response_idx' = response_idx + 1
           \/ mem' = mem /\ response_idx' = response_idx
        /\ \/ CompleteRequest(response_idx') /\ state' = "IDLE"
           \/ NoCompletion /\ state' = state
    BY <1>11 DEF RxResponse
  <2>2. response_idx' \in Nat
    BY <1>2, <2>1
  <2>3. \A b \in Buffers : b # "g_isp_response" => mem'[b] = mem[b]
    BY <1>2, <1>6, <2>1
  <2> QED  BY <1>2, <1>5, <2>1, <2>2, <2>3
<1>12. CASE RxPaged(r)
  <2>1. /\ state = "TX_PAGED_DATA" /\ p_response' = p_response /\ Store(1, r.byte)
        /\ CompleteRequest(2) /\ state' = "IDLE"
    BY <1>12 DEF RxPaged
  <2> QED  BY <1>2, <1>5, <1>6, <2>1
<1> QED  BY <1>1, <1>7, <1>8, <1>9, <1>10, <1>11, <1>12 DEF HandleRx, RxEvent

-----------------------------------------------------------------------------
(* A step of the handler that transmits: there is one during ISP only. *)
LEMMA PagesFilled ==
  ASSUME TypeOK, frame' = frame, NEW n \in Nat, txf' = Fill(txf, PageBytes(n)),
         NEW s \in Services, s.how = "paged", state # "TX_CMD", state' = state
  PROVE  /\ Commanded(s) => Commanded(s)'
         /\ Taken(s) => Taken(s)'
<1> DEFINE xs == PageBytes(n)
           k == Sent(txf, n)
<1>1. xs \in Seq(Cell) /\ Len(xs) = n /\ \A i \in 1 .. n : xs[i] = <<"page", 0>>
  BY Bytes
<1>2. txf' = Fill(txf, xs)
  OBVIOUS
<1> HIDE DEF xs
<1>3. /\ Total \in Nat /\ k \in 0 .. n /\ Total' = Total + k /\ Len(frame) \in 0 .. Total
      /\ \A i \in 1 .. Total : Item(i)' = Item(i)
      /\ \A i \in 1 .. k, h \in Nat : h = Total + i => Item(h)' = xs[i]
  BY <1>1, <1>2, Grown
<1>4. txf \in Seq(Cell) /\ Len(txf) \in Nat /\ Len(txf) <= depth
  BY DEF TypeOK
<1>5. /\ Len(txf') = Len(txf) + k
      /\ \A i \in 1 .. Len(txf) : txf'[i] = txf[i]
      /\ \A i \in 1 .. k : txf'[Len(txf) + i] = xs[i]
  BY <1>1, <1>2, <1>4, Filled
<1> HIDE DEF k
<1>6. Items(s) = s.size /\ s.size \in Nat /\ s.size >= 1
  BY ServiceTyped
<1>7. ASSUME Commanded(s)  PROVE Commanded(s)'
  <2>1. /\ \A i \in 1 .. Total : Item(i) = Expected(s, i)
        /\ Len(frame) <= Items(s) /\ Total >= Items(s)
    BY <1>7 DEF Commanded
  <2>2. ASSUME NEW h \in 1 .. Total'  PROVE Item(h)' = Expected(s, h)
    <3>1. CASE h <= Total
      BY <1>3, <2>1, <3>1
    <3>2. CASE h > Total
      <4>1. h - Total \in 1 .. k /\ h = Total + (h - Total) /\ h \in Nat /\ h > s.size
        BY <1>3, <1>6, <2>1, <2>2, <3>2
      <4>2. Item(h)' = xs[h - Total]
        BY <1>3, <4>1
      <4>3. xs[h - Total] = <<"page", 0>>
        BY <1>1, <1>3, <4>1
      <4>4. Expected(s, h) = <<"page", 0>>
        BY <1>6, <4>1 DEF Expected
      <4> QED  BY <4>2, <4>3, <4>4
    <3> QED  BY <1>3, <3>1, <3>2
  <2>3. Total' >= Items(s)
    BY <1>3, <1>6, <2>1
  <2> QED  BY <2>1, <2>2, <2>3 DEF Commanded
<1>8. ASSUME Taken(s)  PROVE Taken(s)'
  <2>1. ASSUME NEW h \in 1 .. Len(txf')  PROVE txf'[h] = <<"page", 0>>
    <3>1. CASE h <= Len(txf)
      BY <1>4, <1>5, <1>8, <3>1 DEF Taken
    <3>2. CASE h > Len(txf)
      <4>1. h - Len(txf) \in 1 .. k /\ h = Len(txf) + (h - Len(txf))
        BY <1>3, <1>4, <1>5, <2>1, <3>2
      <4>2. txf'[h] = xs[h - Len(txf)]
        BY <1>5, <4>1
      <4> QED  BY <1>1, <1>3, <4>1, <4>2
    <3> QED  BY <1>3, <1>4, <1>5, <3>1, <3>2
  <2> QED  BY <1>8, <2>1 DEF Taken
<1> QED  BY <1>7, <1>8

LEMMA CommandGoesOn ==
  ASSUME TypeOK, frame' = frame, TxCmd, NEW s \in Services, s.how = "paged", Commanded(s)
  PROVE  Commanded(s)'
<1> DEFINE xs == CmdBytes(p_cmd, cmd_size)
           k == Sent(txf, cmd_size)
<1>1. Items(s) = s.size /\ s.size \in Nat
  BY ServiceTyped
<1>2. /\ \A i \in 1 .. Total : Item(i) = Expected(s, i)
      /\ Len(frame) <= Items(s) /\ p_cmd >= 1 /\ cmd_size >= 1
      /\ Total = p_cmd /\ p_cmd + cmd_size = s.size /\ state = "TX_CMD"
      /\ p_cmd \in Nat /\ cmd_size \in Nat
  BY DEF Commanded, TxCmd, TypeOK
<1>3. /\ xs \in Seq(Cell) /\ Len(xs) = cmd_size
      /\ \A i \in 1 .. cmd_size : xs[i] = <<"byte", p_cmd + i - 1>>
  BY <1>2, Bytes
<1>4. txf' = Fill(txf, xs)
  BY DEF TxCmd
<1>5. \/ k < cmd_size /\ cmd_size' = cmd_size - k /\ p_cmd' = p_cmd + k /\ state' = state
      \/ ~(k < cmd_size) /\ state' = "WAIT_RESPONSE"
  BY DEF TxCmd
<1> HIDE DEF xs
<1>6. /\ Total \in Nat /\ k \in 0 .. cmd_size /\ Total' = Total + k
      /\ \A i \in 1 .. Total : Item(i)' = Item(i)
      /\ \A i \in 1 .. k, h \in Nat : h = Total + i => Item(h)' = xs[i]
  BY <1>2, <1>3, <1>4, Grown
<1> HIDE DEF k
<1>7. ASSUME NEW h \in 1 .. Total'  PROVE Item(h)' = Expected(s, h)
  <2>1. CASE h <= Total
    BY <1>2, <1>6, <2>1
  <2>2. CASE h > Total
    <3>1. h - Total \in 1 .. k /\ h - Total \in 1 .. cmd_size /\ h = Total + (h - Total)
      BY <1>2, <1>6, <1>7, <2>2
    <3>2. h \in Nat /\ h > 1 /\ h <= s.size /\ p_cmd + (h - Total) - 1 = h - 1
      BY <1>1, <1>2, <1>6, <1>7, <2>2, <3>1
    <3>3. Item(h)' = xs[h - Total]
      BY <1>6, <3>1, <3>2
    <3>4. xs[h - Total] = <<"byte", h - 1>>
      BY <1>3, <3>1, <3>2
    <3>5. Expected(s, h) = <<"byte", h - 1>>
      BY <3>2 DEF Expected
    <3> QED  BY <3>3, <3>4, <3>5
  <2> QED  BY <1>6, <2>1, <2>2
<1>8. CASE k < cmd_size /\ cmd_size' = cmd_size - k /\ p_cmd' = p_cmd + k /\ state' = state
  <2>1. Total' = p_cmd' /\ p_cmd' + cmd_size' = s.size /\ p_cmd' >= 1 /\ cmd_size' >= 1
    BY <1>1, <1>2, <1>6, <1>8
  <2> QED  BY <1>2, <1>7, <1>8, <2>1 DEF Commanded
<1>9. CASE ~(k < cmd_size) /\ state' = "WAIT_RESPONSE"
  <2>1. Total' = s.size
    BY <1>1, <1>2, <1>6, <1>9
  <2> QED  BY <1>1, <1>2, <1>7, <1>9, <2>1 DEF Commanded
<1> QED  BY <1>5, <1>8, <1>9

LEMMA TransmitTurns ==
  ASSUME TypeOK, Turns, NEW page \in Nat, IrqTransmit(page), Callbacks,
         UNCHANGED <<foreground, controller>>
  PROVE  Turns' /\ mem' = mem /\ Programming
<1>1. /\ UNCHANGED <<frame, reply, answered, pc, svc, rxf, p_response, mem>>
      /\ isr' = "out" /\ HandleTx(page)
      /\ RequestCompleted /\ ispDone' = (ispDone \/ called'.handler = "isp")
  BY DEF IrqTransmit, Callbacks, foreground, controller, receive
<1>2. Programming
  BY DEF Turns, IrqTransmit, TxOkay
<1>3. /\ \A i \in 1 .. Incoming : Coming(i).cmd => Coming(i).byte # POR
      /\ state # "IDLE" => ~ispDone
      /\ state = "TX_CMD" => request_in_progress
  BY <1>2 DEF Programming
<1>4. \A i \in 1 .. Incoming' : Coming(i)'.cmd => Coming(i)'.byte # POR
  BY <1>1, <1>3 DEF Incoming, Coming
<1> PICK s \in Services : s.how = "paged" /\ (Commanded(s) \/ Taken(s))
  BY <1>2 DEF Programming
<1>5. CASE TxCmd
  <2>1. state = "TX_CMD" /\ NoCompletion /\ request_in_progress' = request_in_progress
    BY <1>5 DEF TxCmd, NoCompletion
  <2>2. Commanded(s)
    BY <2>1 DEF Taken
  <2>3. Commanded(s)'
    BY <1>1, <1>5, <2>2, CommandGoesOn
  <2> QED  BY <1>1, <1>2, <1>3, <1>4, <2>1, <2>3, StillProgramming
<1>6. CASE TxPage(page)
  <2> DEFINE n == IF data_size = 0 THEN page ELSE data_size
  <2>1. /\ state = "TX_PAGED_DATA" /\ NoCompletion /\ p_cmd' = p_cmd /\ cmd_size' = cmd_size
        /\ \/ state' = "WAIT_RESPONSE" /\ txf' = txf
           \/ state' = state /\ txf' = Fill(txf, PageBytes(n))
        /\ n \in Nat
    BY <1>6 DEF TxPage, TypeOK
  <2> HIDE DEF n
  <2>2. Commanded(s)' \/ Taken(s)'
    <3>1. CASE state' = "WAIT_RESPONSE" /\ txf' = txf
      BY <1>1, <2>1, <3>1, CommandKept
    <3>2. CASE state' = state /\ txf' = Fill(txf, PageBytes(n))
      BY <1>1, <2>1, <3>2, PagesFilled
    <3> QED  BY <2>1, <3>1, <3>2
  <2>3. ~ispDone /\ state' # "TX_CMD"
    BY <1>3, <2>1
  <2> QED  BY <1>1, <1>2, <1>4, <2>1, <2>2, <2>3, StillProgramming
<1>7. CASE TxUnexpected
  <2>1. /\ state # "TX_CMD" /\ state' = "IDLE" /\ CompleteRequest(0) /\ txf' = txf
        /\ p_cmd' = p_cmd /\ cmd_size' = cmd_size
    BY <1>7 DEF TxUnexpected, transmit
  <2>2. Commanded(s)' \/ Taken(s)'
    BY <1>1, <2>1, CommandKept
  <2>3. \E n \in Nat : CompleteRequest(n)
    BY <2>1
  <2> QED  BY <1>1, <1>2, <1>4, <2>1, <2>2, <2>3, StillProgramming
<1> QED  BY <1>1, <1>2, <1>5, <1>6, <1>7 DEF HandleTx

-----------------------------------------------------------------------------
(* The steps of the foreground. *)
LEMMA PhaseKept ==
  ASSUME UNCHANGED comblk, UNCHANGED controller
  PROVE  /\ Resting => AtRest' /\ NoOpcode' /\ state' = "IDLE" /\ p_response' = p_response
         /\ \A s \in Services : Commanded(s) \/ Taken(s) => Commanded(s)' \/ Taken(s)'
         /\ Incoming' = Incoming /\ \A i \in 1 .. Incoming : Coming(i)' = Coming(i)
<1>1. UNCHANGED <<state, p_cmd, cmd_size, p_response, completion_handler,
                  request_in_progress, txf, rxf, frame, reply, answered>>
  BY DEF comblk, transmit, receive, complete, controller
<1>2. Incoming' = Incoming /\ \A i \in 1 .. Incoming : Coming(i)' = Coming(i)
  BY <1>1 DEF Incoming, Coming
<1>3. \A s \in Services : Commanded(s) \/ Taken(s) => Commanded(s)' \/ Taken(s)'
  BY <1>1, CommandKept
<1> QED  BY <1>1, <1>2, <1>3 DEF Resting, AtRest, NoOpcode, IsMessage

LEMMA ProgrammingKept ==
  ASSUME UNCHANGED comblk, UNCHANGED controller, UNCHANGED <<busy, ispDone>>,
         pc' \in {"idle", "start"}, Programming
  PROVE  Programming'
<1>1. UNCHANGED <<state, p_response, completion_handler, request_in_progress>>
  BY DEF comblk, receive, complete
<1> QED  BY <1>1, PhaseKept DEF Programming

LEMMA CallTurns ==
  ASSUME TypeOK, Turns, Call, Patient  PROVE TypeOK' /\ Turns'
<1>1. /\ UNCHANGED comblk /\ UNCHANGED controller /\ UNCHANGED <<busy, ispDone, INT_ENABLE, isr>>
      /\ pc = "idle" /\ pc' = "start" /\ rxf = << >> /\ state # "RX_RESPONSE" /\ isr = "out"
  BY DEF Call, handlers, comblk
<1>2. TypeOK'
  BY DEF Call, TypeOK, comblk, request, transmit, receive, complete, handlers, controller
<1>3. CASE PowerUp
  BY <1>1, <1>3 DEF PowerUp
<1>4. CASE Resting
  <2>1. Resting'
    BY <1>1, <1>4, PhaseKept DEF Resting
  <2>2. ~Programming /\ ~Programming'
    BY <1>1, <1>4 DEF Programming, Resting
  <2> QED  BY <1>1, <2>1, <2>2, <1>2 DEF Turns
<1>5. CASE Serving
  BY <1>1, <1>5 DEF Serving, Waiting
<1>6. CASE Programming
  <2>1. Programming'
    BY <1>1, <1>6, ProgrammingKept
  <2> QED  BY <1>1, <1>2, <2>1 DEF Turns
<1> QED  BY <1>3, <1>4, <1>5, <1>6 DEF Turns

LEMMA StartTurns ==
  ASSUME TypeOK, Turns, SignalRequestStart  PROVE TypeOK' /\ Turns'
<1>1. /\ UNCHANGED comblk /\ UNCHANGED controller /\ UNCHANGED <<ispDone, INT_ENABLE, isr>>
      /\ pc = "start" /\ pc' = "send" /\ ~busy /\ busy' = TRUE /\ isr = "out"
  BY DEF SignalRequestStart, comblk
<1>2. TypeOK'
  BY DEF SignalRequestStart, TypeOK, comblk, request, transmit, receive, complete, controller
<1>3. Resting
  BY <1>1 DEF Turns, PowerUp, Serving, Waiting, Programming
<1>4. Resting'
  BY <1>1, <1>3, PhaseKept DEF Resting
<1>5. ~Programming /\ ~Programming'
  BY <1>1 DEF Programming
<1> QED  BY <1>1, <1>2, <1>4, <1>5 DEF Turns

LEMMA ReturnTurns ==
  ASSUME TypeOK, Turns, Return
  PROVE  TypeOK' /\ Turns' /\ result' = answered /\ answered' = answered
<1>1. /\ UNCHANGED comblk /\ UNCHANGED controller /\ UNCHANGED <<busy, ispDone, INT_ENABLE, isr>>
      /\ pc = "wait" /\ pc' = "idle" /\ ~busy /\ isr = "out" /\ answered' = answered
      /\ result' = IF last_response_length = svc.length /\ mem["stack"][0] = svc.op
                   THEN mem["stack"][1] ELSE ERROR
  BY DEF Return, handlers, comblk, controller
<1>2. TypeOK'
  BY DEF Return, TypeOK, comblk, request, transmit, receive, complete, handlers, controller
<1>3. Resting
  BY <1>1 DEF Turns, PowerUp, Serving, Waiting, Programming
<1>4. Resting'
  BY <1>1, <1>3, PhaseKept DEF Resting
<1>5. ~Programming /\ ~Programming'
  BY <1>1 DEF Programming
<1>6. result' = answered
  BY <1>1 DEF Turns
<1> QED  BY <1>1, <1>2, <1>4, <1>5, <1>6 DEF Turns

(* A request is made of a driver at rest. *)
LEMMA Requested ==
  ASSUME TypeOK, AtRest, NEW op, NEW buffer, NEW size, NEW handler,
         NewRequest(op, buffer, size, handler), UNCHANGED <<controller, svc>>
  PROVE  /\ depth \in Nat /\ depth >= 1 /\ Unsent = << >> /\ called' = NoCall
         /\ request_in_progress' = TRUE /\ cmd_opcode' = op
         /\ p_response' = buffer /\ response_size' = size /\ response_idx' = 0
         /\ completion_handler' = handler /\ data_size' = 0
         /\ UNCHANGED <<isr, mem, rxf, depth, frame, reply, answered>> /\ isr' = "out"
         /\ UNCHANGED <<Incoming, NoOpcode>>
<1>1. Unsent = << >>
  BY DEF AtRest, Unsent
<1>2. depth \in Nat /\ depth >= 1
  BY <1>1 DEF NewRequest, TypeOK
<1>3. UNCHANGED <<isr, mem, rxf, depth, frame, reply, answered>> /\ isr' = "out"
  BY DEF NewRequest, controller
<1>4. UNCHANGED <<Incoming, NoOpcode>>
  BY <1>3 DEF Incoming, NoOpcode, IsMessage, Coming
<1> QED  BY <1>1, <1>2, <1>3, <1>4 DEF NewRequest, Aborted, AtRest

LEMMA PointerSent ==
  ASSUME TypeOK, AtRest, depth >= 2, NEW s \in Services, s.how = "ptr", frame' = frame,
         txf' = Append(send_cmd_opcode(<< >>, s.op), <<"ptr", 0>>), state' = "WAIT_RESPONSE"
  PROVE  txf' \in Seq(Cell) /\ Len(txf') <= depth /\ Commanded(s)'
<1> DEFINE fifo == send_cmd_opcode(<< >>, s.op)
<1>1. fifo \in Seq(Cell) /\ Len(fifo) = 1 /\ fifo[1] = <<"start", s.op>>
  BY ServiceTyped, Opening
<1>2. txf' = Append(fifo, <<"ptr", 0>>)
  OBVIOUS
<1> HIDE DEF fifo
<1>3. <<"ptr", 0>> \in Cell
  BY DEF Cell
<1>4. /\ txf' \in Seq(Cell) /\ Len(txf') = 2
      /\ txf'[1] = <<"start", s.op>> /\ txf'[2] = <<"ptr", 0>>
  <2> DEFINE y == <<"ptr", 0>>
  <2>1. y \in Cell /\ txf' = Append(fifo, y)
    BY <1>2, <1>3
  <2> HIDE DEF y
  <2> DEFINE g == Append(fifo, y)
  <2>2. g \in Seq(Cell) /\ Len(g) = Len(fifo) + 1 /\ g[1] = fifo[1] /\ g[Len(fifo) + 1] = y
    BY <1>1, <2>1
  <2>3. txf' = g
    BY <2>1
  <2> HIDE DEF g
  <2>4. Len(fifo) + 1 = 2
    BY <1>1
  <2>5. Len(g) = 2 /\ g[2] = y
    BY <2>2, <2>4
  <2> QED  BY <1>1, <2>2, <2>3, <2>5 DEF y
<1>5. frame' = << >> /\ Len(frame') = 0 /\ depth \in Nat
  BY DEF AtRest, TypeOK
<1>6. Total' = 2 /\ Items(s) = 2
  BY <1>4, <1>5 DEF Total, Items
<1>7. ASSUME NEW i \in 1 .. 2  PROVE Item(i)' = Expected(s, i)
  <2>1. ~(i <= Len(frame')) /\ i - Len(frame') = i
    BY <1>5
  <2>2. Item(i)' = txf'[i]
    BY <2>1 DEF Item
  <2>3. CASE i = 1
    BY <1>4, <2>2, <2>3 DEF Expected
  <2>4. CASE i = 2
    BY <1>4, <2>2, <2>4 DEF Expected
  <2> QED  BY <2>3, <2>4
<1> QED  BY <1>4, <1>5, <1>6, <1>7 DEF Commanded

LEMMA SendTurns ==
  ASSUME TypeOK, Turns, Send  PROVE TypeOK' /\ Turns' /\ mem' = mem
<1>1. /\ pc = "send" /\ pc' = "wait" /\ UNCHANGED <<svc, result, controller, pages>>
      /\ RequestCompleted /\ ispDone' = (ispDone \/ called'.handler = "isp")
      /\ svc \in Services
  BY DEF Send, Callbacks, TypeOK
<1> PICK s1 \in Services : s1 = svc
  BY <1>1
<1>2. Resting /\ busy
  BY <1>1 DEF Turns, PowerUp, Serving, Waiting, Programming
<1>3. AtRest /\ NoOpcode /\ frame = << >> /\ txf = << >> /\ ~request_in_progress
  BY <1>2 DEF Resting, AtRest
<1>4. ~Programming /\ ~Programming' /\ ispDone
  BY <1>1 DEF Programming, Turns
<1>5. NewRequest(s1.op, "stack", s1.length, "request")
  BY DEF Send, SendCmdWithPtr, SendCmd
<1>6. /\ depth \in Nat /\ depth >= 1 /\ Unsent = << >> /\ called' = NoCall
      /\ request_in_progress' = TRUE /\ cmd_opcode' = s1.op
      /\ p_response' = "stack" /\ response_size' = s1.length /\ response_idx' = 0
      /\ completion_handler' = "request" /\ data_size' = 0
      /\ UNCHANGED <<isr, mem, rxf, depth, frame, reply, answered>> /\ isr' = "out"
      /\ UNCHANGED <<Incoming, NoOpcode>>
  BY <1>1, <1>3, <1>5, Requested
<1>7. UNCHANGED <<busy, last_response_length, ispDone>>
  BY <1>1, <1>6, NothingCalled
<1>8. /\ state' \in {"TX_CMD", "WAIT_RESPONSE"} /\ txf' \in Seq(Cell) /\ Len(txf') <= depth
      /\ p_cmd' \in Nat /\ cmd_size' \in Nat /\ page_handler' = FALSE
      /\ INT_ENABLE' = {"RCVOKAY"} /\ s1.how # "paged" /\ Commanded(s1)'
  <2>1. CASE s1.how = "ptr" /\ SendCmdWithPtr(s1.op, "stack", s1.length, "request")
    <3>1. /\ depth >= 2 /\ p_cmd' = 0 /\ cmd_size' = 0 /\ page_handler' = FALSE
          /\ txf' = Append(send_cmd_opcode(<< >>, s1.op), <<"ptr", 0>>)
          /\ state' = "WAIT_RESPONSE" /\ INT_ENABLE' = {"RCVOKAY"}
      BY <1>6, <2>1 DEF SendCmdWithPtr
    <3> QED  BY <1>3, <1>6, <2>1, <3>1, PointerSent
  <2>2. CASE s1.how = "cmd" /\ SendCmd(s1.op, s1.size, "stack", s1.length, "request")
    <3>1. /\ SendBytes(s1.op, s1.size, "WAIT_RESPONSE") /\ page_handler' = FALSE
          /\ INT_ENABLE' = {"RCVOKAY"}
      BY <2>2 DEF SendCmd
    <3> QED  BY <1>3, <1>6, <2>2, <3>1, BytesSent
  <2> QED  BY <2>1, <2>2 DEF Send
<1>9. s1.op \in Nat /\ s1.length \in Nat /\ "stack" \in Buffers
  BY ServiceTyped, BufferAssumption
<1>10. TypeOK'
  BY <1>1, <1>6, <1>7, <1>8, <1>9 DEF TypeOK, controller
<1>11. Waiting(s1)' /\ Unanswered(s1)'
  BY <1>1, <1>2, <1>3, <1>6, <1>7, <1>8 DEF Waiting, Unanswered
<1>12. Serving'
  BY <1>11 DEF Serving
<1> QED  BY <1>1, <1>2, <1>4, <1>6, <1>7, <1>8, <1>10, <1>12 DEF Turns

LEMMA StartIspTurns ==
  ASSUME TypeOK, Turns, StartIsp  PROVE TypeOK' /\ Turns' /\ mem' = mem
<1>1. /\ pc = "send" /\ pc' = "idle" /\ UNCHANGED <<svc, result, flags, controller>>
      /\ pages' \in Nat /\ RequestCompleted /\ ispDone' = FALSE /\ svc.how = "paged"
      /\ svc \in Services
  BY ServicesAssumption DEF StartIsp, TypeOK
<1> PICK s1 \in Services : s1 = svc
  BY <1>1
<1>2. Resting /\ busy
  BY <1>1 DEF Turns, PowerUp, Serving, Waiting, Programming
<1>3. AtRest /\ NoOpcode /\ frame = << >> /\ txf = << >> /\ ~request_in_progress
  BY <1>2 DEF Resting, AtRest
<1>4. /\ NewRequest(s1.op, "g_isp_response", s1.length, "isp")
      /\ SendBytes(s1.op, s1.size, "TX_PAGED_DATA")
      /\ page_handler' = TRUE /\ INT_ENABLE' = {"TXTOKAY", "RCVOKAY"}
  BY DEF StartIsp, SendPagedCmd
<1>5. /\ depth \in Nat /\ depth >= 1 /\ Unsent = << >> /\ called' = NoCall
      /\ request_in_progress' = TRUE /\ cmd_opcode' = s1.op
      /\ p_response' = "g_isp_response" /\ response_size' = s1.length /\ response_idx' = 0
      /\ completion_handler' = "isp" /\ data_size' = 0
      /\ UNCHANGED <<isr, mem, rxf, depth, frame, reply, answered>> /\ isr' = "out"
      /\ UNCHANGED <<Incoming, NoOpcode>>
  BY <1>1, <1>3, <1>4, Requested
<1>6. UNCHANGED <<busy, last_response_length>>
  <2>1. called'.handler = "none"
    BY <1>5 DEF NoCall
  <2> QED  BY <1>1, <2>1 DEF RequestCompleted
<1>7. /\ state' \in {"TX_CMD", "TX_PAGED_DATA"} /\ txf' \in Seq(Cell) /\ Len(txf') <= depth
      /\ p_cmd' \in Nat /\ cmd_size' \in Nat /\ Commanded(s1)'
  BY <1>1, <1>3, <1>4, <1>5, BytesSent
<1>8. s1.op \in Nat /\ s1.length \in Nat /\ "g_isp_response" \in Buffers
  BY ServiceTyped, BufferAssumption
<1>9. TypeOK'
  BY <1>1, <1>4, <1>5, <1>6, <1>7, <1>8 DEF TypeOK, controller
<1>10. \A i \in 1 .. Incoming' : Coming(i)'.cmd => Coming(i)'.byte # POR
  BY <1>3, <1>5, ServicesAssumption DEF NoOpcode, IsMessage
<1>11. Programming'
  BY <1>1, <1>2, <1>5, <1>6, <1>7, <1>10 DEF Programming
<1> QED  BY <1>1, <1>2, <1>5, <1>6, <1>9, <1>11 DEF Turns

-----------------------------------------------------------------------------
(* The steps of the controller. *)
TakenOff == LET item == Head(txf)
            IN  frame' = IF item[1] = "start" THEN <<item>>
                         ELSE IF item[1] = "page" THEN frame
                         ELSE Append(frame, item)

LEMMA CommandTaken ==
  ASSUME TypeOK, txf # << >>, txf' = Tail(txf), TakenOff, UNCHANGED <<state, p_cmd, cmd_size>>,
         NEW s \in Services
  PROVE  /\ Commanded(s) => Commanded(s)'
         /\ Taken(s) => Taken(s)'
<1> DEFINE item == Head(txf)
           n == Len(frame)
           m == Len(txf)
<1>1. /\ item \in Cell /\ item = txf[1] /\ m \in Nat /\ m >= 1 /\ n \in Nat
      /\ Len(txf') = m - 1 /\ \A i \in 1 .. m - 1 : txf'[i] = txf[i + 1]
      /\ Total = n + m /\ frame \in Seq(Cell)
  BY HeadTaken DEF Total, TypeOK
<1>2. Item(n + 1) = item /\ n + 1 \in 1 .. Total
  BY <1>1, HeadTaken
<1>3. \A i \in 1 .. Total : Item(i) = IF i <= n THEN frame[i] ELSE txf[i - n]
  BY DEF Item
<1>4. \A i \in Nat : Item(i)' = IF i <= Len(frame') THEN frame'[i] ELSE txf'[i - Len(frame')]
  BY DEF Item
<1>5. Total' = Len(frame') + Len(txf')
  BY DEF Total
<1>6. frame' = IF item[1] = "start" THEN <<item>>
               ELSE IF item[1] = "page" THEN frame ELSE Append(frame, item)
  BY DEF TakenOff
<1>7. /\ Items(s) \in Nat /\ Items(s) >= 1 /\ (s.how # "ptr" => Items(s) = s.size)
      /\ s.size \in Nat /\ s.how \in {"ptr", "cmd", "paged"}
  BY ServiceTyped
<1>8. s.how = "ptr" => Items(s) = 2
  BY DEF Items
<1> HIDE DEF item, n, m
(* The item goes on to the frame. *)
<1>9. ASSUME Len(frame') = n + 1, frame'[n + 1] = item, \A i \in 1 .. n : frame'[i] = frame[i]
      PROVE  Total' = Total /\ \A i \in 1 .. Total : Item(i)' = Item(i)
  <2>1. Total' = Total
    BY <1>1, <1>5, <1>9
  <2>2. ASSUME NEW i \in 1 .. Total  PROVE Item(i)' = Item(i)
    <3>1. CASE i <= n
      BY <1>1, <1>3, <1>4, <1>9, <3>1
    <3>2. CASE i = n + 1
      <4>1. i \in Nat /\ i <= Len(frame')
        BY <1>1, <1>9, <3>2
      <4>2. Item(i)' = frame'[n + 1]
        BY <1>4, <3>2, <4>1
      <4> QED  BY <1>2, <1>9, <3>2, <4>2
    <3>3. CASE i > n + 1
      <4>1. /\ i \in Nat /\ ~(i <= Len(frame')) /\ ~(i <= n)
            /\ i - (n + 1) \in 1 .. m - 1 /\ (i - (n + 1)) + 1 = i - n
        BY <1>1, <1>9, <3>3
      <4>2. Item(i)' = txf'[i - (n + 1)]
        BY <1>4, <1>9, <4>1
      <4> QED  BY <1>1, <1>3, <4>1, <4>2
    <3> QED  BY <1>1, <3>1, <3>2, <3>3
  <2> QED  BY <2>1, <2>2
<1>10. ASSUME Commanded(s)  PROVE Commanded(s)'
  <2>1. /\ \A i \in 1 .. Total : Item(i) = Expected(s, i)
        /\ n <= Items(s)
        /\ state = "TX_CMD" => /\ s.how # "ptr" /\ p_cmd >= 1 /\ cmd_size >= 1
                               /\ Total = p_cmd /\ p_cmd + cmd_size = s.size
        /\ state # "TX_CMD" => Total >= Items(s) /\ (s.how # "paged" => Total = Items(s))
        /\ p_cmd \in Nat /\ cmd_size \in Nat
    BY <1>10 DEF Commanded, n, TypeOK
  <2>2. item = Expected(s, n + 1)
    BY <1>2, <2>1
  <2>3. CASE n + 1 <= Items(s)
    <3>1. Len(frame') = n + 1 /\ frame'[n + 1] = item /\ \A i \in 1 .. n : frame'[i] = frame[i]
      <4>1. CASE n = 0
        <5>1. item = <<"start", s.op>>
          BY <2>2, <4>1 DEF Expected
        <5>2. item[1] = "start"
          BY <5>1
        <5> QED  BY <1>6, <4>1, <5>2
      <4>2. CASE n # 0
        <5>1. n + 1 > 1
          BY <1>1, <4>2
        <5>2. item = <<"ptr", 0>> \/ item = <<"byte", (n + 1) - 1>>
          BY <1>1, <1>7, <2>2, <2>3, <5>1 DEF Expected
        <5>3. item[1] = "ptr" \/ item[1] = "byte"
          BY <5>2
        <5>4. frame' = Append(frame, item)
          BY <1>6, <5>3
        <5> QED  BY <1>1, <5>4 DEF n
      <4> QED  BY <4>1, <4>2
    <3>2. Total' = Total /\ \A i \in 1 .. Total : Item(i)' = Item(i)
      BY <1>9, <3>1
    <3>3. \A i \in 1 .. Total' : Item(i)' = Expected(s, i)
      BY <2>1, <3>2
    <3>4. Len(frame') <= Items(s)
      BY <2>3, <3>1
    <3> QED  BY <2>1, <3>2, <3>3, <3>4 DEF Commanded
  <2>4. CASE ~(n + 1 <= Items(s))
    <3>1. n = Items(s) /\ Total >= n + 1
      BY <1>1, <1>7, <2>1, <2>4
    <3>2. state # "TX_CMD"
      BY <1>7, <2>1, <3>1
    <3>3. s.how = "paged" /\ Items(s) = s.size
      BY <1>1, <1>7, <2>1, <3>1, <3>2
    <3>4. \A i \in Nat : i > n => Expected(s, i) = <<"page", 0>>
      BY <1>1, <1>7, <3>1, <3>3 DEF Expected
    <3>5. item = <<"page", 0>>
      BY <1>1, <2>2, <3>4
    <3>6. frame' = frame
      <4>1. item[1] = "page"
        BY <3>5
      <4> QED  BY <1>6, <4>1
    <3>7. Len(frame') = n /\ Total' = Total - 1
      BY <1>1, <1>5, <3>6 DEF n
    <3>8. ASSUME NEW i \in 1 .. Total'  PROVE Item(i)' = Expected(s, i)
      <4>1. CASE i <= n
        BY <1>1, <1>3, <1>4, <2>1, <3>6, <3>7, <4>1
      <4>2. CASE i > n
        <5>1. /\ i \in Nat /\ ~(i <= n) /\ i - n \in 1 .. m - 1 /\ (i - n) + 1 = (i + 1) - n
              /\ i + 1 \in 1 .. Total /\ ~(i + 1 <= n) /\ i + 1 \in Nat /\ i + 1 > n
          BY <1>1, <3>7, <3>8, <4>2
        <5>2. Item(i)' = txf'[i - n]
          BY <1>4, <3>7, <5>1
        <5>3. txf'[i - n] = Item(i + 1)
          BY <1>1, <1>3, <5>1
        <5> QED  BY <2>1, <3>4, <4>2, <5>1, <5>2, <5>3
      <4> QED  BY <1>1, <3>7, <4>1, <4>2
    <3>9. Total' >= Items(s) /\ Len(frame') <= Items(s)
      BY <1>1, <3>1, <3>7
    <3> QED  BY <3>2, <3>3, <3>8, <3>9 DEF Commanded
  <2> QED  BY <2>3, <2>4
<1>11. ASSUME Taken(s)  PROVE Taken(s)'
  <2>1. /\ frame = << >> /\ state # "TX_CMD"
        /\ \A i \in 1 .. m : txf[i] = <<"page", 0>>
        /\ s.how # "paged" => txf = << >>
    BY <1>11 DEF Taken, m
  <2>2. item = <<"page", 0>>
    BY <1>1, <2>1
  <2>3. frame' = frame
    <3>1. item[1] = "page"
      BY <2>2
    <3> QED  BY <1>6, <3>1
  <2>4. \A i \in 1 .. Len(txf') : txf'[i] = <<"page", 0>>
    BY <1>1, <2>1
  <2> QED  BY <2>1, <2>3, <2>4 DEF Taken
<1> QED  BY <1>10, <1>11

LEMMA TakeTurns ==
  ASSUME TypeOK, Turns, Take  PROVE TypeOK' /\ Turns' /\ mem' = mem
<1>1. /\ txf # << >> /\ txf' = Tail(txf) /\ TakenOff
      /\ UNCHANGED <<state, request, transmit, receive, complete, INT_ENABLE, isr, rxf,
                     depth, event, foreground, handlers, reply, answered, events, pages>>
  BY DEF Take, TakenOff
<1>2. TypeOK'
  <2>1. /\ Head(txf) \in Cell /\ Tail(txf) \in Seq(Cell) /\ Len(txf) \in Nat
        /\ Len(Tail(txf)) = Len(txf) - 1
    BY <1>1, HeadTaken
  <2>2. txf' \in Seq(Cell) /\ Len(txf') <= depth
    BY <1>1, <2>1 DEF TypeOK
  <2>3. frame \in Seq(Cell)
    BY DEF TypeOK
  <2>4. frame' \in Seq(Cell)
    <3> DEFINE item == Head(txf)
    <3>1. item \in Cell /\ (frame' = <<item>> \/ frame' = frame \/ frame' = Append(frame, item))
      BY <1>1, <2>1 DEF TakenOff
    <3> HIDE DEF item
    <3>2. <<item>> \in Seq(Cell) /\ Append(frame, item) \in Seq(Cell)
      BY <2>3, <3>1
    <3> QED  BY <2>3, <3>1, <3>2
  <2> QED  BY <1>1, <2>2, <2>4
           DEF TypeOK, request, transmit, receive, complete, foreground, handlers
<1>3. /\ UNCHANGED <<state, p_cmd, cmd_size, cmd_opcode, response_size, p_response>>
      /\ UNCHANGED <<response_idx, mem, completion_handler, request_in_progress, INT_ENABLE>>
      /\ UNCHANGED <<isr, rxf, reply, answered, pc, svc, busy, ispDone, last_response_length>>
  BY <1>1 DEF request, transmit, receive, complete, foreground, handlers
<1>4. UNCHANGED <<Incoming, NoOpcode>> /\ \A i \in 1 .. Incoming : Coming(i)' = Coming(i)
  BY <1>3 DEF Incoming, NoOpcode, IsMessage, Coming
<1>5. CASE PowerUp \/ Resting
  BY <1>1, <1>5 DEF PowerUp, Resting, AtRest
<1>6. CASE Serving
  <2> PICK s \in Services : /\ Waiting(s)
                            /\ Unanswered(s) \/ OnItsWay(s) \/ OpcodeHere(s) \/ StatusHere(s)
    BY <1>6 DEF Serving
  <2>1. s.how # "paged" /\ pc = "wait"
    BY DEF Waiting
  <2>2. ~Taken(s)
    BY <1>1, <2>1 DEF Taken
  <2>3. Unanswered(s)
    BY <2>2 DEF OnItsWay, OpcodeHere, StatusHere
  <2>4. Commanded(s)'
    BY <1>1, <1>3, <2>3, CommandTaken DEF Unanswered
  <2>5. Waiting(s)' /\ Unanswered(s)'
    BY <1>3, <1>4, <2>3, <2>4 DEF Waiting, Unanswered
  <2>6. Serving'
    BY <2>5 DEF Serving
  <2>7. ~Programming /\ ~Programming'
    BY <1>3, <2>1 DEF Programming
  <2> QED  BY <1>2, <1>3, <2>6, <2>7 DEF Turns
<1>7. CASE Programming
  <2> PICK s \in Services : s.how = "paged" /\ (Commanded(s) \/ Taken(s))
    BY <1>7 DEF Programming
  <2>1. Commanded(s)' \/ Taken(s)'
    BY <1>1, <1>3, CommandTaken
  <2>2. Programming'
    BY <1>3, <1>4, <1>7, <2>1 DEF Programming
  <2> QED  BY <1>2, <1>3, <1>7, <2>2 DEF Turns, Programming
<1> QED  BY <1>3, <1>5, <1>6, <1>7 DEF Turns, receive

LEMMA Joined ==
  ASSUME NEW f \in Seq(Datum), NEW g \in Seq(Datum)
  PROVE  /\ f \o g \in Seq(Datum) /\ Len(f \o g) = Len(f) + Len(g)
         /\ \A i \in 1 .. Len(f) : (f \o g)[i] = f[i]
         /\ \A i \in 1 .. Len(g) : (f \o g)[Len(f) + i] = g[i]
OBVIOUS

(* An answer is the opcode, a status and what follows it. *)
AnswerOf(op, b, p, n) == << [cmd |-> TRUE, byte |-> op], [cmd |-> FALSE, byte |-> b] >>
                         \o [i \in 1 .. n |-> [cmd |-> FALSE, byte |-> p]]

LEMMA ReplyMade ==
  ASSUME NEW op \in Nat, NEW b \in Nat, NEW p \in Nat, NEW n \in Nat
  PROVE  LET q == AnswerOf(op, b, p, n)
         IN  /\ q \in Seq(Datum) /\ Len(q) = n + 2
             /\ q[1] = [cmd |-> TRUE, byte |-> op]
             /\ ~q[2].cmd /\ q[2].byte = b
             /\ \A i \in 1 .. n + 2 : i # 1 => ~q[i].cmd
<1> DEFINE x == [cmd |-> TRUE, byte |-> op]
           y == [cmd |-> FALSE, byte |-> b]
           z == [cmd |-> FALSE, byte |-> p]
           f == <<x, y>>
           g == [i \in 1 .. n |-> z]
<1>1. x \in Datum /\ y \in Datum /\ z \in Datum /\ ~y.cmd /\ ~z.cmd /\ y.byte = b
  BY DEF Datum
<1>2. x = [cmd |-> TRUE, byte |-> op] /\ y = [cmd |-> FALSE, byte |-> b]
  OBVIOUS
<1> HIDE DEF x, y, z
<1>3. f \in Seq(Datum) /\ Len(f) = 2 /\ f[1] = x /\ f[2] = y
  BY <1>1
<1>4. g \in Seq(Datum) /\ Len(g) = n /\ \A i \in 1 .. n : g[i] = z
  BY <1>1
<1> HIDE DEF f, g
<1> DEFINE q == f \o g
<1>5. /\ q \in Seq(Datum) /\ Len(q) = n + 2 /\ q[1] = x /\ q[2] = y
      /\ \A i \in 1 .. n + 2 : i > 2 => q[i] = z
  <2>1. /\ q \in Seq(Datum) /\ Len(q) = Len(f) + Len(g)
        /\ \A i \in 1 .. Len(f) : q[i] = f[i]
        /\ \A i \in 1 .. Len(g) : q[Len(f) + i] = g[i]
    BY <1>3, <1>4, Joined
  <2> HIDE DEF q
  <2>4. q[1] = x /\ q[2] = y
    BY <1>3, <2>1
  <2>5. ASSUME NEW i \in 1 .. n + 2, i > 2  PROVE q[i] = z
    <3>1. i - 2 \in 1 .. n /\ 2 + (i - 2) = i
      BY <2>5
    <3>2. q[2 + (i - 2)] = g[i - 2]
      BY <1>3, <1>4, <2>1, <3>1
    <3> QED  BY <1>4, <3>1, <3>2
  <2>6. q \in Seq(Datum) /\ Len(q) = n + 2
    BY <1>3, <1>4, <2>1
  <2> QED  BY <2>4, <2>5, <2>6
<1>6. \A i \in 1 .. n + 2 : i # 1 => ~q[i].cmd
  BY <1>1, <1>5
<1>7. /\ q \in Seq(Datum) /\ Len(q) = n + 2 /\ q[1] = [cmd |-> TRUE, byte |-> op]
      /\ ~q[2].cmd /\ q[2].byte = b /\ \A i \in 1 .. n + 2 : i # 1 => ~q[i].cmd
  BY <1>1, <1>2, <1>5, <1>6
<1> QED  BY <1>7 DEF q, f, g, x, y, z, AnswerOf

(* The controller answers a command that it has all of. *)
LEMMA AllThere ==
  ASSUME TypeOK, NEW s \in Services, NEW t \in Services, frame # << >>, Commanded(s),
         frame[1][2] = t.op, Len(frame) = Items(t), frame' = << >>,
         UNCHANGED <<txf, state>>
  PROVE  s.op = t.op /\ state # "TX_CMD" /\ Taken(s)'
<1>1. /\ frame \in Seq(Cell) /\ Len(frame) \in Nat /\ Len(frame) >= 1
      /\ Len(txf) \in Nat /\ Total = Len(frame) + Len(txf)
  BY DEF TypeOK, Total
<1>2. /\ \A i \in 1 .. Total : Item(i) = Expected(s, i)
      /\ state = "TX_CMD" => /\ s.how # "ptr" /\ p_cmd >= 1 /\ cmd_size >= 1
                             /\ Total = p_cmd /\ p_cmd + cmd_size = s.size
      /\ state # "TX_CMD" => Total >= Items(s) /\ (s.how # "paged" => Total = Items(s))
      /\ p_cmd \in Nat /\ cmd_size \in Nat
  BY DEF Commanded, TypeOK
<1>3. /\ Items(s) \in Nat /\ Items(s) >= 1 /\ (s.how # "ptr" => Items(s) = s.size)
      /\ s.size \in Nat
  BY ServiceTyped
<1>4. 1 \in 1 .. Total /\ Item(1) = frame[1] /\ Expected(s, 1) = <<"start", s.op>>
  BY <1>1 DEF Item, Expected
<1>5. s.op = t.op
  BY <1>2, <1>4
<1>6. Items(s) = Items(t)
  BY <1>5, ServicesAssumption
<1>7. state # "TX_CMD"
  BY <1>1, <1>2, <1>3, <1>6
<1>8. s.how # "paged" => txf' = << >>
  <2>1. s.how # "paged" => Len(txf) = 0
    BY <1>1, <1>2, <1>3, <1>6, <1>7
  <2> QED  BY <2>1 DEF TypeOK
<1>9. ASSUME NEW i \in 1 .. Len(txf')  PROVE txf'[i] = <<"page", 0>>
  <2>1. s.how = "paged"
    BY <1>8, <1>9
  <2> DEFINE h == Len(frame) + i
  <2>2. /\ h \in 1 .. Total /\ h - Len(frame) = i /\ ~(h <= Len(frame)) /\ h > 1
        /\ h > s.size
    BY <1>1, <1>3, <1>6, <1>9, <2>1
  <2> HIDE DEF h
  <2>3. Item(h) = txf[i]
    BY <2>2 DEF Item
  <2>4. Expected(s, h) = <<"page", 0>>
    BY <1>1, <1>3, <2>1, <2>2 DEF Expected
  <2> QED  BY <1>2, <2>2, <2>3, <2>4
<1> QED  BY <1>5, <1>7, <1>8, <1>9 DEF Taken

LEMMA AnswerTurns ==
  ASSUME TypeOK, Turns, Answer  PROVE TypeOK' /\ Turns' /\ mem' = mem
<1> PICK t \in Services, b \in Status, p \in Payload :
      /\ frame[1][2] = t.op /\ Len(frame) = Items(t) /\ answered' = b
      /\ reply' = AnswerOf(t.op, b, p, t.length - 2)
  BY DEF Answer, AnswerOf
<1>1. /\ frame # << >> /\ reply = << >> /\ frame' = << >>
      /\ UNCHANGED <<comblk, foreground, handlers, events, pages>>
  BY DEF Answer
<1>2. /\ UNCHANGED <<state, p_cmd, cmd_size, data_size, cmd_opcode, response_size, p_response>>
      /\ UNCHANGED <<response_idx, mem, completion_handler, request_in_progress, INT_ENABLE>>
      /\ UNCHANGED <<isr, rxf, txf, depth, pc, svc, busy, ispDone, last_response_length, pages>>
  BY <1>1 DEF comblk, request, transmit, receive, complete, foreground, handlers
<1>3. /\ t.op \in Nat /\ t.op # POR /\ t.length - 2 \in Nat /\ b \in Nat /\ p \in Nat
  BY ServiceTyped, ServicesAssumption
<1> DEFINE n == t.length - 2
<1>4. n \in Nat
  BY <1>3
<1>5. /\ reply' \in Seq(Datum) /\ Len(reply') = n + 2
      /\ reply'[1] = [cmd |-> TRUE, byte |-> t.op]
      /\ ~reply'[2].cmd /\ reply'[2].byte = b
      /\ \A i \in 1 .. n + 2 : i # 1 => ~reply'[i].cmd
  <2> DEFINE q == AnswerOf(t.op, b, p, n)
  <2>1. reply' = q
    OBVIOUS
  <2> HIDE DEF n
  <2>2. /\ q \in Seq(Datum) /\ Len(q) = n + 2
        /\ q[1] = [cmd |-> TRUE, byte |-> t.op] /\ ~q[2].cmd /\ q[2].byte = b
        /\ \A i \in 1 .. n + 2 : i # 1 => ~q[i].cmd
    <3> DEFINE op == t.op
    <3>1. op \in Nat /\ b \in Nat /\ p \in Nat
      BY <1>3
    <3> HIDE DEF op
    <3>2. LET q1 == AnswerOf(op, b, p, n)
          IN  /\ q1 \in Seq(Datum) /\ Len(q1) = n + 2
              /\ q1[1] = [cmd |-> TRUE, byte |-> op]
              /\ ~q1[2].cmd /\ q1[2].byte = b
              /\ \A i \in 1 .. n + 2 : i # 1 => ~q1[i].cmd
      BY <1>4, <3>1, ReplyMade
    <3> QED  BY <3>2 DEF op
  <2> HIDE DEF q
  <2> QED  BY <2>1, <2>2
<1> HIDE DEF n
<1>6. TypeOK'
  <2>1. frame' \in Seq(Cell)
    BY <1>1
  <2> QED  BY <1>2, <1>5, <2>1 DEF TypeOK
<1>7. Len(rxf) \in Nat /\ Incoming = Len(rxf) /\ Incoming' = Len(rxf) + n + 2
  <2>1. Len(rxf) \in Nat /\ Len(reply) = 0 /\ rxf' = rxf
    BY <1>1, <1>2 DEF TypeOK
  <2> QED  BY <1>4, <1>5, <2>1 DEF Incoming
<1>8. /\ \A i \in 1 .. Len(rxf) : Coming(i) = rxf[i] /\ Coming(i)' = rxf[i]
      /\ \A i \in Nat : i > Len(rxf) => Coming(i)' = reply'[i - Len(rxf)]
  <2>1. rxf' = rxf /\ Len(rxf) \in Nat
    BY <1>2, <1>7
  <2> QED  BY <2>1 DEF Coming
<1> PICK i0 \in Nat : i0 = Len(rxf) + 1
  BY <1>7
<1>9. Coming(i0)' = [cmd |-> TRUE, byte |-> t.op] /\ i0 \in 1 .. Incoming'
  <2>1. i0 > Len(rxf) /\ i0 - Len(rxf) = 1
    BY <1>7
  <2>2. Coming(i0)' = reply'[i0 - Len(rxf)]
    BY <1>8, <2>1
  <2>3. i0 \in 1 .. Incoming'
    BY <1>4, <1>7
  <2> QED  BY <1>5, <2>1, <2>2, <2>3
<1>10. ASSUME NEW i \in 1 .. Incoming', i > i0  PROVE ~Coming(i)'.cmd
  <2>1. i \in Nat /\ i > Len(rxf) /\ i - Len(rxf) \in 1 .. n + 2 /\ i - Len(rxf) # 1
    BY <1>4, <1>7, <1>10
  <2> QED  BY <1>5, <1>8, <2>1
<1>11. ASSUME NoOpcode, NEW i \in 1 .. Incoming', i # i0  PROVE IsMessage(i)'
  <2>1. CASE i < i0
    <3>1. i \in 1 .. Len(rxf) /\ i \in 1 .. Incoming
      BY <1>7, <1>11, <2>1
    <3>2. Coming(i)' = Coming(i)
      BY <1>8, <3>1
    <3> QED  BY <1>11, <3>1, <3>2 DEF NoOpcode, IsMessage
  <2>2. CASE i > i0
    BY <1>10, <1>11, <2>2 DEF IsMessage
  <2> QED  BY <1>7, <1>11, <2>1, <2>2
<1>12. CASE PowerUp \/ Resting
  BY <1>1, <1>12 DEF PowerUp, Resting, AtRest
<1>13. CASE Serving
  <2> PICK s \in Services : /\ Waiting(s)
                            /\ Unanswered(s) \/ OnItsWay(s) \/ OpcodeHere(s) \/ StatusHere(s)
    BY <1>13 DEF Serving
  <2>1. pc = "wait"
    BY DEF Waiting
  <2>2. Unanswered(s)
    BY <1>1 DEF Taken, OnItsWay, OpcodeHere, StatusHere
  <2>3. Commanded(s) /\ NoOpcode /\ state \in {"TX_CMD", "WAIT_RESPONSE"}
    BY <2>2 DEF Unanswered
  <2>4. s.op = t.op /\ state # "TX_CMD" /\ Taken(s)'
    BY <1>1, <1>2, <2>3, AllThere
  <2>5. OpcodeAt(s, i0)'
    BY <1>9, <1>11, <2>3, <2>4 DEF OpcodeAt
  <2> PICK j0 \in Nat : j0 = i0 + 1
    OBVIOUS
  <2>6. StatusAt(i0, j0)' /\ j0 \in 1 .. Incoming'
    <3>1. /\ j0 \in i0 + 1 .. Incoming' /\ j0 > Len(rxf) /\ j0 - Len(rxf) = 2
          /\ j0 \in 1 .. Incoming'
      BY <1>4, <1>7
    <3>2. Coming(j0)' = reply'[2]
      BY <1>8, <3>1
    <3>3. \A h \in i0 + 1 .. j0 - 1 : FALSE
      OBVIOUS
    <3> QED  BY <1>5, <3>1, <3>2, <3>3 DEF StatusAt
  <2>7. OnItsWay(s)'
    BY <1>2, <1>9, <2>3, <2>4, <2>5, <2>6 DEF OnItsWay
  <2>8. Waiting(s)'
    BY <1>2 DEF Waiting
  <2>9. Serving'
    BY <2>7, <2>8 DEF Serving
  <2>10. ~Programming /\ ~Programming'
    BY <1>2, <2>1 DEF Programming
  <2>11. busy
    BY DEF Waiting
  <2> QED  BY <1>2, <1>6, <2>9, <2>10, <2>11 DEF Turns
<1>14. CASE Programming
  <2> PICK s \in Services : s.how = "paged" /\ (Commanded(s) \/ Taken(s))
    BY <1>14 DEF Programming
  <2>1. Commanded(s)
    BY <1>1 DEF Taken
  <2>2. Taken(s)'
    BY <1>1, <1>2, <2>1, AllThere
  <2>3. \A i \in 1 .. Incoming : Coming(i).cmd => Coming(i).byte # POR
    BY <1>14 DEF Programming
  <2>4. ASSUME NEW i \in 1 .. Incoming'  PROVE Coming(i)'.cmd => Coming(i)'.byte # POR
    <3>1. CASE i < i0
      <4>1. i \in 1 .. Len(rxf) /\ i \in 1 .. Incoming
        BY <1>7, <2>4, <3>1
      <4> QED  BY <1>8, <2>3, <4>1
    <3>2. CASE i = i0
      BY <1>3, <1>9, <3>2
    <3>3. CASE i > i0
      BY <1>10, <3>3
    <3> QED  BY <1>7, <3>1, <3>2, <3>3
  <2>5. Programming'
    BY <1>2, <1>14, <2>2, <2>4 DEF Programming
  <2> QED  BY <1>2, <1>6, <1>14, <2>5 DEF Turns, Programming
<1> QED  BY <1>2, <1>6, <1>12, <1>13, <1>14 DEF Turns

LEMMA PushTurns ==
  ASSUME TypeOK, Turns, Push  PROVE TypeOK' /\ Turns' /\ mem' = mem
<1>1. /\ reply # << >> /\ rxf' = Append(rxf, Head(reply)) /\ reply' = Tail(reply)
      /\ UNCHANGED <<state, p_cmd, cmd_size, data_size, cmd_opcode, response_size, p_response>>
      /\ UNCHANGED <<response_idx, mem, completion_handler, request_in_progress, INT_ENABLE>>
      /\ UNCHANGED <<isr, txf, depth, frame, answered, pc, svc, busy, ispDone>>
      /\ UNCHANGED <<last_response_length, pages>>
  BY DEF Push, request, transmit, receive, complete, foreground, handlers
<1>2. /\ rxf' \in Seq(Datum) /\ reply' \in Seq(Datum)
      /\ Incoming \in Nat /\ Incoming' = Incoming
      /\ \A i \in 1 .. Incoming : Coming(i)' = Coming(i)
  BY <1>1, Pushed
<1>3. TypeOK'
  BY <1>1, <1>2 DEF TypeOK
<1>4. \A s \in Services : (Commanded(s) => Commanded(s)') /\ (Taken(s) => Taken(s)')
  BY <1>1, CommandKept
<1>5. NoOpcode => NoOpcode'
  BY <1>2 DEF NoOpcode, IsMessage
<1>6. CASE PowerUp
  BY <1>1, <1>6 DEF PowerUp
<1>7. CASE Resting
  <2>1. Resting' /\ ~Programming /\ ~Programming'
    BY <1>1, <1>5, <1>7 DEF Resting, AtRest, Programming
  <2> QED  BY <1>1, <1>3, <2>1 DEF Turns
<1>8. CASE Serving
  <2> PICK s \in Services : /\ Waiting(s)
                            /\ Unanswered(s) \/ OnItsWay(s) \/ OpcodeHere(s) \/ StatusHere(s)
    BY <1>8 DEF Serving
  <2>1. pc = "wait" /\ busy
    BY DEF Waiting
  <2>2. \A i \in 1 .. Incoming : OpcodeAt(s, i) => OpcodeAt(s, i)'
    BY <1>2 DEF OpcodeAt, IsMessage
  <2>3. ASSUME NEW i \in 0 .. Incoming, NEW j \in 1 .. Incoming, StatusAt(i, j)
        PROVE  StatusAt(i, j)'
    <3>1. \A h \in i + 1 .. j - 1 : h \in 1 .. Incoming
      BY <1>2
    <3> QED  BY <1>1, <1>2, <2>3, <3>1 DEF StatusAt
  <2>4. 0 \in 0 .. Incoming /\ \A i \in 1 .. Incoming : i \in 0 .. Incoming
    BY <1>2
  <2>5. Unanswered(s) => Unanswered(s)'
    BY <1>1, <1>4, <1>5 DEF Unanswered
  <2>6. OnItsWay(s) => OnItsWay(s)'
    BY <1>1, <1>2, <1>4, <2>2, <2>3, <2>4 DEF OnItsWay
  <2>7. OpcodeHere(s) => OpcodeHere(s)'
    BY <1>1, <1>2, <1>4, <1>5, <2>3, <2>4 DEF OpcodeHere, Stored
  <2>8. StatusHere(s) => StatusHere(s)'
    BY <1>1, <1>4, <1>5 DEF StatusHere, Stored
  <2>9. Waiting(s)'
    BY <1>1 DEF Waiting
  <2>10. Serving'
    BY <2>5, <2>6, <2>7, <2>8, <2>9 DEF Serving
  <2>11. ~Programming /\ ~Programming'
    BY <1>1, <2>1 DEF Programming
  <2> QED  BY <1>1, <1>3, <2>1, <2>10, <2>11 DEF Turns
<1>9. CASE Programming
  <2>1. Programming'
    BY <1>1, <1>2, <1>4, <1>9 DEF Programming
  <2> QED  BY <1>1, <1>3, <1>9, <2>1 DEF Turns, Programming
<1> QED  BY <1>1, <1>3, <1>6, <1>7, <1>8, <1>9 DEF Turns

(* A message comes between what is in the FIFO and the rest of an answer. *)
LEMMA BesideMessage ==
  ASSUME TypeOK, NEW x \in Datum, x.cmd, x.byte \in Tampers, answered' = answered,
         rxf' = Append(rxf, x), reply' = reply
  PROVE  /\ NoOpcode => NoOpcode'
         /\ \A s \in Services, i \in 1 .. Incoming, j \in 1 .. Incoming :
              OpcodeAt(s, i) /\ StatusAt(i, j) =>
                \E h, l \in 1 .. Incoming' : OpcodeAt(s, h)' /\ StatusAt(h, l)'
         /\ \A j \in 1 .. Incoming :
              StatusAt(0, j) => \E l \in 1 .. Incoming' : StatusAt(0, l)'
<1> PICK k \in Nat : k = Len(rxf) + 1
  BY DEF TypeOK
<1>1. /\ Incoming \in Nat /\ Incoming' = Incoming + 1 /\ k \in 1 .. Incoming + 1
      /\ \A i \in Nat : i >= 1 /\ i < k => Coming(i)' = Coming(i)
      /\ Coming(k)' = x
      /\ \A i \in Nat : i > k /\ i <= Incoming + 1 => Coming(i)' = Coming(i - 1)
  <2>1. /\ Incoming \in Nat /\ Incoming' = Incoming + 1 /\ Len(rxf) \in 0 .. Incoming
        /\ \A i \in 1 .. Len(rxf) : Coming(i)' = Coming(i)
        /\ \A i \in Nat : i = Len(rxf) + 1 => Coming(i)' = x
        /\ \A i \in Len(rxf) + 2 .. Incoming + 1 : Coming(i)' = Coming(i - 1)
    BY Inserted
  <2>2. \A i \in Nat : i >= 1 /\ i < k => i \in 1 .. Len(rxf)
    BY <2>1
  <2>3. \A i \in Nat : i > k /\ i <= Incoming + 1 => i \in Len(rxf) + 2 .. Incoming + 1
    BY <2>1
  <2>4. k \in 1 .. Incoming + 1
    BY <2>1
  <2> QED  BY <2>1, <2>2, <2>3, <2>4
<1>2. ASSUME NEW i \in 1 .. Incoming', i # k
      PROVE  \E h \in 1 .. Incoming : Coming(i)' = Coming(h) /\ h = IF i < k THEN i ELSE i - 1
  BY <1>1, <1>2
<1>3. IsMessage(k)'
  BY <1>1 DEF IsMessage
<1>4. ASSUME NoOpcode  PROVE NoOpcode'
  <2>1. ASSUME NEW i \in 1 .. Incoming'  PROVE IsMessage(i)'
    <3>1. CASE i # k
      <4> PICK h \in 1 .. Incoming : Coming(i)' = Coming(h)
        BY <1>2, <3>1
      <4>1. IsMessage(h)
        BY <1>4 DEF NoOpcode
      <4> QED  BY <4>1 DEF IsMessage
    <3> QED  BY <1>3, <3>1
  <2> QED  BY <2>1 DEF NoOpcode
<1>5. ASSUME NEW i \in 0 .. Incoming, NEW j \in 1 .. Incoming, StatusAt(i, j),
             NEW h \in Nat, h = IF i < k THEN i ELSE i + 1,
             NEW l \in Nat, l = IF j < k THEN j ELSE j + 1
      PROVE  StatusAt(h, l)' /\ l \in 1 .. Incoming'
  <2>1. /\ j >= i + 1 /\ ~Coming(j).cmd /\ Coming(j).byte = answered
        /\ \A g \in i + 1 .. j - 1 : Coming(g).cmd
    BY <1>5 DEF StatusAt
  <2>2. /\ l \in h + 1 .. Incoming' /\ l \in 1 .. Incoming' /\ l # k
        /\ j = IF l < k THEN l ELSE l - 1
    BY <1>1, <1>5, <2>1
  <2>3. Coming(l)' = Coming(j)
    BY <1>2, <2>2
  <2>4. ASSUME NEW g \in h + 1 .. l - 1  PROVE Coming(g)'.cmd
    <3>1. g \in 1 .. Incoming' /\ g \in Nat
      BY <1>1, <2>2
    <3>2. CASE g = k
      BY <1>1, <3>2
    <3>3. CASE g # k
      <4> PICK f \in 1 .. Incoming : Coming(g)' = Coming(f) /\ f = IF g < k THEN g ELSE g - 1
        BY <1>2, <3>1, <3>3
      <4>1. f \in i + 1 .. j - 1
        BY <1>1, <1>5, <2>1, <2>2, <3>3
      <4> QED  BY <2>1, <4>1
    <3> QED  BY <3>2, <3>3
  <2> QED  BY <2>1, <2>2, <2>3, <2>4 DEF StatusAt
<1>6. ASSUME NEW s \in Services, NEW i \in 1 .. Incoming, OpcodeAt(s, i),
             NEW h \in Nat, h = IF i < k THEN i ELSE i + 1
      PROVE  OpcodeAt(s, h)' /\ h \in 1 .. Incoming'
  <2>1. /\ Coming(i) = [cmd |-> TRUE, byte |-> s.op]
        /\ \A g \in 1 .. Incoming : g # i => IsMessage(g)
    BY <1>6 DEF OpcodeAt
  <2>2. h \in 1 .. Incoming' /\ h # k /\ i = IF h < k THEN h ELSE h - 1
    BY <1>1, <1>6
  <2>3. Coming(h)' = Coming(i)
    BY <1>2, <2>2
  <2>4. ASSUME NEW g \in 1 .. Incoming', g # h  PROVE IsMessage(g)'
    <3>1. CASE g # k
      <4> PICK f \in 1 .. Incoming : Coming(g)' = Coming(f) /\ f = IF g < k THEN g ELSE g - 1
        BY <1>2, <3>1
      <4>1. f # i
        BY <1>1, <2>2, <2>4, <3>1
      <4>2. IsMessage(f)
        BY <2>1, <4>1
      <4> QED  BY <4>2 DEF IsMessage
    <3> QED  BY <1>3, <3>1
  <2> QED  BY <2>1, <2>2, <2>3, <2>4 DEF OpcodeAt
<1>7. ASSUME NEW i \in 0 .. Incoming
      PROVE  \E h \in Nat : h = IF i < k THEN i ELSE i + 1
  BY <1>1
<1>8. ASSUME NEW s \in Services, NEW i \in 1 .. Incoming, NEW j \in 1 .. Incoming,
             OpcodeAt(s, i), StatusAt(i, j)
      PROVE  \E h, l \in 1 .. Incoming' : OpcodeAt(s, h)' /\ StatusAt(h, l)'
  <2>1. i \in 0 .. Incoming /\ j \in 0 .. Incoming
    BY <1>1
  <2> PICK h \in Nat : h = IF i < k THEN i ELSE i + 1
    BY <1>7, <2>1
  <2> PICK l \in Nat : l = IF j < k THEN j ELSE j + 1
    BY <1>7, <2>1
  <2>2. OpcodeAt(s, h)' /\ h \in 1 .. Incoming'
    BY <1>6, <1>8
  <2>3. StatusAt(h, l)' /\ l \in 1 .. Incoming'
    BY <1>5, <1>8, <2>1
  <2> QED  BY <2>2, <2>3
<1>9. ASSUME NEW j \in 1 .. Incoming, StatusAt(0, j)
      PROVE  \E l \in 1 .. Incoming' : StatusAt(0, l)'
  <2> PICK i \in 0 .. Incoming : i = 0
    BY <1>1
  <2>1. j \in 0 .. Incoming /\ i \in Nat /\ i = (IF i < k THEN i ELSE i + 1) /\ StatusAt(i, j)
    BY <1>1, <1>9
  <2> PICK l \in Nat : l = IF j < k THEN j ELSE j + 1
    BY <1>7, <2>1
  <2>2. StatusAt(i, l)' /\ l \in 1 .. Incoming'
    BY <1>5, <2>1
  <2> QED  BY <2>2
<1> QED  BY <1>4, <1>8, <1>9

LEMMA MessageTurns ==
  ASSUME TypeOK, Turns, Message  PROVE TypeOK' /\ Turns' /\ mem' = mem
<1> PICK b \in Tampers : rxf' = Append(rxf, [cmd |-> TRUE, byte |-> b])
  BY DEF Message
<1> DEFINE x == [cmd |-> TRUE, byte |-> b]
<1>1. x \in Datum /\ x.cmd /\ x.byte \in Tampers /\ x.byte # POR /\ rxf' = Append(rxf, x)
  BY ServicesAssumption DEF Datum
<1> HIDE DEF x
<1>2. /\ UNCHANGED <<state, p_cmd, cmd_size, data_size, cmd_opcode, response_size, p_response>>
      /\ UNCHANGED <<response_idx, mem, completion_handler, request_in_progress, INT_ENABLE>>
      /\ UNCHANGED <<isr, txf, depth, frame, reply, answered, pc, svc, busy, ispDone>>
      /\ UNCHANGED <<last_response_length, pages>>
  BY DEF Message, request, transmit, receive, complete, foreground, handlers
<1>3. /\ rxf' \in Seq(Datum) /\ Incoming \in Nat /\ Incoming' = Incoming + 1
      /\ Len(rxf) \in 0 .. Incoming
      /\ \A i \in 1 .. Len(rxf) : Coming(i)' = Coming(i)
      /\ \A i \in Nat : i = Len(rxf) + 1 => Coming(i)' = x
      /\ \A i \in Len(rxf) + 2 .. Incoming + 1 : Coming(i)' = Coming(i - 1)
  BY <1>1, <1>2, Inserted
<1>4. TypeOK'
  BY <1>2, <1>3 DEF TypeOK
<1>5. \A s \in Services : (Commanded(s) => Commanded(s)') /\ (Taken(s) => Taken(s)')
  BY <1>2, CommandKept
<1>6. /\ NoOpcode => NoOpcode'
      /\ \A s \in Services, i \in 1 .. Incoming, j \in 1 .. Incoming :
           OpcodeAt(s, i) /\ StatusAt(i, j) =>
             \E h, l \in 1 .. Incoming' : OpcodeAt(s, h)' /\ StatusAt(h, l)'
      /\ \A j \in 1 .. Incoming :
           StatusAt(0, j) => \E l \in 1 .. Incoming' : StatusAt(0, l)'
  BY <1>1, <1>2, BesideMessage
<1>7. CASE PowerUp
  <2>1. ~Programming /\ ~Programming'
    BY <1>2, <1>7 DEF PowerUp, Programming
  <2>2. CASE state = "IDLE"
    <3>1. /\ Len(rxf) >= 2 /\ rxf[1] = [cmd |-> TRUE, byte |-> POR] /\ ~rxf[2].cmd
          /\ \A i \in 3 .. Len(rxf) : IsMessage(i)
      BY <1>7, <2>2 DEF PowerUp
    <3>2. /\ Len(rxf) \in Nat /\ Len(rxf') = Len(rxf) + 1
          /\ \A i \in 1 .. Len(rxf) : rxf'[i] = rxf[i]
      BY <1>1 DEF TypeOK
    <3>3. ASSUME NEW i \in 3 .. Len(rxf')  PROVE IsMessage(i)'
      <4>1. CASE i <= Len(rxf)
        BY <1>3, <3>1, <3>2, <4>1 DEF IsMessage
      <4>2. CASE i = Len(rxf) + 1
        <5>1. Coming(i)' = x
          BY <1>3, <3>3, <4>2
        <5> QED  BY <1>1, <5>1 DEF IsMessage
      <4> QED  BY <3>2, <4>1, <4>2
    <3>4. Len(rxf') >= 2 /\ rxf'[1] = rxf[1] /\ rxf'[2] = rxf[2]
      BY <3>1, <3>2
    <3>5. PowerUp'
      BY <1>2, <1>7, <2>2, <3>1, <3>3, <3>4 DEF PowerUp, AtRest
    <3> QED  BY <1>2, <1>4, <2>1, <3>5 DEF Turns
  <2>3. CASE state # "IDLE"
    <3>1. PowerUp'
      BY <1>2, <1>6, <1>7, <2>3 DEF PowerUp, AtRest
    <3> QED  BY <1>2, <1>4, <2>1, <3>1 DEF Turns
  <2> QED  BY <2>2, <2>3
<1>8. CASE Resting
  <2>1. Resting' /\ ~Programming /\ ~Programming'
    BY <1>2, <1>6, <1>8 DEF Resting, AtRest, Programming
  <2> QED  BY <1>2, <1>4, <2>1 DEF Turns
<1>9. CASE Serving
  <2> PICK s \in Services : /\ Waiting(s)
                            /\ Unanswered(s) \/ OnItsWay(s) \/ OpcodeHere(s) \/ StatusHere(s)
    BY <1>9 DEF Serving
  <2>1. pc = "wait" /\ busy
    BY DEF Waiting
  <2>2. Unanswered(s) => Unanswered(s)'
    BY <1>2, <1>5, <1>6 DEF Unanswered
  <2>3. OnItsWay(s) => OnItsWay(s)'
    BY <1>2, <1>5, <1>6 DEF OnItsWay
  <2>4. OpcodeHere(s) => OpcodeHere(s)'
    BY <1>2, <1>5, <1>6 DEF OpcodeHere, Stored
  <2>5. StatusHere(s) => StatusHere(s)'
    BY <1>2, <1>5, <1>6 DEF StatusHere, Stored
  <2>6. Waiting(s)'
    BY <1>2 DEF Waiting
  <2>7. Serving'
    BY <2>2, <2>3, <2>4, <2>5, <2>6 DEF Serving
  <2>8. ~Programming /\ ~Programming'
    BY <1>2, <2>1 DEF Programming
  <2> QED  BY <1>2, <1>4, <2>1, <2>7, <2>8 DEF Turns
<1>10. CASE Programming
  <2>1. \A i \in 1 .. Incoming : Coming(i).cmd => Coming(i).byte # POR
    BY <1>10 DEF Programming
  <2>2. ASSUME NEW i \in 1 .. Incoming'  PROVE Coming(i)'.cmd => Coming(i)'.byte # POR
    <3>1. CASE i <= Len(rxf)
      <4>1. i \in 1 .. Len(rxf) /\ i \in 1 .. Incoming
        BY <1>3, <3>1
      <4> QED  BY <1>3, <2>1, <4>1
    <3>2. CASE i = Len(rxf) + 1
      <4>1. Coming(i)' = x
        BY <1>3, <3>2
      <4> QED  BY <1>1, <4>1
    <3>3. CASE i > Len(rxf) + 1
      <4>1. i \in Len(rxf) + 2 .. Incoming + 1 /\ i - 1 \in 1 .. Incoming
        BY <1>3, <3>3
      <4> QED  BY <1>3, <2>1, <4>1
    <3> QED  BY <1>3, <3>1, <3>2, <3>3
  <2>3. Programming'
    BY <1>2, <1>5, <1>10, <2>2 DEF Programming
  <2> QED  BY <1>2, <1>4, <1>10, <2>3 DEF Turns, Programming
<1> QED  BY <1>2, <1>4, <1>7, <1>8, <1>9, <1>10 DEF Turns

-----------------------------------------------------------------------------
LEMMA InitTurns == ServicesInit => IInv
<1> SUFFICES ASSUME ServicesInit  PROVE IInv
  OBVIOUS
<1>1. /\ state = "IDLE" /\ cmd_opcode = 0 /\ p_cmd = 0 /\ cmd_size = 0 /\ data_size = 0
      /\ p_response = "g_response" /\ response_size = 0 /\ response_idx = 0
      /\ completion_handler = "none" /\ request_in_progress = FALSE
      /\ INT_ENABLE = {"RCVOKAY"} /\ isr = "out"
      /\ mem = [b \in Buffers |-> [i \in 0 .. 5 |-> 0]]
      /\ txf = << >> /\ depth \in Depths
      /\ pc = "idle" /\ svc \in Services /\ busy = FALSE /\ last_response_length = 0
      /\ ispDone = TRUE /\ frame = << >> /\ reply = << >> /\ pages = 0
  BY DEF ServicesInit, Init
<1>2. rxf \in Seq(Datum)
  <2>1. CASE rxf = << >>
    BY <2>1
  <2>2. ASSUME NEW f \in PorFlags, rxf = PowerOn(f)  PROVE rxf \in Seq(Datum)
    <3>1. [cmd |-> TRUE, byte |-> POR] \in Datum
      BY DEF Datum, POR
    <3>2. [cmd |-> FALSE, byte |-> f] \in Datum
      BY ServicesAssumption DEF Datum
    <3> QED  BY <2>2, <3>1, <3>2 DEF PowerOn
  <2> QED  BY <2>1, <2>2 DEF ServicesInit
<1>3. TypeOK
  <2>1. mem \in [Buffers -> [0 .. 5 -> Nat]]
    BY <1>1
  <2>2. depth \in Nat /\ Len(txf) <= depth
    <3>1. Len(txf) = 0
      BY <1>1
    <3> QED  BY <1>1, <3>1, DepthAssumption
  <2>3. txf \in Seq(Cell) /\ frame \in Seq(Cell) /\ reply \in Seq(Datum)
    BY <1>1
  <2>4. "g_response" \in Buffers
    BY BufferAssumption
  <2>5. INT_ENABLE \in SUBSET {"TXTOKAY", "RCVOKAY"}
    BY <1>1
  <2> QED  BY <1>1, <1>2, <2>1, <2>2, <2>3, <2>4, <2>5 DEF TypeOK
<1>4. AtRest
  BY <1>1 DEF AtRest
<1>5. PowerUp \/ Resting
  <2>1. CASE rxf = << >>
    <3>1. Incoming = 0
      BY <1>1, <2>1 DEF Incoming
    <3>2. NoOpcode
      BY <3>1 DEF NoOpcode
    <3> QED  BY <1>1, <1>4, <3>2 DEF Resting
  <2>2. ASSUME NEW f \in PorFlags, rxf = PowerOn(f)  PROVE PowerUp
    <3>1. Len(rxf) = 2 /\ rxf[1] = [cmd |-> TRUE, byte |-> POR] /\ ~rxf[2].cmd
      BY <2>2 DEF PowerOn
    <3> QED  BY <1>1, <1>4, <3>1 DEF PowerUp
  <2> QED  BY <2>1, <2>2 DEF ServicesInit
<1>6. ~Programming
  BY <1>1 DEF Programming
<1> QED  BY <1>1, <1>3, <1>5, <1>6 DEF IInv, Turns

(* What a step of the interrupt handler writes: to the buffer of the       *)
(* request under way, or to the driver's own.                              *)
LEMMA IrqTurns ==
  ASSUME TypeOK, Turns, Irq
  PROVE  /\ TypeOK' /\ Turns' /\ pc' = pc
         /\ mem'["stack"] # mem["stack"] => pc = "wait"
         /\ mem'["g_isp_response"] # mem["g_isp_response"] => ~ispDone
<1>1. Callbacks /\ UNCHANGED <<foreground, controller>> /\ pc' = pc
  BY DEF Irq, foreground
<1>2. "stack" \in Buffers /\ "g_isp_response" \in Buffers
  BY BufferAssumption
<1>3. CASE IrqReceive /\ UNCHANGED pages
  <2>1. TypeOK'
    BY <1>1, <1>3, ReceiveTyped
  <2>2. CASE PowerUp
    <3>1. Turns' /\ \A b \in Buffers : b # "g_response" => mem'[b] = mem[b]
      BY <1>1, <1>3, <2>2, ReceivePowerUp
    <3> QED  BY <1>1, <1>2, <2>1, <3>1
  <2>3. CASE Resting
    BY <1>1, <1>3, <2>1, <2>3, ReceiveResting
  <2>4. CASE Serving
    <3>1. Turns' /\ \A b \in Buffers : b # "stack" => mem'[b] = mem[b]
      BY <1>1, <1>3, <2>4, ReceiveServing
    <3>2. pc = "wait"
      BY <2>4 DEF Serving, Waiting
    <3> QED  BY <1>1, <1>2, <2>1, <3>1, <3>2
  <2>5. CASE Programming
    <3>1. /\ Turns'
          /\ mem' # mem => ~ispDone
          /\ \A b \in Buffers : b # "g_isp_response" => mem'[b] = mem[b]
      BY <1>1, <1>3, <2>5, ReceiveProgramming
    <3>2. mem'["stack"] = mem["stack"]
      BY <1>2, <3>1
    <3>3. mem'["g_isp_response"] # mem["g_isp_response"] => ~ispDone
      BY <3>1
    <3> QED  BY <1>1, <2>1, <3>1, <3>2, <3>3
  <2> QED  BY <2>2, <2>3, <2>4, <2>5 DEF Turns
<1>4. ASSUME NEW page \in Nat, IrqTransmit(page), pages' \in Nat
      PROVE  TypeOK' /\ Turns' /\ mem' = mem
  <2>1. Turns' /\ mem' = mem /\ Programming
    BY <1>1, <1>4, TransmitTurns
  <2>2. state = "TX_CMD" => p_cmd >= 1
    BY <2>1 DEF Programming, Commanded, Taken
  <2>3. TypeOK'
    BY <1>1, <1>4, <2>2, TransmitTyped
  <2> QED  BY <2>1, <2>3
<1>5. ASSUME NEW page \in 1 .. MaxPage, pages > 0, IrqTransmit(page),
             pages' = IF state = "TX_PAGED_DATA" /\ data_size = 0 THEN pages - 1 ELSE pages
      PROVE  TypeOK' /\ Turns' /\ mem' = mem
  <2>1. page \in Nat /\ pages' \in Nat
    BY <1>5, PageAssumption DEF TypeOK
  <2> QED  BY <1>4, <1>5, <2>1
<1>6. CASE pages = 0 /\ IrqTransmit(0) /\ UNCHANGED pages
  <2>1. 0 \in Nat /\ pages' \in Nat
    BY <1>6 DEF TypeOK
  <2> QED  BY <1>1, <1>4, <1>6, <2>1
<1> QED  BY <1>1, <1>3, <1>5, <1>6 DEF Irq

LEMMA NextTurns ==
  ASSUME TypeOK, Turns, Patient, [ServicesNext]_services
  PROVE  TypeOK' /\ Turns'
<1>1. CASE UNCHANGED services
  <2>1. /\ UNCHANGED comblk /\ UNCHANGED controller /\ UNCHANGED <<pc, svc, busy, ispDone>>
        /\ UNCHANGED <<last_response_length, pages>>
    BY <1>1 DEF services, foreground, handlers
  <2>2. /\ UNCHANGED <<state, p_cmd, cmd_size, data_size, cmd_opcode, response_size>>
        /\ UNCHANGED <<p_response, response_idx, mem, completion_handler, INT_ENABLE>>
        /\ UNCHANGED <<request_in_progress, isr, txf, rxf, depth, frame, reply, answered>>
    BY <2>1 DEF comblk, request, transmit, receive, complete, controller
  <2>3. TypeOK'
    BY <2>1, <2>2 DEF TypeOK
  <2>4. UNCHANGED <<Incoming, NoOpcode, AtRest, Total>>
    BY <2>2 DEF Incoming, NoOpcode, IsMessage, Coming, AtRest, Total
  <2>5. /\ \A s \in Services : (Commanded(s) => Commanded(s)') /\ (Taken(s) => Taken(s)')
        /\ \A i \in 1 .. Incoming : Coming(i)' = Coming(i)
    BY <2>2, CommandKept DEF Coming
  <2>6. PowerUp => PowerUp'
    BY <2>1, <2>2, <2>4 DEF PowerUp, IsMessage, Coming
  <2>7. Resting => Resting'
    BY <2>1, <2>2, <2>4 DEF Resting
  <2>8. Serving => Serving'
    <3>1. ASSUME NEW s \in Services, Waiting(s)
          PROVE  /\ Waiting(s)'
                 /\ Unanswered(s) => Unanswered(s)'
                 /\ OnItsWay(s) => OnItsWay(s)'
                 /\ OpcodeHere(s) => OpcodeHere(s)'
                 /\ StatusHere(s) => StatusHere(s)'
      <4>1. Waiting(s)'
        BY <2>1, <2>2, <3>1 DEF Waiting
      <4>2. Unanswered(s) => Unanswered(s)'
        BY <2>2, <2>4, <2>5 DEF Unanswered
      <4>3. \A i, j \in 0 .. Incoming :
              /\ OpcodeAt(s, i) => OpcodeAt(s, i)'
              /\ StatusAt(i, j) => StatusAt(i, j)'
        BY <2>2, <2>4 DEF OpcodeAt, StatusAt, IsMessage, Coming
      <4>4. 0 \in 0 .. Incoming /\ \A i \in 1 .. Incoming : i \in 0 .. Incoming
        BY DEF Incoming, TypeOK
      <4>5. OnItsWay(s) => OnItsWay(s)'
        BY <2>2, <2>4, <2>5, <4>3, <4>4 DEF OnItsWay
      <4>6. OpcodeHere(s) => OpcodeHere(s)'
        BY <2>2, <2>4, <2>5, <4>3, <4>4 DEF OpcodeHere, Stored
      <4>7. StatusHere(s) => StatusHere(s)'
        BY <2>2, <2>4, <2>5 DEF StatusHere, Stored
      <4> QED  BY <4>1, <4>2, <4>5, <4>6, <4>7
    <3> QED  BY <3>1 DEF Serving
  <2>9. Programming <=> Programming'
    <3>1. Programming => Programming'
      BY <2>1, <2>2, <2>4, <2>5 DEF Programming
    <3>2. Programming' => Programming
      <4>1. \A s \in Services : (Commanded(s)' => Commanded(s)) /\ (Taken(s)' => Taken(s))
        BY <2>2 DEF Commanded, Taken, Total, Item
      <4> QED  BY <2>1, <2>2, <2>4, <2>5, <4>1 DEF Programming
    <3> QED  BY <3>1, <3>2
  <2> QED  BY <2>1, <2>2, <2>3, <2>6, <2>7, <2>8, <2>9 DEF Turns
<1>2. CASE Irq
  BY <1>2, IrqTurns
<1>3. CASE Call
  BY <1>3, CallTurns
<1>4. CASE SignalRequestStart
  BY <1>4, StartTurns
<1>5. CASE Send
  BY <1>5, SendTurns
<1>6. CASE StartIsp
  BY <1>6, StartIspTurns
<1>7. CASE Return
  BY <1>7, ReturnTurns
<1>8. CASE Take
  BY <1>8, TakeTurns
<1>9. CASE Answer
  BY <1>9, AnswerTurns
<1>10. CASE Push
  BY <1>10, PushTurns
<1>11. CASE Message
  BY <1>11, MessageTurns
<1> QED  BY <1>1, <1>2, <1>3, <1>4, <1>5, <1>6, <1>7, <1>8, <1>9, <1>10, <1>11
         DEF ServicesNext

(* Foreground, driver and controller are always in one of the phases. *)
THEOREM ServicesInvariant ==
  ASSUME Patient  PROVE ServicesSpec => []IInv
<1>1. IInv /\ [ServicesNext]_services => IInv'
  BY NextTurns DEF IInv
<1> QED  BY <1>1, InitTurns, PTL DEF ServicesSpec

(* The controller gets the commands that services send, their bytes in     *)
(* order and none lost between MSS_COMBLK_send_cmd and the interrupts that *)
(* send the rest (fill_tx_fifo, handle_tx_okay_irq).                       *)
THEOREM CommandsArrive ==
  ASSUME Patient  PROVE ServicesSpec => []FrameIntact
<1>1. ASSUME TypeOK, NEW s \in Services, Commanded(s), frame # << >>  PROVE FrameIntact
  <2>1. /\ frame \in Seq(Cell) /\ Len(frame) \in Nat /\ Len(frame) >= 1
        /\ Len(txf) \in Nat /\ Total = Len(frame) + Len(txf)
    BY <1>1 DEF TypeOK, Total
  <2>2. \A i \in 1 .. Len(frame) : frame[i] = Expected(s, i)
    <3>1. ASSUME NEW i \in 1 .. Len(frame)  PROVE frame[i] = Expected(s, i)
      <4>1. i \in 1 .. Total /\ i <= Len(frame)
        BY <2>1
      <4>2. Item(i) = frame[i]
        BY <4>1 DEF Item
      <4> QED  BY <1>1, <4>1, <4>2 DEF Commanded
    <3> QED  BY <3>1
  <2>3. frame[1] = <<"start", s.op>>
    <3>1. 1 \in 1 .. Len(frame)
      BY <2>1
    <3>2. frame[1] = Expected(s, 1)
      BY <2>2, <3>1
    <3> QED  BY <3>2 DEF Expected
  <2>4. ASSUME NEW i \in 2 .. Len(frame)
        PROVE  frame[i] = IF s.how = "ptr" THEN <<"ptr", 0>> ELSE <<"byte", i - 1>>
    <3>1. i \in 1 .. Len(frame) /\ i > 1 /\ Len(frame) <= Items(s)
      BY <1>1, <2>1 DEF Commanded
    <3>2. s.how # "ptr" => i <= s.size
      BY <2>1, <3>1, ServiceTyped
    <3>3. frame[i] = Expected(s, i)
      BY <2>2, <3>1
    <3> QED  BY <3>1, <3>2, <3>3 DEF Expected
  <2> QED  BY <2>3, <2>4 DEF FrameIntact
<1>2. IInv => FrameIntact
  <2> SUFFICES ASSUME TypeOK, Turns, frame # << >>  PROVE FrameIntact
    BY DEF IInv, FrameIntact
  <2>1. Serving \/ Programming
    BY DEF Turns, PowerUp, Resting, AtRest
  <2>2. \E s \in Services : Commanded(s)
    <3>1. CASE Serving
      BY <3>1 DEF Serving, Unanswered, OnItsWay, OpcodeHere, StatusHere, Taken
    <3>2. CASE Programming
      BY <3>2 DEF Programming, Taken
    <3> QED  BY <2>1, <3>1, <3>2
  <2> QED  BY <1>1, <2>2
<1> QED  BY <1>2, ServicesInvariant, PTL

(* A service returns the status that the controller answered to it, when   *)
(* messages arrive between the bytes of the response, and when a response  *)
(* reads like the message of the digest check: no answer of another        *)
(* service, nothing the buffer held before.                                *)
THEOREM ResultsAreAnswers ==
  ASSUME Patient  PROVE ServicesSpec => ResultIsAnswer
<1>1. ASSUME IInv, ServicesNext, pc = "wait", pc' = "idle"  PROVE result' = answered
  <2>1. CASE Return
    BY <1>1, <2>1, ReturnTurns DEF IInv
  <2>2. CASE Irq
    BY <1>1, <2>2 DEF Irq, foreground
  <2>3. CASE Take \/ Answer \/ Push \/ Message
    BY <1>1, <2>3 DEF Take, Answer, Push, Message, foreground
  <2> QED  BY <1>1, <2>1, <2>2, <2>3
           DEF ServicesNext, Call, SignalRequestStart, Send, StartIsp
<1>2. IInv /\ [ServicesNext]_services
        => [pc = "wait" /\ pc' = "idle" => result' = answered]_services
  BY <1>1
<1> QED  BY <1>2, ServicesInvariant, PTL DEF ServicesSpec, ResultIsAnswer

(* The interrupt handler writes to the buffer on the stack of a service    *)
(* while that service waits in it, and to the buffer of ISP before the     *)
(* completion handler of ISP has been called, and at no other time.        *)
THEOREM BuffersLive ==
  ASSUME Patient  PROVE ServicesSpec => OnlyLiveBuffers
<1> DEFINE Live == /\ mem'["stack"] # mem["stack"] => pc = "wait"
                   /\ mem'["g_isp_response"] # mem["g_isp_response"] => ~ispDone
<1>1. ASSUME IInv, ServicesNext  PROVE Live
  <2>1. CASE Irq
    BY <1>1, <2>1, IrqTurns DEF IInv
  <2>2. CASE Call \/ SignalRequestStart \/ Return
    <3>1. mem' = mem
      BY <2>2 DEF Call, SignalRequestStart, Return, comblk, receive
    <3> QED  BY <3>1
  <2>3. CASE Send \/ StartIsp \/ Take \/ Answer \/ Push \/ Message
    <3>1. mem' = mem
      BY <1>1, <2>3, SendTurns, StartIspTurns, TakeTurns, AnswerTurns, PushTurns, MessageTurns
         DEF IInv
    <3> QED  BY <3>1
  <2> QED  BY <1>1, <2>1, <2>2, <2>3 DEF ServicesNext
<1>2. IInv /\ [ServicesNext]_services => [Live]_services
  BY <1>1
<1> QED  BY <1>2, ServicesInvariant, PTL DEF ServicesSpec, OnlyLiveBuffers

=============================================================================
