----------------------------- MODULE UartProofs -----------------------------
(***************************************************************************)
(* Theorems about Uart: bytes leave once and in order, the transmitter is  *)
(* said to be done only when it is, no ASSERT of the interrupt handler     *)
(* fails, and bytes are read in the order in which they arrived.  For      *)
(* every FIFO, every set of buffer sizes and applications.                 *)
(***************************************************************************)
EXTENDS Uart, Integers, TLAPS

(* What is asked of the applications: the enables are left alone while     *)
(* bytes are transmitted, and where a multimode interrupt is on no handler *)
(* of its own transmits and no interrupt is disabled, for                  *)
(* MSS_UART_disable_irq sets the bits of IEM.                              *)
Considerate ==
  /\ Careful
  /\ \A a \in Apps : ModesOf(a.mode) # {} =>
                       a.calls \cap {"disable_irq", "set_tx_handler"} = {}

-----------------------------------------------------------------------------
(* The inductive invariant. *)
Foreground == ctx["fg"]
Interrupt  == ctx["isr"]

Placed == {"or", "test", "put", "lsr", "ret"}
Places(fn) ==
  CASE fn \in {"polled_tx", "polled_tx_string", "fill_tx_fifo"} -> Placed
    [] fn = "default_tx"    -> Placed \cup {"end"}
    [] fn = "irq_tx"        -> {"buffer", "size", "idx", "enable", "ret"}
    [] fn \in {"tx_complete", "get_tx_status"} -> {"lsr", "or", "test", "ret"}
    [] fn = "get_rx"        -> {"lsr", "or", "test", "rbr", "ret"}
    [] fn = "get_rx_status" -> {"lsr", "or", "test", "clear", "ret"}
    [] fn = "get_modem_status" -> {"msr", "ret"}
    [] fn = "register"      -> {"handler", "enable", "ret"}
    [] fn \in {"enable_irq", "disable_irq"} -> {"load", "store", "ret"}
    [] fn = "enable_rx_timeout" -> {"mm0", "ret"}
    [] fn = "mmi"           -> {"iim", "ret"}
    [] OTHER                -> {"ret"}

Everywhere == Placed \cup {"end", "buffer", "size", "idx", "enable", "rbr", "clear", "msr",
                           "handler", "load", "store", "mm0", "iim"}

FgFunctions  == {"none", "polled_tx", "polled_tx_string", "fill_tx_fifo", "irq_tx",
                 "tx_complete", "get_tx_status", "get_rx", "get_rx_status", "register",
                 "enable_irq", "disable_irq", "enable_rx_timeout"}
IsrFunctions == {"none", "fill_tx_fifo", "default_tx", "get_rx", "get_rx_status",
                 "get_modem_status", "disable_irq", "mmi"}
Statuses     == Sources \cup {"DR", "ERR", "TEMT"}

Frame == [fn : FgFunctions \cup IsrFunctions, at : Everywhere, buf : Nat, size : Int,
          fill : Int, status : SUBSET Statuses, old : BOOLEAN, ret : Nat,
          todo : Seq(Sources)]

Record == [tx_buffer : Nat, tx_buff_size : Int, tx_idx : Nat, status : BOOLEAN]

TypeOK ==
  /\ app \in Apps
  /\ txfifo \in Seq(Nat) /\ shift \in Nat /\ line \in Seq(Nat)
  /\ rxfifo \in Seq(Nat) /\ arrived \in Nat /\ got \in Seq(Nat) /\ lsrError \in BOOLEAN
  /\ raised \in SUBSET Sources /\ events \in Nat
  /\ ien \in SUBSET Sources /\ modes \in SUBSET MM /\ nvic \in BOOLEAN
  /\ uart \in Record
  /\ handler \in [Sources -> {"null", "default", "user"}]
  /\ ctx \in [{"fg", "isr"} -> Frame]
  /\ asserted \in BOOLEAN /\ asked \in Nat /\ mayTx \in BOOLEAN
  /\ rest \in [buf : Nat, size : Int] /\ owed \in BOOLEAN

(* Each context runs its own functions. *)
Contexts == /\ Foreground.fn \in FgFunctions /\ Foreground.at \in Places(Foreground.fn)
            /\ Interrupt.fn \in IsrFunctions /\ Interrupt.at \in Places(Interrupt.fn)

(* What has been written to the transmitter has left, is in the shift      *)
(* register or in the FIFO, in that order and without a gap.               *)
Shifting == IF shift = 0 THEN 0 ELSE 1
Written  == Len(line) + Shifting + Len(txfifo)

InOrder(left, now, waiting) ==
  /\ \A i \in 1 .. Len(left) : left[i] = i
  /\ now # 0 => now = Len(left) + 1
  /\ \A i \in 1 .. Len(waiting) : waiting[i] = Len(left) + (IF now = 0 THEN 0 ELSE 1) + i
Consecutive == InOrder(line, shift, txfifo)

(* A context that writes has seen the FIFO empty, and stops when it may be *)
(* full.                                                                   *)
Filling == {"polled_tx", "polled_tx_string", "fill_tx_fifo", "default_tx"}
Room ==
  \A c \in {"fg", "isr"} : ctx[c].fn \in Filling =>
    /\ ctx[c].at \in {"or", "test"} /\ "THRE" \in ctx[c].status => txfifo = << >>
    /\ ctx[c].at = "put" =>
         IF ctx[c].fn = "polled_tx_string"
         THEN 0 <= ctx[c].fill /\ Len(txfifo) <= ctx[c].fill /\ ctx[c].fill < FifoSize
         ELSE 0 < ctx[c].fill /\ Len(txfifo) + ctx[c].fill <= FifoSize

(* Without its interrupt nothing is owed to the transmitter, unless the    *)
(* foreground is on its way to write it or to enable the interrupt.        *)
Silent == "THRE" \notin ien

Polling == Foreground.fn \in {"polled_tx", "polled_tx_string"} =>
  /\ Silent /\ Foreground.buf = Written /\ Written + Foreground.size = asked
  /\ IF Foreground.at = "ret" THEN Foreground.size = 0 ELSE Foreground.size > 0
  /\ Foreground.at = "put" /\ Foreground.fn = "polled_tx" => Foreground.fill <= Foreground.size

FillingOnce == Foreground.fn = "fill_tx_fifo" =>
  /\ Silent /\ Foreground.buf = Written
  /\ asked = IF Foreground.at = "put" THEN Written + Foreground.fill ELSE Written
  /\ Foreground.at \in {"lsr", "or", "test"} => Foreground.size > 0

Handing == Foreground.fn = "irq_tx" /\ Foreground.at # "ret" =>
  /\ Silent /\ ~mayTx
  /\ Foreground.buf = Written /\ Written + Foreground.size = asked /\ Foreground.size > 0
  /\ Foreground.at \in {"size", "idx", "enable"} => uart.tx_buffer = Foreground.buf
  /\ Foreground.at \in {"idx", "enable"} => uart.tx_buff_size = Foreground.size
  /\ Foreground.at = "enable" => uart.tx_idx = 0

Registering == Foreground.fn = "register" /\ Foreground.todo = <<"THRE">> /\ Foreground.at # "ret" =>
  /\ Silent /\ ~mayTx
  /\ rest.buf = Written /\ Written + rest.size = asked /\ rest.size > 0

Handed == \/ Foreground.fn \in {"polled_tx", "polled_tx_string", "fill_tx_fifo"}
          \/ Foreground.fn = "irq_tx" /\ Foreground.at # "ret"
          \/ Foreground.fn = "register" /\ Foreground.todo = <<"THRE">> /\ Foreground.at # "ret"
Idle == Silent /\ ~Handed => asked = Written

(* With its interrupt the rest is that of the buffer or that of the        *)
(* handler of the application, counted from where the interrupt handler    *)
(* stands.                                                                 *)
Sending == ~Silent /\ handler["THRE"] = "default" =>
  /\ ~mayTx /\ Interrupt.fn \notin {"fill_tx_fifo", "disable_irq"}
  /\ uart.tx_buffer + uart.tx_idx = Written /\ uart.tx_buffer + uart.tx_buff_size = asked
  /\ uart.tx_buff_size > 0
  /\ IF Interrupt.fn = "default_tx" /\ Interrupt.at = "end"
     THEN uart.tx_idx <= uart.tx_buff_size
     ELSE IF Interrupt.fn = "default_tx" /\ Interrupt.at = "put"
     THEN uart.tx_idx + Interrupt.fill <= uart.tx_buff_size
     ELSE uart.tx_idx < uart.tx_buff_size

Serving == ~Silent /\ handler["THRE"] = "user" =>
  /\ Interrupt.fn # "default_tx"
  /\ rest.buf + rest.size = asked
  /\ CASE Interrupt.fn = "fill_tx_fifo" ->
            /\ ~mayTx /\ rest.size > 0
            /\ Interrupt.buf = Written /\ rest.buf + Interrupt.ret = Written
            /\ Interrupt.ret + Interrupt.size = rest.size
            /\ Interrupt.size >= 0
            /\ Interrupt.at = "put" => Interrupt.fill <= Interrupt.size
            /\ Interrupt.at \in {"lsr", "or", "test"} => Interrupt.size > 0
       [] Interrupt.fn = "disable_irq" -> rest.size = 0 /\ rest.buf = Written
       [] OTHER -> ~mayTx /\ rest.buf = Written /\ rest.size > 0

(* The interrupt handler is in the handler that is registered. *)
Entered ==
  /\ Interrupt.fn = "default_tx" /\ Interrupt.at # "ret" => ~Silent /\ handler["THRE"] = "default"
  /\ Interrupt.fn = "fill_tx_fifo" => ~Silent /\ handler["THRE"] = "user"
  /\ Interrupt.fn = "disable_irq" =>
       /\ Interrupt.todo = <<"THRE">> /\ handler["THRE"] = "user"
       /\ Silent <=> Interrupt.at = "ret"

(* Enabled sources have handlers. *)
Handled(s) == handler[s] = "user"
Enabled ==
  /\ ~Silent => nvic /\ handler["THRE"] # "null"
  /\ \A s \in ien \ (MM \cup {"THRE"}) : Handled(s)
  /\ ModesOf(app.mode) # {} => \A s \in ien \ {"THRE"} : Handled(s)
  /\ "RTO" \in modes => Handled("RTO")
  /\ modes \subseteq ModesOf(app.mode) \cup {"RTO"}
  /\ raised \subseteq {"MS"} \cup modes
  /\ \A s \in Sources \ {"THRE"} : handler[s] # "default"
  /\ ModesOf(app.mode) # {} => Interrupt.fn \notin {"fill_tx_fifo", "disable_irq"} /\ handler["THRE"] # "user"
                            /\ Foreground.fn # "disable_irq"
                            /\ ~(Foreground.fn = "register" /\ Foreground.todo = <<"THRE">>)

Configuring ==
  /\ Foreground.fn = "register" =>
       \E s \in Sources : /\ Foreground.todo = <<s>>
                          /\ Foreground.at \in {"enable", "ret"} => Handled(s)
  /\ Foreground.fn \in {"enable_irq", "disable_irq"} =>
       /\ Silent
       /\ \E s \in Sources \ (MM \cup {"THRE"}) : Foreground.todo = <<s>> /\ Handled(s)
  /\ Foreground.fn = "enable_rx_timeout" => Handled("RTO")
  /\ \A c \in {"fg", "isr"} : ctx[c].fn \in {"enable_irq", "disable_irq"} /\ ctx[c].at = "store" =>
       \A s \in ctx[c].status :
          s \in Sources /\ IF s = "THRE" THEN c = "isr" ELSE Handled(s)
  /\ Interrupt.fn = "mmi" /\ Interrupt.at = "iim" =>
       Interrupt.todo # << >> /\ \A i \in 1 .. Len(Interrupt.todo) : Interrupt.todo[i] \in MM

Completing == Foreground.fn = "tx_complete" =>
  /\ Foreground.at \in {"or", "test"} /\ "TEMT" \in Foreground.status => Silent /\ Len(line) = asked
  /\ Foreground.at = "ret" /\ Foreground.ret = 1 => Silent /\ Len(line) = asked
  /\ Foreground.at \in {"lsr", "or", "test"} => Foreground.ret = 0

Quieted == mayTx /\ ~Silent => Interrupt.fn = "disable_irq"

(* No more is handed over than the application has. *)
Bounded ==
  /\ asked <= app.bytes
  /\ Foreground.fn = "fill_tx_fifo" /\ Foreground.at \in {"lsr", "or", "test"} =>
       asked + Foreground.size <= app.bytes

(* Bytes read, bytes in the FIFO and bytes to come are in order. *)
Ordered(read, waiting, last) ==
  /\ \A i, j \in 1 .. Len(read) : i < j => read[i] < read[j]
  /\ \A i, j \in 1 .. Len(waiting) : i < j => waiting[i] < waiting[j]
  /\ \A i \in 1 .. Len(read), j \in 1 .. Len(waiting) : read[i] < waiting[j]
  /\ \A i \in 1 .. Len(read) : 0 < read[i] /\ read[i] <= last
  /\ \A i \in 1 .. Len(waiting) : 0 < waiting[i] /\ waiting[i] <= last
Received == Ordered(got, rxfifo, arrived)

Reading ==
  /\ Foreground.fn = "get_rx" => handler["RX"] = "null"
  /\ Interrupt.fn = "get_rx" => handler["RX"] = "user"
  /\ \A c \in {"fg", "isr"} : ctx[c].fn = "get_rx" =>
       /\ ctx[c].at \in {"or", "test"} /\ "DR" \in ctx[c].status => rxfifo # << >>
       /\ ctx[c].at = "rbr" => rxfifo # << >>

IInv == /\ TypeOK /\ Contexts /\ Entered /\ Enabled /\ Configuring
        /\ Consecutive /\ Room
        /\ Polling /\ FillingOnce /\ Handing /\ Registering /\ Idle /\ Sending
        /\ Serving /\ Quieted /\ Completing /\ Bounded
        /\ Received /\ Reading

-----------------------------------------------------------------------------
(* Types. *)
LEMMA FrameMoved ==
  ASSUME NEW f \in Frame, NEW at \in Everywhere PROVE [f EXCEPT !.at = at] \in Frame
BY DEF Frame

LEMMA FrameSeen ==
  ASSUME NEW f \in Frame, NEW at \in Everywhere, NEW s \in SUBSET Statuses
  PROVE  [f EXCEPT !.status = s, !.at = at] \in Frame
BY DEF Frame

LEMMA FrameReads ==
  ASSUME NEW f \in Frame, NEW at \in Everywhere, NEW s \in SUBSET Statuses, NEW o \in BOOLEAN
  PROVE  [f EXCEPT !.status = s, !.old = o, !.at = at] \in Frame
BY DEF Frame

LEMMA FrameFills ==
  ASSUME NEW f \in Frame, NEW at \in Everywhere, NEW n \in Int
  PROVE  [f EXCEPT !.fill = n, !.at = at] \in Frame
BY DEF Frame

LEMMA FrameReturns ==
  ASSUME NEW f \in Frame, NEW at \in Everywhere, NEW n \in Nat
  PROVE  /\ [f EXCEPT !.ret = n, !.at = at] \in Frame
         /\ [f EXCEPT !.at = at, !.ret = n] \in Frame
BY DEF Frame

LEMMA FramePuts ==
  ASSUME NEW f \in Frame, NEW at \in Everywhere
  PROVE  /\ [f EXCEPT !.buf = @ + 1, !.size = @ - 1, !.fill = @ - 1,
                      !.ret = @ + 1, !.at = at] \in Frame
         /\ [f EXCEPT !.buf = @ + 1, !.size = @ - 1, !.fill = @ + 1, !.at = at] \in Frame
         /\ [f EXCEPT !.fill = @ - 1, !.at = at] \in Frame
<1>1. /\ f.buf + 1 \in Nat /\ f.size - 1 \in Int /\ f.fill - 1 \in Int /\ f.ret + 1 \in Nat
      /\ f.fill + 1 \in Int
  BY DEF Frame
<1>2. ASSUME NEW b \in Nat, NEW n \in Int, NEW k \in Int, NEW r \in Nat
      PROVE  /\ [f EXCEPT !.buf = b, !.size = n, !.fill = k, !.ret = r, !.at = at] \in Frame
             /\ [f EXCEPT !.buf = b, !.size = n, !.fill = k, !.at = at] \in Frame
             /\ [f EXCEPT !.fill = k, !.at = at] \in Frame
  BY DEF Frame
<1> QED BY ONLY <1>1, <1>2, Zenon

LEMMA FrameLooks ==
  ASSUME NEW f \in Frame, f.todo # << >>, NEW at \in Everywhere
  PROVE  [f EXCEPT !.todo = Tail(@), !.at = at] \in Frame
<1>1. Tail(f.todo) \in Seq(Sources) BY DEF Frame
<1>2. ASSUME NEW t \in Seq(Sources) PROVE [f EXCEPT !.todo = t, !.at = at] \in Frame BY DEF Frame
<1> QED BY ONLY <1>1, <1>2, Zenon

LEMMA CallTyped ==
  ASSUME NEW fn \in FgFunctions \cup IsrFunctions, NEW at \in Everywhere,
         NEW buf \in Nat, NEW n \in Int
  PROVE  /\ NoFrame \in Frame /\ Call(fn, at, buf, n) \in Frame
         /\ \A todo \in Seq(Sources) :
              [Call(fn, at, buf, n) EXCEPT !.todo = todo] \in Frame
<1>1. NoFrame \in Frame
  <2>1. "none" \in FgFunctions \cup IsrFunctions BY DEF FgFunctions
  <2>2. << >> \in Seq(Sources) /\ {} \in SUBSET Statuses OBVIOUS
  <2>3. "ret" \in Everywhere BY DEF Everywhere, Placed
  <2> QED BY <2>1, <2>2, <2>3 DEF NoFrame, Frame
<1>2. Call(fn, at, buf, n) \in Frame BY <1>1 DEF Call, Frame
<1> QED BY <1>1, <1>2 DEF Frame

LEMMA Became ==
  ASSUME TypeOK, NEW c \in {"fg", "isr"}, NEW f, Become(c, f)
  PROVE  /\ f \in Frame => ctx' \in [{"fg", "isr"} -> Frame]
         /\ ctx'[c] = f
         /\ c = "fg" => Foreground' = f /\ Interrupt' = Interrupt
         /\ c = "isr" => Interrupt' = f /\ Foreground' = Foreground
BY DEF TypeOK, Become, Foreground, Interrupt

LEMMA Gone ==
  ASSUME TypeOK, NEW c \in {"fg", "isr"}, NEW at \in Everywhere, Goto(c, at)
  PROVE  /\ Become(c, [ctx[c] EXCEPT !.at = at])
         /\ ctx' \in [{"fg", "isr"} -> Frame]
<1>1. Become(c, [ctx[c] EXCEPT !.at = at]) BY DEF TypeOK, Become, Goto
<1> QED BY <1>1, Became, FrameMoved DEF TypeOK

LEMMA Context ==
  ASSUME TypeOK, NEW c \in {"fg", "isr"} PROVE ctx[c] \in Frame
BY DEF TypeOK

LEMMA WordTyped ==
  ASSUME TypeOK, NEW b \in Nat, WriteTHR(b) PROVE txfifo' \in Seq(Nat)
BY DEF TypeOK, WriteTHR

LEMMA RecordTyped ==
  ASSUME NEW u \in Record, NEW n \in Int, NEW m \in Nat
  PROVE  /\ [u EXCEPT !.tx_buffer = m] \in Record /\ [u EXCEPT !.tx_buff_size = n] \in Record
         /\ [u EXCEPT !.tx_idx = m] \in Record
         /\ [u EXCEPT !.tx_buff_size = 0] \in Record /\ [u EXCEPT !.tx_idx = 0] \in Record
         /\ [u EXCEPT !.tx_buffer = NULL, !.tx_buff_size = 0] \in Record
         /\ \A b \in BOOLEAN : [u EXCEPT !.status = b] \in Record
<1>1. [u EXCEPT !.tx_buffer = m] \in Record /\ [u EXCEPT !.tx_buff_size = n] \in Record BY DEF Record
<1>2. [u EXCEPT !.tx_idx = m] \in Record BY DEF Record
<1>3. [u EXCEPT !.tx_buff_size = 0] \in Record /\ [u EXCEPT !.tx_idx = 0] \in Record BY DEF Record
<1>4. [u EXCEPT !.tx_buffer = NULL, !.tx_buff_size = 0] \in Record
  <2>1. NULL \in Nat /\ 0 \in Int BY DEF NULL
  <2>2. ASSUME NEW a \in Nat, NEW b \in Int
        PROVE  [u EXCEPT !.tx_buffer = a, !.tx_buff_size = b] \in Record
    BY DEF Record
  <2> QED BY ONLY <2>1, <2>2, Zenon
<1>5. ASSUME NEW b \in BOOLEAN PROVE [u EXCEPT !.status = b] \in Record BY DEF Record
<1> QED BY <1>1, <1>2, <1>3, <1>4, <1>5

LEMMA RecordFields ==
  ASSUME TypeOK
  PROVE  /\ uart.tx_buffer \in Nat /\ uart.tx_buff_size \in Int /\ uart.tx_idx \in Nat
         /\ uart.status \in BOOLEAN
BY DEF TypeOK, Record

LEMMA Multimodes ==
  /\ MM = {"RTO", "NACK", "PIDPE", "LINB", "LINS"}
  /\ Sources = {"RX", "THRE", "LS", "MS"} \cup MM
<1>1. MM = {Multimode[i] : i \in 1 .. 5} BY DEF MM, Multimode
<1>2. 1 .. 5 = {1, 2, 3, 4, 5} OBVIOUS
<1> QED BY <1>1, <1>2 DEF Multimode, Sources

(* The steps of a context, with the functions that register a handler      *)
(* taken together.                                                         *)
LEMMA Steps ==
  ASSUME NEW c \in {"fg", "isr"}, Step(c)
  PROVE  \/ ReadLsr(c) \/ OrStatus(c)
         \/ \/ MSS_UART_polled_tx(c) \/ MSS_UART_polled_tx_string(c) \/ MSS_UART_fill_tx_fifo(c)
            \/ MSS_UART_irq_tx(c) \/ default_tx_handler(c) \/ MSS_UART_tx_complete(c)
            \/ MSS_UART_get_rx(c) \/ MSS_UART_get_rx_status(c)
            \/ MSS_UART_get_tx_status(c) \/ MSS_UART_get_modem_status(c)
         \/ \E s \in Sources \ {"THRE"} : Register(c, s) /\ UNCHANGED uart
         \/ MSS_UART_set_tx_handler(c)
         \/ MSS_UART_enable_irq(c) \/ MSS_UART_disable_irq(c)
         \/ MSS_UART_enable_rx_timeout(c)
<1>1. {"RX", "LS", "MS", "RTO", "NACK", "PIDPE", "LINB", "LINS"} \subseteq Sources \ {"THRE"}
  BY Multimodes
<1>2. CASE \/ MSS_UART_set_rx_handler(c) \/ MSS_UART_set_rxstatus_handler(c)
           \/ MSS_UART_set_modemstatus_handler(c)
           \/ MSS_UART_set_pidpei_handler(c) \/ MSS_UART_set_linbreak_handler(c)
           \/ MSS_UART_set_linsync_handler(c) \/ MSS_UART_set_nack_handler(c)
           \/ MSS_UART_set_rx_timeout_handler(c)
  <2>1. \E s \in {"RX", "LS", "MS", "RTO", "NACK", "PIDPE", "LINB", "LINS"} :
          Register(c, s) /\ UNCHANGED uart
    BY <1>2 DEF MSS_UART_set_rx_handler, MSS_UART_set_rxstatus_handler,
       MSS_UART_set_modemstatus_handler, MSS_UART_set_pidpei_handler,
       MSS_UART_set_linbreak_handler, MSS_UART_set_linsync_handler,
       MSS_UART_set_nack_handler, MSS_UART_set_rx_timeout_handler
  <2> QED BY <1>1, <2>1
<1> QED BY <1>2, Zenon DEF Step

LEMMA EnablesOne ==
  ASSUME TypeOK, Configuring, Contexts, NEW c \in {"fg", "isr"}, ctx[c].fn = "enable_irq"
  PROVE  c = "fg" /\ ctx[c].todo[1] \in Sources \ (MM \cup {"THRE"}) /\ Handled(ctx[c].todo[1])
<1>1. c = "fg" BY DEF Contexts, IsrFunctions, Interrupt
<1> QED BY <1>1 DEF Configuring, Foreground

LEMMA StepTyped ==
  ASSUME TypeOK, Contexts, Configuring, FillingOnce, NEW c \in {"fg", "isr"}, Step(c)
  PROVE  TypeOK'
<1> USE DEF transmitter, receiver, hardware, control, client
<1> DEFINE k == ctx[c]
<1>a. /\ \A at \in Placed \cup {"end", "idx", "size", "enable", "ret", "rbr", "clear", "store"} :
           at \in Everywhere
      /\ LSR \in SUBSET Statuses /\ {} \in SUBSET Statuses
      /\ ien \ MM \in SUBSET Statuses
  BY DEF Everywhere, LSR, Statuses, Sources, Placed, TypeOK
<1>b. k \in Frame BY Context
<1>c. /\ k.buf \in Nat /\ k.buf + 1 \in Nat /\ k.size \in Int /\ k.fill \in Int /\ FifoSize \in Int
      /\ k.todo \in Seq(Sources)
      /\ Lesser(k.size, FifoSize) \in Int /\ 0 \in Int /\ 0 \in Nat /\ 1 \in Nat
  BY <1>b, UartAssumption DEF Frame, Lesser
<1> HIDE DEF k
<1>d. ASSUME NEW f \in Frame, Become(c, f) PROVE ctx' \in [{"fg", "isr"} -> Frame]
  BY <1>d, Became, Zenon
<1>e. ASSUME NEW at \in Placed \cup {"end", "idx", "size", "enable", "ret", "rbr", "clear", "store"},
             Goto(c, at)
      PROVE  ctx' \in [{"fg", "isr"} -> Frame]
  BY <1>a, <1>e, Gone, Zenon
<1>1. CASE ReadLsr(c)
  <2>1. [k EXCEPT !.status = LSR, !.old = uart.status, !.at = "or"] \in Frame
    BY <1>a, <1>b, RecordFields, FrameReads DEF Placed
  <2>2. ctx' \in [{"fg", "isr"} -> Frame] BY <1>1, <1>d, <2>1 DEF ReadLsr, k
  <2> QED BY <1>1, <2>2 DEF ReadLsr, TypeOK
<1>2. CASE OrStatus(c)
  <2>1. ctx' \in [{"fg", "isr"} -> Frame] BY <1>e, <1>2 DEF OrStatus, Placed
  <2>2. (ctx[c].old \/ "ERR" \in ctx[c].status) \in BOOLEAN BY Zenon
  <2>3. uart' \in Record BY <1>2, <2>2, RecordTyped, Zenon DEF OrStatus, TypeOK
  <2> QED BY <1>2, <2>1, <2>3 DEF OrStatus, TypeOK
<1>3. ASSUME NEW at \in Placed, Put(c, at) PROVE TypeOK'
  <2>1. [k EXCEPT !.buf = @ + 1, !.size = @ - 1, !.fill = @ - 1, !.ret = @ + 1, !.at = at] \in Frame
    BY <1>a, <1>b, FramePuts, Zenon
  <2>2. ctx' \in [{"fg", "isr"} -> Frame] BY <1>3, <1>d, <2>1 DEF Put, k
  <2>3. txfifo' \in Seq(Nat) BY <1>3, <1>c, WordTyped DEF Put, k
  <2> QED BY <1>3, <2>2, <2>3 DEF Put, TypeOK
<1>4. ASSUME NEW at \in Placed, Fill(c, at) PROVE ctx' \in [{"fg", "isr"} -> Frame]
  <2>1. /\ [k EXCEPT !.fill = Lesser(k.size, FifoSize), !.at = "put"] \in Frame
        /\ [k EXCEPT !.at = at] \in Frame
    BY <1>a, <1>b, <1>c, FrameFills, FrameMoved, Zenon DEF Placed
  <2> QED BY <1>4, <1>d, <2>1 DEF Fill, k
<1>5. CASE MSS_UART_polled_tx(c)
  <2>1. CASE Fill(c, "lsr") /\ UNCHANGED <<hardware, control, client, uart, asserted, owed>>
    <3>1. ctx' \in [{"fg", "isr"} -> Frame] BY <1>4, <2>1 DEF Placed
    <3> QED BY <2>1, <3>1 DEF TypeOK
  <2>2. CASE \E at \in Placed : Put(c, at) BY <1>3, <2>2
  <2> QED BY <1>5, <2>1, <2>2 DEF MSS_UART_polled_tx, Placed
<1>6. CASE MSS_UART_polled_tx_string(c)
  <2>1. ASSUME NEW at \in Placed PROVE
          /\ [k EXCEPT !.fill = 0, !.at = at] \in Frame
          /\ [k EXCEPT !.buf = @ + 1, !.size = @ - 1, !.fill = @ + 1, !.at = at] \in Frame
    BY <1>a, <1>b, <1>c, FrameFills, FramePuts, Zenon
  <2>2. ctx' \in [{"fg", "isr"} -> Frame]
    <3>1. PICK at \in Placed : \/ Become(c, [k EXCEPT !.fill = 0, !.at = at])
                               \/ Become(c, [k EXCEPT !.buf = @ + 1, !.size = @ - 1, !.fill = @ + 1,
                                                      !.at = at])
      BY <1>6 DEF MSS_UART_polled_tx_string, Placed, k
    <3> QED BY <1>d, <2>1, <3>1
  <2>3. txfifo' \in Seq(Nat)
    BY <1>6, <1>c, WordTyped DEF MSS_UART_polled_tx_string, k, TypeOK
  <2> QED BY <1>6, <2>2, <2>3 DEF MSS_UART_polled_tx_string, TypeOK
<1>7. CASE MSS_UART_fill_tx_fifo(c)
  <2>1. CASE /\ At(c, "fill_tx_fifo", "test") /\ Fill(c, "ret")
             /\ asked' = IF c = "fg" /\ Thre(c) THEN asked + Lesser(k.size, FifoSize) ELSE asked
             /\ UNCHANGED <<hardware, control, app, mayTx, rest, got, uart, asserted, owed>>
    <3>1. ctx' \in [{"fg", "isr"} -> Frame] BY <1>4, <2>1 DEF Placed
    <3>2. asked' \in Nat
      <4>1. asked \in Nat BY DEF TypeOK
      <4>2. CASE c = "fg" /\ Thre(c)
        <5>1. k.size > 0 BY <2>1, <4>2 DEF At, k, FillingOnce, Foreground
        <5>2. Lesser(k.size, FifoSize) \in Nat BY <1>c, <5>1, UartAssumption DEF Lesser
        <5> QED BY <2>1, <4>1, <4>2, <5>2
      <4> QED BY <2>1, <4>1, <4>2
    <3> QED BY <2>1, <3>1, <3>2 DEF TypeOK
  <2>2. CASE \E at \in Placed : Put(c, at) BY <1>3, <2>2
  <2> QED BY <1>7, <2>1, <2>2 DEF MSS_UART_fill_tx_fifo, Placed, k
<1>8. CASE MSS_UART_irq_tx(c)
  <2>1. ctx' \in [{"fg", "isr"} -> Frame] BY <1>8, <1>e DEF MSS_UART_irq_tx, Placed
  <2>2. uart' \in Record
    <3>1. \/ uart' = [uart EXCEPT !.tx_buffer = k.buf] \/ uart' = [uart EXCEPT !.tx_buff_size = k.size]
          \/ uart' = [uart EXCEPT !.tx_idx = 0] \/ uart' = uart
      BY <1>8 DEF MSS_UART_irq_tx, Rewound, k
    <3>2. uart \in Record BY DEF TypeOK
    <3>3. /\ [uart EXCEPT !.tx_buffer = k.buf] \in Record
          /\ [uart EXCEPT !.tx_buff_size = k.size] \in Record
          /\ [uart EXCEPT !.tx_idx = 0] \in Record
      BY ONLY <1>c, <3>2, RecordTyped, Zenon
    <3> QED BY <3>1, <3>2, <3>3
  <2>3. handler' \in [Sources -> {"null", "default", "user"}] /\ ien' \in SUBSET Sources /\ nvic' \in BOOLEAN
    BY <1>8 DEF MSS_UART_irq_tx, TypeOK, NVIC_EnableIRQ, Sources
  <2> QED BY <1>8, <2>1, <2>2, <2>3 DEF MSS_UART_irq_tx, TypeOK
<1>9. CASE default_tx_handler(c)
  <2>1. Remaining \in Int BY RecordFields, UartAssumption DEF Remaining, Lesser
  <2>2. CASE /\ Become(c, IF Thre(c) /\ Remaining > 0
                  THEN [ctx[c] EXCEPT !.fill = Remaining, !.at = "put"]
                  ELSE [ctx[c] EXCEPT !.at = "end"])
             /\ UNCHANGED <<hardware, control, client, uart, asserted, owed>>
    <3>1. [k EXCEPT !.fill = Remaining, !.at = "put"] \in Frame /\ [k EXCEPT !.at = "end"] \in Frame
      BY <1>a, <1>b, <2>1, FrameFills, FrameMoved, Zenon DEF Placed
    <3>2. ctx' \in [{"fg", "isr"} -> Frame] BY <1>d, <2>2, <3>1 DEF k
    <3> QED BY <2>2, <3>2 DEF TypeOK
  <2>3. CASE At(c, "default_tx", "put") /\ default_tx_handler(c)
    <3>1. [k EXCEPT !.fill = @ - 1, !.at = IF k.fill = 1 THEN "end" ELSE "put"] \in Frame
      BY <1>a, <1>b, FramePuts, Zenon DEF Placed
    <3>2. Become(c, [k EXCEPT !.fill = @ - 1, !.at = IF k.fill = 1 THEN "end" ELSE "put"])
      BY <2>3 DEF default_tx_handler, DefaultTxEnd, At, k
    <3>3. ctx' \in [{"fg", "isr"} -> Frame] BY <1>d, <3>1, <3>2
    <3>4. uart.tx_buffer + uart.tx_idx + 1 \in Nat /\ uart.tx_idx + 1 \in Nat BY DEF TypeOK, Record
    <3>5. WriteTHR(uart.tx_buffer + uart.tx_idx + 1) /\ uart' = [uart EXCEPT !.tx_idx = @ + 1]
      BY <2>3 DEF default_tx_handler, DefaultTxEnd, At
    <3>6. txfifo' \in Seq(Nat) BY <3>4, <3>5, WordTyped
    <3>7. uart' \in Record BY <3>4, <3>5, RecordTyped DEF TypeOK
    <3> QED BY <2>3, <3>3, <3>6, <3>7 DEF default_tx_handler, DefaultTxEnd, At, TypeOK
  <2>4. CASE DefaultTxEnd(c)
    <3>1. ctx' \in [{"fg", "isr"} -> Frame] BY <1>e, <2>4 DEF DefaultTxEnd, Placed
    <3>2. uart' \in Record BY <2>4, RecordTyped DEF DefaultTxEnd, TypeOK
    <3>3. ien' \in SUBSET Sources BY <2>4 DEF DefaultTxEnd, TypeOK
    <3> QED BY <2>4, <3>1, <3>2, <3>3 DEF DefaultTxEnd, TypeOK
  <2> QED BY <1>9, <2>2, <2>3, <2>4 DEF default_tx_handler, At
<1>10. CASE MSS_UART_tx_complete(c)
  <2>1. ASSUME NEW n \in {0, 1} PROVE [k EXCEPT !.at = "ret", !.ret = n] \in Frame
    BY <1>a, <1>b, FrameReturns DEF Placed
  <2>2. ctx' \in [{"fg", "isr"} -> Frame] BY <1>10, <1>d, <2>1 DEF MSS_UART_tx_complete, k
  <2> QED BY <1>10, <2>2 DEF MSS_UART_tx_complete, TypeOK
<1>11. CASE MSS_UART_get_rx(c)
  <2>1. [k EXCEPT !.ret = @ + 1, !.at = "lsr"] \in Frame
    <3>1. k.ret + 1 \in Nat BY <1>b DEF Frame
    <3> QED BY <1>a, <1>b, <3>1, FrameReturns, Zenon DEF Placed
  <2>2. ctx' \in [{"fg", "isr"} -> Frame]
    BY <1>11, <1>d, <1>e, <2>1 DEF MSS_UART_get_rx, Placed, k
  <2>3. got' \in Seq(Nat) /\ rxfifo' \in Seq(Nat)
    <3>1. rxfifo # << >> => Head(rxfifo) \in Nat /\ Tail(rxfifo) \in Seq(Nat) BY DEF TypeOK
    <3>2. \A b \in Nat : Append(got, b) \in Seq(Nat) BY DEF TypeOK
    <3> QED BY <1>11, <3>1, <3>2 DEF MSS_UART_get_rx, TypeOK
  <2> QED BY <1>11, <2>2, <2>3 DEF MSS_UART_get_rx, TypeOK
<1>12. CASE MSS_UART_get_rx_status(c)
  <2>1. ASSUME NEW n \in {0, 1} PROVE [k EXCEPT !.ret = n, !.at = "clear"] \in Frame
    BY <1>a, <1>b, FrameReturns DEF Placed
  <2>2. ctx' \in [{"fg", "isr"} -> Frame]
    BY <1>12, <1>d, <1>e, <2>1 DEF MSS_UART_get_rx_status, Placed, k
  <2>3. owed' \in BOOLEAN BY <1>12, Zenon DEF MSS_UART_get_rx_status, TypeOK
  <2>4. uart' \in Record BY <1>12, RecordTyped DEF MSS_UART_get_rx_status, TypeOK
  <2> QED BY <1>12, <2>2, <2>3, <2>4 DEF MSS_UART_get_rx_status, TypeOK
<1>13. CASE MSS_UART_get_tx_status(c) \/ MSS_UART_get_modem_status(c)
  <2>1. ctx' \in [{"fg", "isr"} -> Frame]
    BY <1>13, <1>e DEF MSS_UART_get_tx_status, MSS_UART_get_modem_status, Placed
  <2> QED BY <1>13, <2>1 DEF MSS_UART_get_tx_status, MSS_UART_get_modem_status, TypeOK
<1>14. ASSUME NEW s \in Sources, Register(c, s),
              \/ UNCHANGED uart
              \/ uart' = [uart EXCEPT !.tx_buffer = NULL, !.tx_buff_size = 0]
       PROVE  TypeOK'
  <2>1. ctx' \in [{"fg", "isr"} -> Frame] BY <1>14, <1>e DEF Register, Placed
  <2>2. handler' \in [Sources -> {"null", "default", "user"}]
    <3>1. \/ handler' = [handler EXCEPT ![s] = "user"] \/ handler' = handler
      BY <1>14 DEF Register
    <3> QED BY <3>1 DEF TypeOK
  <2>4. ien' \in SUBSET Sources /\ nvic' \in BOOLEAN
    BY <1>14 DEF Register, TypeOK, NVIC_EnableIRQ
  <2>3. uart' \in Record
    BY <1>14, RecordTyped DEF TypeOK
  <2> QED BY <1>14, <2>1, <2>2, <2>3, <2>4, Zenon DEF Register, TypeOK
<1>15. CASE MSS_UART_enable_irq(c) \/ MSS_UART_disable_irq(c)
  <2>1. [k EXCEPT !.status = ien \ MM, !.at = "store"] \in Frame
    BY <1>a, <1>b, FrameSeen, Zenon
  <2>2. ctx' \in [{"fg", "isr"} -> Frame]
    BY <1>15, <1>d, <1>e, <2>1 DEF MSS_UART_enable_irq, MSS_UART_disable_irq, Placed, k
  <2>3. ien' \in SUBSET Sources
    <3>1. ien \in SUBSET Sources /\ MM \subseteq Sources BY DEF TypeOK, Sources
    <3>2. CASE /\ k.fn \in {"enable_irq", "disable_irq"} /\ k.at = "store"
               /\ \/ k.fn = "enable_irq" /\ ien' = k.status \cup (ien \cap MM) \cup {k.todo[1]}
                  \/ ien' = Disabled(k.status, {k.todo[i] : i \in 1 .. Len(k.todo)})
      <4>1. k.status \subseteq Sources BY <3>2 DEF Configuring, k
      <4>2. Disabled(k.status, {k.todo[i] : i \in 1 .. Len(k.todo)}) \subseteq Sources
        BY <3>1, <4>1 DEF Disabled
      <4>3. k.fn = "enable_irq" => k.todo[1] \in Sources
        BY <3>2, EnablesOne DEF k
      <4> QED BY <3>1, <3>2, <4>1, <4>2, <4>3
    <3> QED BY <1>15, <3>1, <3>2 DEF MSS_UART_enable_irq, MSS_UART_disable_irq, At, k
  <2>4. nvic' \in BOOLEAN
    BY <1>15 DEF MSS_UART_enable_irq, MSS_UART_disable_irq, NVIC_EnableIRQ, TypeOK
  <2> QED BY <1>15, <2>2, <2>3, <2>4 DEF MSS_UART_enable_irq, MSS_UART_disable_irq, TypeOK
<1>16. CASE MSS_UART_enable_rx_timeout(c)
  <2>1. ctx' \in [{"fg", "isr"} -> Frame] BY <1>16, <1>e DEF MSS_UART_enable_rx_timeout, Placed
  <2> QED BY <1>16, <2>1, Multimodes DEF MSS_UART_enable_rx_timeout, TypeOK
<1>17. ASSUME NEW s \in Sources, Register(c, s) /\ UNCHANGED uart PROVE TypeOK' BY <1>14, <1>17
<1>18. CASE MSS_UART_set_tx_handler(c)
  <2>1. "THRE" \in Sources BY DEF Sources
  <2> QED BY <1>14, <1>18, <2>1 DEF MSS_UART_set_tx_handler
<1>19. CASE \E s \in Sources : Register(c, s) /\ UNCHANGED uart BY <1>17, <1>19
<1>20. CASE \/ MSS_UART_polled_tx(c) \/ MSS_UART_polled_tx_string(c) \/ MSS_UART_fill_tx_fifo(c)
            \/ MSS_UART_irq_tx(c) \/ default_tx_handler(c) \/ MSS_UART_tx_complete(c)
            \/ MSS_UART_get_rx(c) \/ MSS_UART_get_rx_status(c)
            \/ MSS_UART_get_tx_status(c) \/ MSS_UART_get_modem_status(c)
  BY <1>20, <1>5, <1>6, <1>7, <1>8, <1>9, <1>10, <1>11, <1>12, <1>13
<1> QED BY <1>1, <1>2, <1>15, <1>16, <1>18, <1>19, <1>20, Steps

LEMMA OthersTyped ==
  ASSUME TypeOK, Contexts, Configuring,
         MSS_UART_isr \/ Return \/ Transmit \/ Inquire \/ Configure \/ Shift \/ Arrive \/ Raise
  PROVE  TypeOK'
<1> USE DEF transmitter, receiver, hardware, control, client
<1>a. /\ \A at \in Placed \cup {"buffer", "handler", "load", "mm0", "iim", "msr"} : at \in Everywhere
      /\ {"fill_tx_fifo", "default_tx", "get_rx", "get_rx_status", "get_modem_status", "disable_irq",
          "mmi", "irq_tx", "polled_tx", "polled_tx_string", "register", "tx_complete",
          "get_tx_status", "enable_irq", "enable_rx_timeout"} \subseteq FgFunctions \cup IsrFunctions
      /\ \A n \in Sizes : n \in Int
      /\ 0 \in Nat /\ 0 \in Int /\ RxSize \in Int /\ asked \in Nat
      /\ rest.buf \in Nat /\ rest.size \in Int
      /\ Multimode \in Seq(Sources) /\ \A s \in Sources : <<s>> \in Seq(Sources)
      /\ NoFrame \in Frame
  <2>1. \A at \in Placed \cup {"buffer", "handler", "load", "mm0", "iim", "msr"} : at \in Everywhere
    BY DEF Everywhere, Placed
  <2>2. {"fill_tx_fifo", "default_tx", "get_rx", "get_rx_status", "get_modem_status", "disable_irq",
          "mmi", "irq_tx", "polled_tx", "polled_tx_string", "register", "tx_complete",
          "get_tx_status", "enable_irq", "enable_rx_timeout"} \subseteq FgFunctions \cup IsrFunctions
    BY DEF FgFunctions, IsrFunctions
  <2>3. (\A n \in Sizes : n \in Int) /\ RxSize \in Int BY UartAssumption
  <2>4. Multimode \in Seq(Sources)
    <3>1. {"RTO", "NACK", "PIDPE", "LINB", "LINS"} \subseteq Sources BY Multimodes
    <3> QED BY <3>1 DEF Multimode
  <2>5. NoFrame \in Frame
    <3>1. "none" \in FgFunctions \cup IsrFunctions /\ "ret" \in Everywhere
      BY DEF FgFunctions, Everywhere, Placed
    <3> QED BY <3>1, CallTyped
  <2> QED BY <2>1, <2>2, <2>3, <2>4, <2>5 DEF TypeOK
<1>b. ASSUME NEW fn \in {"fill_tx_fifo", "default_tx", "get_rx", "get_rx_status",
                         "get_modem_status", "disable_irq", "mmi", "irq_tx", "polled_tx",
                         "polled_tx_string", "register", "tx_complete", "get_tx_status", "enable_irq",
                         "enable_rx_timeout"},
             NEW at \in Placed \cup {"buffer", "handler", "load", "mm0", "iim", "msr"},
             NEW b \in Nat, NEW n \in Int
      PROVE  /\ Call(fn, at, b, n) \in Frame
             /\ \A todo \in Seq(Sources) : [Call(fn, at, b, n) EXCEPT !.todo = todo] \in Frame
  <2>1. fn \in FgFunctions \cup IsrFunctions /\ at \in Everywhere BY <1>a
  <2> QED BY <2>1, CallTyped, Zenon
<1>c. ASSUME NEW c \in {"fg", "isr"}, NEW f \in Frame, Become(c, f)
      PROVE  ctx' \in [{"fg", "isr"} -> Frame]
  BY <1>c, Became, Zenon
<1>1. ASSUME NEW source \in Sources, Enter(source) PROVE TypeOK'
  <2>1. ASSUME source \notin MM PROVE Handler(source) \in Frame
    <3>1. "lsr" \in Placed BY DEF Placed
    <3>2. /\ Call("get_rx", "lsr", 0, RxSize) \in Frame
          /\ Call("get_rx_status", "lsr", 0, 0) \in Frame
          /\ Call("get_modem_status", "msr", 0, 0) \in Frame
          /\ Call("default_tx", "lsr", 0, 0) \in Frame
          /\ Call("fill_tx_fifo", "lsr", rest.buf, rest.size) \in Frame
      BY <1>a, <1>b, <3>1
    <3>3. source \in {"RX", "LS", "MS", "THRE"} BY <2>1, Multimodes
    <3> QED BY <3>2, <3>3 DEF Handler
  <2>2. [Call("mmi", "iim", 0, 0) EXCEPT !.todo = Multimode] \in Frame BY <1>a, <1>b, Zenon
  <2>3. ctx' \in [{"fg", "isr"} -> Frame]
    <3>1. \/ Become("isr", [Call("mmi", "iim", 0, 0) EXCEPT !.todo = Multimode])
          \/ source \notin MM /\ Become("isr", Handler(source))
          \/ ctx' = ctx
      BY <1>1 DEF Enter
    <3> QED BY <1>c, <2>1, <2>2, <3>1 DEF TypeOK
  <2>4. asserted' \in BOOLEAN BY <1>1 DEF Enter, TypeOK
  <2> QED BY <1>1, <2>3, <2>4 DEF Enter, TypeOK
<1>2. CASE Identify
  <2> DEFINE at == IF Len(ctx["isr"].todo) = 1 THEN "ret" ELSE "iim"
  <2>1. Interrupt.fn = "mmi" /\ Interrupt.at = "iim" BY <1>2 DEF Identify, At, Interrupt
  <2>2. ctx["isr"] \in Frame /\ ctx["isr"].todo # << >>
    BY <2>1, Context DEF Configuring, Interrupt
  <2>3. at \in Everywhere BY <1>a DEF Placed
  <2>4. [ctx["isr"] EXCEPT !.todo = Tail(@), !.at = at] \in Frame
    BY ONLY <2>2, <2>3, FrameLooks, Zenon
  <2>5. ctx' \in [{"fg", "isr"} -> Frame] BY <1>2, <1>c, <2>4 DEF Identify
  <2>6. raised' \in SUBSET Sources BY <1>2 DEF Identify, TypeOK
  <2>7. asserted' \in BOOLEAN BY <1>2, Zenon DEF Identify, TypeOK
  <2> HIDE DEF at
  <2>8. UNCHANGED <<txfifo, shift, line, rxfifo, arrived, lsrError, events>>
    BY <1>2 DEF Identify, transmitter, receiver
  <2>9. UNCHANGED <<ien, modes, nvic, handler, app, asked, mayTx, rest, got, uart, owed>>
    BY <1>2 DEF Identify, control, client
  <2>10. /\ app' \in Apps /\ txfifo' \in Seq(Nat) /\ shift' \in Nat /\ line' \in Seq(Nat)
         /\ rxfifo' \in Seq(Nat) /\ arrived' \in Nat /\ got' \in Seq(Nat)
         /\ lsrError' \in BOOLEAN /\ events' \in Nat
    BY <2>8, <2>9, Zenon DEF TypeOK
  <2>11. /\ ien' \in SUBSET Sources /\ modes' \in SUBSET MM /\ nvic' \in BOOLEAN
         /\ uart' \in Record /\ handler' \in [Sources -> {"null", "default", "user"}]
         /\ asked' \in Nat /\ mayTx' \in BOOLEAN
         /\ rest' \in [buf : Nat, size : Int] /\ owed' \in BOOLEAN
    BY <2>9, Zenon DEF TypeOK
  <2> QED BY ONLY <2>5, <2>6, <2>7, <2>10, <2>11, Zenon DEF TypeOK
<1>3. CASE UartTxHandler
  <2>1. ctx["isr"].ret \in Nat BY Context DEF Frame
  <2>2. rest' \in [buf : Nat, size : Int]
    BY <1>3, <1>a, <2>1 DEF UartTxHandler, RestAfter, TypeOK
  <2>3. [Call("disable_irq", "load", 0, 0) EXCEPT !.todo = <<"THRE">>] \in Frame
    <3>1. <<"THRE">> \in Seq(Sources) BY <1>a DEF Sources
    <3> QED BY <1>a, <1>b, <3>1, Zenon
  <2>4. ctx' \in [{"fg", "isr"} -> Frame]
    <3>1. \/ Become("isr", [Call("disable_irq", "load", 0, 0) EXCEPT !.todo = <<"THRE">>])
          \/ Become("isr", NoFrame)
      BY <1>3 DEF UartTxHandler
    <3> QED BY <1>a, <1>c, <2>3, <3>1
  <2>5. mayTx' \in BOOLEAN BY <1>3, Zenon DEF UartTxHandler, TypeOK
  <2> QED BY <1>3, <2>2, <2>4, <2>5 DEF UartTxHandler, TypeOK
<1>4. CASE Leave
  <2>1. ctx' \in [{"fg", "isr"} -> Frame] BY <1>4, <1>a, <1>c DEF Leave
  <2> QED BY <1>4, <2>1 DEF Leave, TypeOK
<1>5. CASE MSS_UART_isr BY <1>1, <1>2, <1>3, <1>4, <1>5 DEF MSS_UART_isr
<1>6. CASE Return
  <2>1. ctx' \in [{"fg", "isr"} -> Frame] BY <1>6, <1>a, <1>c DEF Return
  <2>2. mayTx' \in BOOLEAN BY <1>6, Zenon DEF Return, TypeOK
  <2> QED BY <1>6, <2>1, <2>2 DEF Return, TypeOK
<1>7. CASE Transmit
  <2>1. PICK n \in Sizes : Transmit!(n) BY <1>7 DEF Transmit
  <2>2. n \in Nat /\ n \in Int /\ asked + n \in Nat BY <1>a, UartAssumption
  <2>3. PICK fn \in {"irq_tx", "polled_tx", "polled_tx_string", "fill_tx_fifo"},
             at \in {"buffer", "lsr"} :
          \E f \in {Call(fn, at, asked, n), [Call("register", "handler", 0, 0) EXCEPT !.todo = <<"THRE">>]} :
            Begin(fn, f) \/ Begin("set_tx_handler", f)
    BY <2>1
  <2>8. PICK f \in {Call(fn, at, asked, n), [Call("register", "handler", 0, 0) EXCEPT !.todo = <<"THRE">>]} :
          Begin(fn, f) \/ Begin("set_tx_handler", f)
    BY <2>3
  <2>4. f \in Frame
    <3>1. Call(fn, at, asked, n) \in Frame BY <1>a, <1>b, <2>2 DEF Placed
    <3>2. [Call("register", "handler", 0, 0) EXCEPT !.todo = <<"THRE">>] \in Frame
      <4>1. <<"THRE">> \in Seq(Sources) BY <1>a DEF Sources
      <4> QED BY <1>a, <1>b, <4>1, Zenon
    <3> QED BY <2>8, <3>1, <3>2
  <2>5. ctx' \in [{"fg", "isr"} -> Frame] BY <1>c, <2>8, <2>4 DEF Begin
  <2>6. /\ asked' \in Nat /\ mayTx' \in BOOLEAN
        /\ rest' \in [buf : Nat, size : Int]
    <3>1. rest \in [buf : Nat, size : Int] /\ [buf |-> asked, size |-> n] \in [buf : Nat, size : Int]
          /\ mayTx \in BOOLEAN /\ asked \in Nat
      BY <2>2 DEF TypeOK
    <3>2. /\ asked' \in {asked, asked + n} /\ mayTx' \in {mayTx, FALSE}
          /\ rest' \in {rest, [buf |-> asked, size |-> n]}
      BY <2>1
    <3> QED BY <2>2, <3>1, <3>2
  <2>7. UNCHANGED <<hardware, control, app, uart, asserted, owed, got>> BY <2>8 DEF Begin
  <2> QED BY <2>5, <2>6, <2>7 DEF TypeOK
<1>8. CASE Inquire
  <2>1. PICK fn \in {"tx_complete", "get_tx_status", "get_rx_status", "get_rx"}, n \in {0, RxSize} :
          Begin(fn, Call(fn, "lsr", 0, n))
    BY <1>8 DEF Inquire
  <2>2. Call(fn, "lsr", 0, n) \in Frame
    <3>1. n \in Int /\ "lsr" \in Placed BY <1>a DEF Placed
    <3> QED BY <1>a, <1>b, <3>1
  <2>3. ctx' \in [{"fg", "isr"} -> Frame] BY <1>c, <2>1, <2>2 DEF Begin
  <2> QED BY <1>8, <2>1, <2>3 DEF Inquire, Begin, TypeOK
<1>9. CASE Configure
  <2>1. app.registers \subseteq Sources \ {"THRE"} BY AppsAssumption DEF TypeOK
  <2>2. PICK fn \in {"register", "enable_irq", "disable_irq", "enable_rx_timeout"},
             at \in {"handler", "load", "mm0"}, s \in Sources :
          \E f \in {[Call(fn, at, 0, 0) EXCEPT !.todo = <<s>>], Call(fn, at, 0, 0)} : Begin(fn, f)
    <3>1. "RX" \in Sources BY DEF Sources
    <3>2. CASE \E s \in app.registers :
                 Begin("register", [Call("register", "handler", 0, 0) EXCEPT !.todo = <<s>>])
      BY <2>1, <3>2
    <3>3. CASE \E s \in app.registers \ MM, fn \in {"enable_irq", "disable_irq"} :
                 Begin(fn, [Call(fn, "load", 0, 0) EXCEPT !.todo = <<s>>])
      BY <2>1, <3>3
    <3>4. CASE Begin("enable_rx_timeout", Call("enable_rx_timeout", "mm0", 0, 0))
      BY <3>1, <3>4
    <3> QED BY <1>9, <3>2, <3>3, <3>4 DEF Configure
  <2>7. PICK f \in {[Call(fn, at, 0, 0) EXCEPT !.todo = <<s>>], Call(fn, at, 0, 0)} : Begin(fn, f)
    BY <2>2
  <2>3. f \in Frame
    <3>1. <<s>> \in Seq(Sources) BY <1>a
    <3>2. Call(fn, at, 0, 0) \in Frame /\ [Call(fn, at, 0, 0) EXCEPT !.todo = <<s>>] \in Frame
      BY <1>a, <1>b, <3>1
    <3> QED BY <2>7, <3>2
  <2>4. ctx' \in [{"fg", "isr"} -> Frame] BY <1>c, <2>7, <2>3 DEF Begin
  <2>5. UNCHANGED <<hardware, control, app, uart, asserted, owed, got>> BY <2>7 DEF Begin
  <2>6. UNCHANGED <<asked, mayTx, rest>> BY <1>9 DEF Configure
  <2> QED BY ONLY TypeOK, <2>4, <2>5, <2>6 DEF TypeOK, Record
<1>10. CASE Shift
  <2>1. txfifo # << >> => Head(txfifo) \in Nat /\ Tail(txfifo) \in Seq(Nat) BY DEF TypeOK
  <2>2. Append(line, shift) \in Seq(Nat) BY DEF TypeOK
  <2>3. UNCHANGED <<receiver, raised, events, control, client, uart, ctx, asserted, owed>>
    BY <1>10 DEF Shift
  <2>4. txfifo \in Seq(Nat) /\ line \in Seq(Nat) /\ shift \in Nat BY DEF TypeOK
  <2>5. /\ txfifo' \in {txfifo} \/ (txfifo # << >> /\ txfifo' = Tail(txfifo))
        /\ line' \in {line, Append(line, shift)}
        /\ shift' = 0 \/ (txfifo # << >> /\ shift' = Head(txfifo))
    BY <1>10 DEF Shift
  <2>6. txfifo' \in Seq(Nat) /\ shift' \in Nat /\ line' \in Seq(Nat)
    <3>1. txfifo' \in Seq(Nat) BY ONLY <2>1, <2>4, <2>5, Zenon
    <3>2. line' \in Seq(Nat) BY ONLY <2>2, <2>4, <2>5, Zenon
    <3>3. 0 \in Nat OBVIOUS
    <3>4. shift' \in Nat BY ONLY <2>1, <2>5, <3>3, Zenon
    <3> QED BY ONLY <3>1, <3>2, <3>4
  <2> QED BY ONLY TypeOK, <2>3, <2>6 DEF TypeOK
<1>11. CASE Arrive
  <2>1. arrived' \in Nat BY <1>11 DEF Arrive, TypeOK
  <2>2. Append(rxfifo, arrived') \in Seq(Nat) BY <2>1 DEF TypeOK
  <2>3. rxfifo' \in Seq(Nat) BY <1>11, <2>2 DEF Arrive, TypeOK
  <2>4. lsrError' \in BOOLEAN BY <1>11 DEF Arrive, TypeOK
  <2>5. owed' \in BOOLEAN BY <1>11, Zenon DEF Arrive, TypeOK
  <2> QED BY <1>11, <2>1, <2>3, <2>4, <2>5 DEF Arrive, TypeOK
<1>12. CASE Raise
  <2>1. raised' \in SUBSET Sources
    <3>1. PICK s \in {"MS"} \cup modes : raised' = raised \cup {s} BY <1>12 DEF Raise
    <3> QED BY <3>1, Multimodes DEF TypeOK
  <2> QED BY <1>12, <2>1 DEF Raise, TypeOK
<1> QED BY <1>5, <1>6, <1>7, <1>8, <1>9, <1>10, <1>11, <1>12

LEMMA TypeNext ==
  ASSUME TypeOK, Contexts, Configuring, FillingOnce, [Next]_vars PROVE TypeOK'
<1>1. CASE Next
  <2>1. CASE Step("fg") \/ Step("isr") BY <2>1, StepTyped
  <2> QED BY <1>1, <2>1, OthersTyped DEF Next
<1>2. CASE UNCHANGED vars
  BY <1>2 DEF vars, hardware, transmitter, receiver, control, client, TypeOK
<1> QED BY <1>1, <1>2

-----------------------------------------------------------------------------
(* Control. *)
LEMMA PlacesOf ==
  /\ \A fn \in {"polled_tx", "polled_tx_string", "fill_tx_fifo"} : Places(fn) = Placed
  /\ Places("default_tx") = Placed \cup {"end"}
  /\ Places("irq_tx") = {"buffer", "size", "idx", "enable", "ret"}
  /\ \A fn \in {"tx_complete", "get_tx_status"} : Places(fn) = {"lsr", "or", "test", "ret"}
  /\ Places("get_rx") = {"lsr", "or", "test", "rbr", "ret"}
  /\ Places("get_rx_status") = {"lsr", "or", "test", "clear", "ret"}
  /\ Places("get_modem_status") = {"msr", "ret"}
  /\ Places("register") = {"handler", "enable", "ret"}
  /\ \A fn \in {"enable_irq", "disable_irq"} : Places(fn) = {"load", "store", "ret"}
  /\ Places("enable_rx_timeout") = {"mm0", "ret"}
  /\ Places("mmi") = {"iim", "ret"}
  /\ Places("none") = {"ret"}
BY DEF Places

LEMMA PlacesKnown ==
  ASSUME NEW fn \in FgFunctions \cup IsrFunctions
  PROVE  /\ Places(fn) \subseteq Everywhere
         /\ "lsr" \in Places(fn) \/ "or" \in Places(fn) =>
              /\ {"or", "test"} \subseteq Places(fn)
              /\ fn \in Filling \cup {"tx_complete", "get_tx_status", "get_rx", "get_rx_status"}
<1>1. fn \in {"none", "polled_tx", "polled_tx_string", "fill_tx_fifo", "irq_tx",
                 "tx_complete", "get_tx_status", "get_rx", "get_rx_status", "register",
                 "enable_irq", "disable_irq", "enable_rx_timeout", "default_tx",
                 "get_modem_status", "mmi"}
  BY DEF FgFunctions, IsrFunctions
<1> QED BY <1>1, PlacesOf DEF Everywhere, Placed, Filling

(* A step of a context leaves the other alone and stays in its function.   *)
LEMMA StepStays ==
  ASSUME TypeOK, Contexts, NEW c \in {"fg", "isr"}, Step(c)
  PROVE  /\ Running(c)
         /\ \A d \in {"fg", "isr"} \ {c} : ctx'[d] = ctx[d]
         /\ ctx'[c].fn = ctx[c].fn /\ ctx'[c].todo = ctx[c].todo
         /\ ctx'[c].at \in Places(ctx[c].fn)
<1> DEFINE k == ctx[c]
           Kept(f) == /\ f.fn = k.fn /\ f.todo = k.todo
                      /\ Running(c) /\ f.at \in Places(k.fn)
           Done == \E f : Become(c, f) /\ Kept(f)
<1>1. k \in Frame BY Context
<1>2. k.at \in Places(k.fn) BY DEF Contexts, Foreground, Interrupt
<1>3. SUFFICES Done
  BY Became, Zenon DEF Become, TypeOK
<1>4. ASSUME NEW at \in Places(k.fn), Goto(c, at), Running(c) PROVE Done
  <2>1. at \in Everywhere BY <1>1, PlacesKnown DEF Frame
  <2>2. Become(c, [k EXCEPT !.at = at]) BY <1>4, <2>1, Gone
  <2>3. Kept([k EXCEPT !.at = at]) BY <1>1, <1>4 DEF Frame
  <2> QED BY <2>2, <2>3
<1>5. ASSUME NEW at \in Places(k.fn), Running(c), Put(c, at) PROVE Done
  <2> DEFINE f == [k EXCEPT !.buf = @ + 1, !.size = @ - 1, !.fill = @ - 1, !.ret = @ + 1, !.at = at]
  <2>1. Become(c, f) BY <1>5 DEF Put
  <2>2. Kept(f) BY <1>1, <1>5 DEF Frame
  <2> QED BY <2>1, <2>2
<1>6. ASSUME NEW at \in Places(k.fn), "put" \in Places(k.fn), Running(c), Fill(c, at) PROVE Done
  <2> DEFINE f == IF Thre(c)
                  THEN [k EXCEPT !.fill = Lesser(k.size, FifoSize), !.at = "put"]
                  ELSE [k EXCEPT !.at = at]
  <2>1. Become(c, f) BY <1>6 DEF Fill
  <2>2. Kept(f) BY <1>1, <1>6 DEF Frame
  <2> QED BY <2>1, <2>2
<1>7. CASE ReadLsr(c)
  <2> DEFINE f == [k EXCEPT !.status = LSR, !.old = uart.status, !.at = "or"]
  <2>1. Become(c, f) BY <1>7 DEF ReadLsr
  <2>2. "or" \in Places(k.fn) BY <1>1, <1>2, <1>7, PlacesKnown DEF ReadLsr, Frame
  <2>3. Kept(f) BY <1>1, <1>7, <2>2 DEF ReadLsr, Frame
  <2> QED BY <2>1, <2>3
<1>8. CASE OrStatus(c)
  <2>1. "test" \in Places(k.fn) BY <1>1, <1>2, <1>8, PlacesKnown DEF OrStatus, Frame
  <2> QED BY <1>4, <1>8, <2>1 DEF OrStatus
<1>9. CASE MSS_UART_polled_tx(c)
  BY <1>5, <1>6, <1>9, PlacesOf DEF MSS_UART_polled_tx, At, Placed
<1>10. CASE MSS_UART_polled_tx_string(c)
  <2>1. PICK at \in Placed :
          \/ Become(c, [k EXCEPT !.fill = 0, !.at = at])
          \/ Become(c, [k EXCEPT !.buf = @ + 1, !.size = @ - 1, !.fill = @ + 1, !.at = at])
    BY <1>10 DEF MSS_UART_polled_tx_string, Placed
  <2>2. Running(c) /\ at \in Places(k.fn)
    BY <1>10, PlacesOf DEF MSS_UART_polled_tx_string, At
  <2>3. Kept([k EXCEPT !.fill = 0, !.at = at]) BY <1>1, <2>2 DEF Frame
  <2>4. Kept([k EXCEPT !.buf = @ + 1, !.size = @ - 1, !.fill = @ + 1, !.at = at])
    BY <1>1, <2>2 DEF Frame
  <2> QED BY <2>1, <2>3, <2>4
<1>11. CASE MSS_UART_fill_tx_fifo(c)
  BY <1>5, <1>6, <1>11, PlacesOf DEF MSS_UART_fill_tx_fifo, At, Placed
<1>12. CASE MSS_UART_irq_tx(c)
  BY <1>4, <1>12, PlacesOf DEF MSS_UART_irq_tx, At
<1>13. CASE default_tx_handler(c)
  <2>1. Running(c) /\ Places(k.fn) = Placed \cup {"end"}
    BY <1>13, PlacesOf DEF default_tx_handler, DefaultTxEnd, At
  <2>2. CASE DefaultTxEnd(c) BY <1>4, <2>1, <2>2 DEF DefaultTxEnd, Placed
  <2>3. CASE ~DefaultTxEnd(c)
    <3>1. PICK at \in {"put", "end"} :
            \/ Become(c, [k EXCEPT !.fill = Remaining, !.at = at])
            \/ Become(c, [k EXCEPT !.fill = @ - 1, !.at = at])
            \/ Become(c, [k EXCEPT !.at = at])
      BY <1>13, <2>3 DEF default_tx_handler
    <3>2. /\ Kept([k EXCEPT !.fill = Remaining, !.at = at]) /\ Kept([k EXCEPT !.at = at])
          /\ Kept([k EXCEPT !.fill = @ - 1, !.at = at])
      BY <1>1, <2>1 DEF Frame, Placed
    <3> QED BY <3>1, <3>2
  <2> QED BY <2>2, <2>3
<1>14. CASE MSS_UART_tx_complete(c)
  <2>1. PICK n : Become(c, [k EXCEPT !.at = "ret", !.ret = n]) BY <1>14 DEF MSS_UART_tx_complete
  <2>2. Kept([k EXCEPT !.at = "ret", !.ret = n]) 
    BY <1>1, <1>14, PlacesOf DEF MSS_UART_tx_complete, At, Frame
  <2> QED BY <2>1, <2>2
<1>15. CASE MSS_UART_get_rx(c)
  <2>1. Kept([k EXCEPT !.ret = @ + 1, !.at = "lsr"])
    BY <1>1, <1>15, PlacesOf DEF MSS_UART_get_rx, At, Frame
  <2> QED BY <1>4, <1>15, <2>1, PlacesOf DEF MSS_UART_get_rx, At
<1>16. CASE MSS_UART_get_rx_status(c)
  <2>1. \A n : Kept([k EXCEPT !.ret = n, !.at = "clear"])
    BY <1>1, <1>16, PlacesOf DEF MSS_UART_get_rx_status, At, Frame
  <2> QED BY <1>4, <1>16, <2>1, PlacesOf DEF MSS_UART_get_rx_status, At
<1>17. CASE MSS_UART_get_tx_status(c) \/ MSS_UART_get_modem_status(c)
  BY <1>4, <1>17, PlacesOf DEF MSS_UART_get_tx_status, MSS_UART_get_modem_status, At
<1>18. ASSUME NEW s \in Sources, Register(c, s) PROVE Done
  BY <1>4, <1>18, PlacesOf DEF Register, At
<1>19. CASE MSS_UART_set_tx_handler(c)
  BY <1>18, <1>19 DEF MSS_UART_set_tx_handler, Sources
<1>20. CASE MSS_UART_enable_irq(c) \/ MSS_UART_disable_irq(c)
  <2>1. \A s : Kept([k EXCEPT !.status = s, !.at = "store"])
    BY <1>1, <1>20, PlacesOf DEF MSS_UART_enable_irq, MSS_UART_disable_irq, At, Frame
  <2> QED BY <1>4, <1>20, <2>1, PlacesOf DEF MSS_UART_enable_irq, MSS_UART_disable_irq, At
<1>21. CASE MSS_UART_enable_rx_timeout(c)
  BY <1>4, <1>21, PlacesOf DEF MSS_UART_enable_rx_timeout, At
<1> HIDE DEF Done
<1>22. CASE \E s \in Sources \ {"THRE"} : Register(c, s) /\ UNCHANGED uart BY <1>18, <1>22
<1> QED BY <1>7, <1>8, <1>9, <1>10, <1>11, <1>12, <1>13, <1>14, <1>15, <1>16, <1>17, <1>19,
           <1>20, <1>21, <1>22, Steps

LEMMA CallFields ==
  ASSUME NEW fn, NEW at, NEW b, NEW n
  PROVE  /\ Call(fn, at, b, n).fn = fn /\ Call(fn, at, b, n).at = at
         /\ Call(fn, at, b, n).buf = b /\ Call(fn, at, b, n).size = n
         /\ Call(fn, at, b, n).status = {} /\ Call(fn, at, b, n).ret = 0
         /\ Call(fn, at, b, n).todo = << >>
         /\ \A t : /\ [Call(fn, at, b, n) EXCEPT !.todo = t].fn = fn
                   /\ [Call(fn, at, b, n) EXCEPT !.todo = t].at = at
                   /\ [Call(fn, at, b, n) EXCEPT !.todo = t].todo = t
                   /\ [Call(fn, at, b, n) EXCEPT !.todo = t].status = {}
BY DEF Call, NoFrame

LEMMA NoFrameFields ==
  NoFrame.fn = "none" /\ NoFrame.at = "ret" /\ NoFrame.todo = << >>
BY DEF NoFrame

(* What a context begins with. *)
LEMMA EnterStarts ==
  ASSUME TypeOK, NEW source \in Sources, Enter(source)
  PROVE  /\ Foreground' = Foreground
         /\ Interrupt.fn = "none" /\ nvic /\ source \in Active
         /\ \/ Interrupt' = Interrupt
            \/ /\ source \in MM /\ Interrupt'.fn = "mmi" /\ Interrupt'.at = "iim" 
               /\ Interrupt'.todo = Multimode
            \/ /\ source \notin MM /\ handler[source] # "null"
               /\ Interrupt' = Handler(source)
<1>1. CASE Become("isr", [Call("mmi", "iim", 0, 0) EXCEPT !.todo = Multimode]) /\ source \in MM
  <2>1. Interrupt' = [Call("mmi", "iim", 0, 0) EXCEPT !.todo = Multimode] /\ Foreground' = Foreground
    BY <1>1, Became
  <2> QED BY <1>1, <2>1, CallFields DEF Enter, Interrupt
<1>2. CASE /\ Become("isr", Handler(source)) /\ source \notin MM
           /\ handler[source] = "user" \/ handler[source] = "default"
  <2>1. Interrupt' = Handler(source) /\ Foreground' = Foreground BY <1>2, Became
  <2> QED BY <1>2, <2>1 DEF Enter, Interrupt
<1>3. CASE UNCHANGED ctx BY <1>3 DEF Enter, Interrupt, Foreground
<1> QED BY <1>1, <1>2, <1>3 DEF Enter

LEMMA HandlerFields ==
  ASSUME NEW source \in Sources \ MM
  PROVE  /\ Handler(source).fn \in {"get_rx", "get_rx_status", "get_modem_status", "default_tx",
                                    "fill_tx_fifo"}
         /\ Handler(source).at = IF source = "MS" THEN "msr" ELSE "lsr"
         /\ Handler(source).fn = "get_rx" <=> source = "RX"
         /\ Handler(source).fn = "get_modem_status" <=> source = "MS"
         /\ Handler(source).fn = "default_tx" <=> source = "THRE" /\ handler["THRE"] = "default"
         /\ Handler(source).fn = "fill_tx_fifo" <=> source = "THRE" /\ handler["THRE"] # "default"
         /\ Handler(source).fn = "fill_tx_fifo" =>
              /\ Handler(source).buf = rest.buf /\ Handler(source).size = rest.size
         /\ Handler(source).ret = 0
<1>1. source \in {"RX", "LS", "MS", "THRE"} BY Multimodes
<1> QED BY <1>1, CallFields DEF Handler

LEMMA BeginStarts ==
  ASSUME TypeOK, NEW fn, NEW f, Begin(fn, f)
  PROVE  /\ Foreground' = f /\ Interrupt' = Interrupt
         /\ fn \in app.calls
         /\ Foreground.fn = "none" /\ Interrupt.fn = "none" /\ ~Interrupted
<1>1. Become("fg", f) BY DEF Begin
<1>2. Foreground' = f /\ Interrupt' = Interrupt BY <1>1, Became
<1> QED BY <1>2 DEF Begin, Free, Foreground, Interrupt

LEMMA ContextsNext ==
  ASSUME TypeOK, Contexts, [Next]_vars PROVE Contexts'
<1>1. ASSUME NEW c \in {"fg", "isr"}, Step(c) PROVE Contexts'
  BY <1>1, StepStays DEF Contexts, Foreground, Interrupt
<1>2. ASSUME NEW source \in Sources, Enter(source) PROVE Contexts'
  <2>1. source \notin MM => Handler(source).fn \in IsrFunctions
                            /\ Handler(source).at \in Places(Handler(source).fn)
    <3> SUFFICES ASSUME source \notin MM PROVE Handler(source).fn \in IsrFunctions
                            /\ Handler(source).at \in Places(Handler(source).fn)
      OBVIOUS
    <3> DEFINE h == Handler(source)
    <3>1. /\ h.fn \in {"get_rx", "get_rx_status", "get_modem_status", "default_tx", "fill_tx_fifo"}
          /\ h.at = IF h.fn = "get_modem_status" THEN "msr" ELSE "lsr"
      BY HandlerFields
    <3> HIDE DEF h
    <3>2. h.fn \in IsrFunctions /\ h.at \in Places(h.fn) BY <3>1, PlacesOf DEF IsrFunctions, Placed
    <3> QED BY <3>2 DEF h
  <2>2. "mmi" \in IsrFunctions /\ "iim" \in Places("mmi") BY PlacesOf DEF IsrFunctions
  <2> QED BY <1>2, <2>1, <2>2, EnterStarts DEF Contexts
<1>3. CASE Identify
  <2>1. Interrupt.fn = "mmi" BY <1>3 DEF Identify, At, Interrupt
  <2>2. PICK at \in {"ret", "iim"} : Become("isr", [Interrupt EXCEPT !.todo = Tail(@), !.at = at])
    BY <1>3 DEF Identify, Interrupt
  <2>3. Interrupt' = [Interrupt EXCEPT !.todo = Tail(@), !.at = at] /\ Foreground' = Foreground
    BY <2>2, Became
  <2>4. Interrupt'.fn = "mmi" /\ Interrupt'.at = at
    BY <2>1, <2>3, Context DEF Interrupt, Frame
  <2>5. "mmi" \in IsrFunctions BY DEF IsrFunctions
  <2> QED BY <2>2, <2>3, <2>4, <2>5, PlacesOf DEF Contexts
<1>4. CASE UartTxHandler \/ Leave
  <2>1. PICK f \in {[Call("disable_irq", "load", 0, 0) EXCEPT !.todo = <<"THRE">>], NoFrame} :
          Become("isr", f)
    BY <1>4 DEF UartTxHandler, Leave
  <2>2. Interrupt' = f /\ Foreground' = Foreground BY <2>1, Became
  <2>3. f.fn \in IsrFunctions /\ f.at \in Places(f.fn)
    <3>0. /\ [Call("disable_irq", "load", 0, 0) EXCEPT !.todo = <<"THRE">>].fn = "disable_irq"
          /\ [Call("disable_irq", "load", 0, 0) EXCEPT !.todo = <<"THRE">>].at = "load"
      BY DEF Call, NoFrame
    <3>1. (f.fn = "disable_irq" /\ f.at = "load") \/ (f.fn = "none" /\ f.at = "ret")
      BY <2>1, <3>0, NoFrameFields
    <3> QED BY <3>1, PlacesOf DEF IsrFunctions
  <2> QED BY <2>2, <2>3 DEF Contexts
<1>5. CASE Return
  <2>1. Foreground' = NoFrame /\ Interrupt' = Interrupt BY <1>5, Became DEF Return
  <2> QED BY <2>1, NoFrameFields, PlacesOf DEF Contexts, FgFunctions
<1>6. ASSUME NEW fn, NEW g, NEW at, NEW b, NEW n, NEW t, at \in Places(g), g \in FgFunctions,
             \/ Begin(fn, Call(g, at, b, n))
             \/ Begin(fn, [Call(g, at, b, n) EXCEPT !.todo = t])
      PROVE  Contexts'
  <2>1. ASSUME NEW f, Begin(fn, f), f.fn = g, f.at = at PROVE Contexts'
    BY <1>6, <2>1, BeginStarts DEF Contexts
  <2>2. Call(g, at, b, n).fn = g /\ Call(g, at, b, n).at = at
        /\ [Call(g, at, b, n) EXCEPT !.todo = t].fn = g
        /\ [Call(g, at, b, n) EXCEPT !.todo = t].at = at
    BY CallFields
  <2> QED BY <1>6, <2>1, <2>2
<1>7. CASE Transmit
  <2>1. "buffer" \in Places("irq_tx") /\ "handler" \in Places("register")
        /\ \A g \in {"polled_tx", "polled_tx_string", "fill_tx_fifo"} : "lsr" \in Places(g)
    BY PlacesOf DEF Placed
  <2>2. {"irq_tx", "register", "polled_tx", "polled_tx_string", "fill_tx_fifo"} \subseteq FgFunctions
    BY DEF FgFunctions
  <2> QED BY <1>6, <1>7, <2>1, <2>2 DEF Transmit
<1>8. CASE Inquire
  <2>1. \A g \in {"tx_complete", "get_tx_status", "get_rx_status", "get_rx"} :
          "lsr" \in Places(g) /\ g \in FgFunctions
    BY PlacesOf DEF FgFunctions
  <2> QED BY <1>6, <1>8, <2>1 DEF Inquire
<1>9. CASE Configure
  <2>1. /\ "handler" \in Places("register") /\ "mm0" \in Places("enable_rx_timeout")
        /\ \A g \in {"enable_irq", "disable_irq"} : "load" \in Places(g)
        /\ {"register", "enable_rx_timeout", "enable_irq", "disable_irq"} \subseteq FgFunctions
    BY PlacesOf DEF FgFunctions
  <2> QED BY <1>6, <1>9, <2>1 DEF Configure
<1>10. CASE Shift \/ Arrive \/ Raise \/ UNCHANGED vars
  BY <1>10 DEF Shift, Arrive, Raise, Contexts, vars, Foreground, Interrupt, control, client
<1> QED BY <1>1, <1>2, <1>3, <1>4, <1>5, <1>7, <1>8, <1>9, <1>10 DEF Next, MSS_UART_isr

(* Who changes the enables, the modes and the handlers. *)
ControlStep ==
  /\ app' = app
  /\ \/ UNCHANGED control
     \/ \E c \in {"fg", "isr"} :
          \/ /\ At(c, "irq_tx", "enable")
             /\ handler' = [handler EXCEPT !["THRE"] = "default"]
             /\ ien' = ien \cup {"THRE"} /\ nvic' = TRUE /\ modes' = modes
          \/ /\ At(c, "default_tx", "end") /\ ien' = ien \ {"THRE"}
             /\ UNCHANGED <<modes, nvic, handler>>
          \/ \E s \in Sources :
               /\ At(c, "register", "handler") /\ ctx[c].todo = <<s>>
               /\ handler' = [handler EXCEPT ![s] = "user"] /\ UNCHANGED <<ien, modes, nvic>>
          \/ \E s \in Sources :
               /\ At(c, "register", "enable") /\ ctx[c].todo = <<s>>
               /\ ien' = ien \cup {s} /\ nvic' = TRUE /\ UNCHANGED <<handler, modes>>
          \/ /\ At(c, "enable_irq", "store")
             /\ ien' = ctx[c].status \cup (ien \cap MM) \cup {ctx[c].todo[1]}
             /\ nvic' = TRUE /\ UNCHANGED <<handler, modes>>
          \/ /\ At(c, "disable_irq", "store")
             /\ ien' = Disabled(ctx[c].status, {ctx[c].todo[i] : i \in 1 .. Len(ctx[c].todo)})
             /\ UNCHANGED <<handler, modes>>
          \/ /\ At(c, "enable_rx_timeout", "mm0")
             /\ modes' = modes \cup {"RTO"} /\ UNCHANGED <<ien, nvic, handler>>

LEMMA ControlSteps == ASSUME [Next]_vars PROVE ControlStep
<1>1. ASSUME app' = app, UNCHANGED control PROVE ControlStep BY <1>1 DEF ControlStep
<1>2. ASSUME NEW c \in {"fg", "isr"}, Step(c) PROVE ControlStep
  <2>1. CASE \/ ReadLsr(c) \/ OrStatus(c) \/ MSS_UART_polled_tx(c) \/ MSS_UART_polled_tx_string(c)
             \/ MSS_UART_fill_tx_fifo(c) \/ MSS_UART_tx_complete(c)
             \/ MSS_UART_get_rx(c) \/ MSS_UART_get_rx_status(c)
             \/ MSS_UART_get_tx_status(c) \/ MSS_UART_get_modem_status(c)
    <3>1. app' = app /\ UNCHANGED control
      BY <2>1 DEF ReadLsr, OrStatus, MSS_UART_polled_tx, MSS_UART_polled_tx_string,
         MSS_UART_fill_tx_fifo, MSS_UART_tx_complete, MSS_UART_get_rx, MSS_UART_get_rx_status,
         MSS_UART_get_tx_status, MSS_UART_get_modem_status, Put, client
    <3> QED BY <3>1, <1>1
  <2>2. CASE MSS_UART_irq_tx(c)
    <3>1. /\ app' = app
          /\ \/ UNCHANGED control
             \/ /\ At(c, "irq_tx", "enable")
                /\ handler' = [handler EXCEPT !["THRE"] = "default"]
                /\ ien' = ien \cup {"THRE"} /\ nvic' = TRUE /\ modes' = modes
      BY <2>2 DEF MSS_UART_irq_tx, NVIC_EnableIRQ, client
    <3> QED BY <3>1 DEF ControlStep
  <2>3. CASE default_tx_handler(c)
    <3>1. /\ app' = app
          /\ \/ UNCHANGED control
             \/ /\ At(c, "default_tx", "end") /\ ien' = ien \ {"THRE"}
                /\ UNCHANGED <<modes, nvic, handler>>
      BY <2>3 DEF default_tx_handler, DefaultTxEnd, client, control
    <3> QED BY <3>1 DEF ControlStep
  <2>4. ASSUME NEW s \in Sources, Register(c, s) PROVE ControlStep
    <3>1. /\ app' = app
          /\ \/ /\ At(c, "register", "handler") /\ ctx[c].todo = <<s>>
                /\ handler' = [handler EXCEPT ![s] = "user"] /\ UNCHANGED <<ien, modes, nvic>>
             \/ /\ At(c, "register", "enable") /\ ctx[c].todo = <<s>>
                /\ ien' = ien \cup {s} /\ nvic' = TRUE /\ UNCHANGED <<handler, modes>>
      BY <2>4 DEF Register, NVIC_EnableIRQ, client
    <3> QED BY <3>1 DEF ControlStep
  <2>5. CASE MSS_UART_set_tx_handler(c)
    BY <2>4, <2>5 DEF MSS_UART_set_tx_handler, Sources
  <2>6. CASE \E s \in Sources \ {"THRE"} : Register(c, s) /\ UNCHANGED uart BY <2>4, <2>6
  <2>7. CASE MSS_UART_enable_irq(c)
    <3>1. /\ app' = app
          /\ \/ UNCHANGED control
             \/ /\ At(c, "enable_irq", "store")
                /\ ien' = ctx[c].status \cup (ien \cap MM) \cup {ctx[c].todo[1]}
                /\ nvic' = TRUE /\ UNCHANGED <<handler, modes>>
      BY <2>7 DEF MSS_UART_enable_irq, NVIC_EnableIRQ, client
    <3> QED BY <3>1 DEF ControlStep
  <2>8. CASE MSS_UART_disable_irq(c)
    <3>1. /\ app' = app
          /\ \/ UNCHANGED control
             \/ /\ At(c, "disable_irq", "store")
                /\ ien' = Disabled(ctx[c].status, {ctx[c].todo[i] : i \in 1 .. Len(ctx[c].todo)})
                /\ UNCHANGED <<handler, modes>>
      BY <2>8 DEF MSS_UART_disable_irq, client
    <3> QED BY <3>1 DEF ControlStep
  <2>9. CASE MSS_UART_enable_rx_timeout(c)
    <3>1. /\ app' = app
          /\ /\ At(c, "enable_rx_timeout", "mm0")
             /\ modes' = modes \cup {"RTO"} /\ UNCHANGED <<ien, nvic, handler>>
      BY <2>9 DEF MSS_UART_enable_rx_timeout, client
    <3> QED BY <3>1 DEF ControlStep
  <2> QED BY <1>2, <2>1, <2>2, <2>3, <2>5, <2>6, <2>7, <2>8, <2>9, Steps
<1>3. CASE \/ MSS_UART_isr \/ Return \/ Shift \/ Arrive \/ Raise \/ UNCHANGED vars
  <2>1. app' = app /\ UNCHANGED control
    BY <1>3 DEF MSS_UART_isr, Enter, Identify, UartTxHandler, Leave, Return,
       Shift, Arrive, Raise, client, vars
  <2> QED BY <1>1, <2>1
<1>4. CASE Transmit \/ Inquire \/ Configure
  <2>1. app' = app /\ UNCHANGED control
    BY <1>4 DEF Transmit, Inquire, Configure, Begin
  <2> QED BY <1>1, <2>1
<1> QED BY <1>2, <1>3, <1>4 DEF Next

(* A handler of the application stays, but for that of the transmitter;    *)
(* only the foreground touches handlers and modes.                         *)
LEMMA HandlersStay ==
  ASSUME TypeOK, Contexts, Configuring, [Next]_vars
  PROVE  /\ \A s \in Sources \ {"THRE"} :
              /\ Handled(s) => Handled(s)'
              /\ handler[s] # "default" => handler'[s] # "default"
              /\ handler'[s] # handler[s] =>
                   /\ Foreground.fn = "register" /\ Foreground.at = "handler"
                   /\ Foreground.todo = <<s>>
         /\ handler'["THRE"] # handler["THRE"] =>
              /\ Running("fg")
              /\ \/ /\ Foreground.fn = "irq_tx" /\ Foreground.at = "enable"
                    /\ handler'["THRE"] = "default"
                 \/ /\ Foreground.fn = "register" /\ Foreground.at = "handler"
                    /\ Foreground.todo = <<"THRE">> /\ handler'["THRE"] = "user"
         /\ modes' # modes => Foreground.fn = "enable_rx_timeout" /\ modes' = modes \cup {"RTO"}
<1>1. ControlStep BY ControlSteps
<1>2. handler \in [Sources -> {"null", "default", "user"}] BY DEF TypeOK
<1>3. Interrupt.fn \notin {"irq_tx", "register", "enable_rx_timeout"}
  BY DEF Contexts, IsrFunctions
<1>4. "THRE" \in Sources BY DEF Sources
<1>5. CASE UNCHANGED control BY <1>5 DEF control, Handled
<1>6. CASE UNCHANGED <<handler, modes>> BY <1>6 DEF Handled
<1>7. ASSUME NEW c \in {"fg", "isr"}, At(c, "irq_tx", "enable"),
             handler' = [handler EXCEPT !["THRE"] = "default"], modes' = modes
      PROVE  /\ c = "fg" /\ Running("fg") /\ Foreground.fn = "irq_tx" /\ Foreground.at = "enable"
             /\ handler'["THRE"] = "default"
             /\ \A s \in Sources \ {"THRE"} : handler'[s] = handler[s]
  BY <1>2, <1>3, <1>4, <1>7 DEF At, Foreground, Interrupt
<1>8. ASSUME NEW c \in {"fg", "isr"}, NEW s \in Sources,
             At(c, "register", "handler"), ctx[c].todo = <<s>>,
             handler' = [handler EXCEPT ![s] = "user"], modes' = modes
      PROVE  /\ c = "fg" /\ Running("fg") /\ Foreground.fn = "register" /\ Foreground.at = "handler"
             /\ Foreground.todo = <<s>> /\ handler'[s] = "user"
             /\ \A r \in Sources : r # s => handler'[r] = handler[r]
  BY <1>2, <1>3, <1>8 DEF At, Foreground, Interrupt
<1>9. ASSUME NEW c \in {"fg", "isr"}, At(c, "enable_rx_timeout", "mm0")
      PROVE  Foreground.fn = "enable_rx_timeout"
  BY <1>3, <1>9 DEF At, Foreground, Interrupt
<1>10. CASE \E c \in {"fg", "isr"} : At(c, "irq_tx", "enable") /\ modes' = modes
              /\ handler' = [handler EXCEPT !["THRE"] = "default"]
  <2>1. /\ Running("fg") /\ Foreground.fn = "irq_tx" /\ Foreground.at = "enable"
        /\ handler'["THRE"] = "default"
        /\ \A s \in Sources \ {"THRE"} : handler'[s] = handler[s]
    BY <1>7, <1>10
  <2> QED BY ONLY <1>10, <2>1 DEF Handled
<1>11. CASE \E c \in {"fg", "isr"}, s \in Sources : 
              /\ At(c, "register", "handler") /\ ctx[c].todo = <<s>>
              /\ handler' = [handler EXCEPT ![s] = "user"] /\ modes' = modes
  <2>1. PICK s \in Sources : 
           /\ Running("fg") /\ Foreground.fn = "register" /\ Foreground.at = "handler"
           /\ Foreground.todo = <<s>> /\ handler'[s] = "user"
           /\ \A r \in Sources : r # s => handler'[r] = handler[r]
    BY <1>8, <1>11
  <2> QED BY ONLY <1>11, <2>1, <1>4 DEF Handled
<1>12. CASE \E c \in {"fg", "isr"} : /\ At(c, "enable_rx_timeout", "mm0")
                                     /\ modes' = modes \cup {"RTO"} /\ handler' = handler
  <2>1. Foreground.fn = "enable_rx_timeout" BY <1>9, <1>12
  <2> QED BY ONLY <1>12, <2>1 DEF Handled
<1> QED BY <1>1, <1>5, <1>6, <1>10, <1>11, <1>12 DEF ControlStep

(* The enables change only so. *)
LEMMA EnablesStep ==
  ASSUME TypeOK, Contexts, Configuring, Entered, [Next]_vars
  PROVE  \/ ien' = ien /\ (nvic => nvic')
         \/ /\ Running("fg") /\ Foreground.fn = "irq_tx" /\ Foreground.at = "enable"
            /\ ien' = ien \cup {"THRE"} /\ nvic' /\ handler'["THRE"] = "default"
         \/ /\ Running("isr") /\ Interrupt.fn = "default_tx" /\ Interrupt.at = "end"
            /\ ien' = ien \ {"THRE"}
         \/ \E s \in Sources :
              /\ Running("fg") /\ Foreground.fn = "register" /\ Foreground.at = "enable"
              /\ Foreground.todo = <<s>>
              /\ ien' = ien \cup {s} /\ nvic' /\ handler' = handler
         \/ \E s \in Sources \ (MM \cup {"THRE"}) :
              /\ Running("fg") /\ Foreground.fn = "enable_irq" /\ Foreground.at = "store"
              /\ Handled(s)
              /\ ien' = Foreground.status \cup (ien \cap MM) \cup {s} /\ nvic' /\ handler' = handler
         \/ \E c \in {"fg", "isr"} :
              /\ Running(c) /\ ctx[c].fn = "disable_irq" /\ ctx[c].at = "store"
              /\ ien' \subseteq (ctx[c].status \ {"THRE"}) \cup MM /\ handler' = handler
<1>1. ControlStep BY ControlSteps
<1>2. Interrupt.fn \notin {"irq_tx", "register", "enable_irq"} /\ Foreground.fn # "default_tx"
  BY DEF Contexts, IsrFunctions, FgFunctions
<1>3. ASSUME NEW c \in {"fg", "isr"}, At(c, "enable_irq", "store")
      PROVE  /\ c = "fg" /\ Running("fg") /\ Foreground.fn = "enable_irq" /\ Foreground.at = "store"
             /\ ctx[c].status = Foreground.status
             /\ ctx[c].todo[1] \in Sources \ (MM \cup {"THRE"}) /\ Handled(ctx[c].todo[1])
  BY <1>3, EnablesOne, <1>2 DEF At, Foreground, Interrupt
<1>4. ASSUME NEW c \in {"fg", "isr"}, At(c, "disable_irq", "store"),
             ien' = Disabled(ctx[c].status, {ctx[c].todo[i] : i \in 1 .. Len(ctx[c].todo)})
      PROVE  /\ Running(c) /\ ctx[c].fn = "disable_irq" /\ ctx[c].at = "store"
             /\ ien' \subseteq (ctx[c].status \ {"THRE"}) \cup MM
  <2>1. Running(c) /\ ctx[c].fn = "disable_irq" /\ ctx[c].at = "store" BY <1>4 DEF At
  <2>2. "THRE" \in ctx[c].status => c = "isr" BY <2>1 DEF Configuring
  <2>3. c = "isr" => ctx[c].todo = <<"THRE">> BY <2>1 DEF Entered, Interrupt
  <2>4. "THRE" \in ctx[c].status => "THRE" \in {ctx[c].todo[i] : i \in 1 .. Len(ctx[c].todo)}
    <3> SUFFICES ASSUME "THRE" \in ctx[c].status
                 PROVE  "THRE" \in {ctx[c].todo[i] : i \in 1 .. Len(ctx[c].todo)}
      OBVIOUS
    <3>1. Len(ctx[c].todo) = 1 /\ ctx[c].todo[1] = "THRE" BY <2>2, <2>3
    <3> QED BY <3>1
  <2> QED BY <1>4, <2>1, <2>4 DEF Disabled
<1>5. CASE \E c \in {"fg", "isr"} :
             /\ At(c, "enable_irq", "store")
             /\ ien' = ctx[c].status \cup (ien \cap MM) \cup {ctx[c].todo[1]}
             /\ nvic' = TRUE /\ UNCHANGED <<handler, modes>>
  BY <1>3, <1>5
<1>6. CASE \E c \in {"fg", "isr"} :
             /\ At(c, "disable_irq", "store")
             /\ ien' = Disabled(ctx[c].status, {ctx[c].todo[i] : i \in 1 .. Len(ctx[c].todo)})
             /\ UNCHANGED <<handler, modes>>
  BY <1>4, <1>6
<1>7. CASE \E c \in {"fg", "isr"} :
             /\ At(c, "irq_tx", "enable")
             /\ handler' = [handler EXCEPT !["THRE"] = "default"]
             /\ ien' = ien \cup {"THRE"} /\ nvic' = TRUE /\ modes' = modes
  <2>1. Running("fg") /\ Foreground.fn = "irq_tx" /\ Foreground.at = "enable"
    BY <1>2, <1>7 DEF At, Foreground, Interrupt
  <2>2. handler'["THRE"] = "default" BY <1>7 DEF TypeOK, Sources
  <2> QED BY <1>7, <2>1, <2>2
<1>8. CASE \E c \in {"fg", "isr"} :
             /\ At(c, "default_tx", "end") /\ ien' = ien \ {"THRE"}
             /\ UNCHANGED <<modes, nvic, handler>>
  <2>1. Running("isr") /\ Interrupt.fn = "default_tx" /\ Interrupt.at = "end"
    BY <1>2, <1>8 DEF At, Foreground, Interrupt
  <2> QED BY <1>8, <2>1
<1>9. CASE \E c \in {"fg", "isr"}, s \in Sources :
             /\ At(c, "register", "enable") /\ ctx[c].todo = <<s>>
             /\ ien' = ien \cup {s} /\ nvic' = TRUE /\ UNCHANGED <<handler, modes>>
  <2>1. PICK s \in Sources :
             /\ Running("fg") /\ Foreground.fn = "register" /\ Foreground.at = "enable"
             /\ Foreground.todo = <<s>>
             /\ ien' = ien \cup {s} /\ nvic' /\ handler' = handler
    BY <1>2, <1>9 DEF At, Foreground, Interrupt
  <2> QED BY <2>1
<1>10. CASE ien' = ien /\ nvic' = nvic BY <1>10
<1> QED BY <1>1, <1>5, <1>6, <1>7, <1>8, <1>9, <1>10 DEF ControlStep, control

LEMMA FgSteps ==
  ASSUME TypeOK, Contexts, Step("fg")
  PROVE  /\ Interrupt.fn = "none" /\ Interrupt' = Interrupt /\ ~Interrupted
         /\ Foreground.fn # "none"
         /\ Foreground'.fn = Foreground.fn /\ Foreground'.todo = Foreground.todo
<1>1. /\ Running("fg") /\ ctx'["isr"] = ctx["isr"]
      /\ ctx'["fg"].fn = ctx["fg"].fn /\ ctx'["fg"].todo = ctx["fg"].todo
  BY StepStays
<1> QED BY <1>1 DEF Running, Foreground, Interrupt

LEMMA IsrSteps ==
  ASSUME TypeOK, Contexts, Step("isr")
  PROVE  /\ Foreground' = Foreground /\ Interrupt.fn # "none"
         /\ Interrupt'.fn = Interrupt.fn /\ Interrupt'.todo = Interrupt.todo
<1>1. /\ Running("isr") /\ ctx'["fg"] = ctx["fg"]
      /\ ctx'["isr"].fn = ctx["isr"].fn /\ ctx'["isr"].todo = ctx["isr"].todo
  BY StepStays
<1> QED BY <1>1 DEF Running, Foreground, Interrupt

LEMMA IdentifyMoves ==
  ASSUME TypeOK, Contexts, Configuring, Identify
  PROVE  /\ Foreground' = Foreground /\ Interrupt.fn = "mmi" /\ Interrupt.at = "iim"
         /\ Interrupt'.fn = "mmi" /\ Interrupt'.todo = Tail(Interrupt.todo)
         /\ Interrupt'.at = IF Len(Interrupt.todo) = 1 THEN "ret" ELSE "iim"
<1> DEFINE at == IF Len(Interrupt.todo) = 1 THEN "ret" ELSE "iim"
<1>1. Interrupt.fn = "mmi" /\ Interrupt.at = "iim" BY DEF Identify, At, Interrupt
<1>2. Become("isr", [Interrupt EXCEPT !.todo = Tail(@), !.at = at]) BY DEF Identify, Interrupt
<1> HIDE DEF at
<1>3. Interrupt' = [Interrupt EXCEPT !.todo = Tail(@), !.at = at] /\ Foreground' = Foreground
  BY <1>2, Became
<1>4. Interrupt'.fn = "mmi" /\ Interrupt'.todo = Tail(Interrupt.todo) /\ Interrupt'.at = at
  BY <1>1, <1>3, Context DEF Interrupt, Frame
<1> QED BY <1>1, <1>3, <1>4 DEF at

LEMMA UartTxMoves ==
  ASSUME TypeOK, UartTxHandler
  PROVE  /\ Foreground' = Foreground
         /\ Interrupt.fn = "fill_tx_fifo" /\ Interrupt.at = "ret"
         /\ IF Interrupt.ret = rest.size
            THEN /\ Interrupt'.fn = "disable_irq" /\ Interrupt'.at = "load"
                 /\ Interrupt'.todo = <<"THRE">> /\ Interrupt'.status = {}
            ELSE Interrupt' = NoFrame
<1> DEFINE f == [Call("disable_irq", "load", 0, 0) EXCEPT !.todo = <<"THRE">>]
<1>1. f.fn = "disable_irq" /\ f.at = "load" /\ f.todo = <<"THRE">> /\ f.status = {}
  BY DEF Call, NoFrame
<1>2. Become("isr", IF Interrupt.ret = rest.size THEN f ELSE NoFrame) BY DEF UartTxHandler, Interrupt
<1> HIDE DEF f
<1>3. Interrupt' = (IF Interrupt.ret = rest.size THEN f ELSE NoFrame) /\ Foreground' = Foreground
  BY <1>2, Became
<1> QED BY <1>1, <1>3 DEF UartTxHandler, At, Interrupt

LEMMA LeaveMoves ==
  ASSUME TypeOK, Leave
  PROVE  /\ Foreground' = Foreground /\ Interrupt' = NoFrame
         /\ Interrupt.at = "ret" /\ Interrupt.fn \notin {"none", "fill_tx_fifo"}
BY Became DEF Leave, Interrupt

LEMMA ReturnMoves ==
  ASSUME TypeOK, Return
  PROVE  /\ Foreground' = NoFrame /\ Interrupt' = Interrupt
         /\ Interrupt.fn = "none" /\ Foreground.fn # "none" /\ Foreground.at = "ret"
<1>1. Become("fg", NoFrame) BY DEF Return
<1>2. Foreground' = NoFrame /\ Interrupt' = Interrupt BY <1>1, Became
<1> QED BY <1>2 DEF Return, Running, Foreground, Interrupt

LEMMA TransmitMoves ==
  ASSUME TypeOK, Transmit
  PROVE  /\ Interrupt' = Interrupt /\ Interrupt.fn = "none" /\ ~Interrupted
         /\ Foreground.fn = "none" /\ mayTx
         /\ Foreground'.status = {}
         /\ \E n \in Sizes :
              /\ asked + n <= app.bytes
              /\ \/ /\ Foreground'.fn = "irq_tx" /\ Foreground'.at = "buffer"
                    /\ Foreground'.buf = asked /\ Foreground'.size = n
                    /\ asked' = asked + n /\ ~mayTx' /\ UNCHANGED rest
                 \/ /\ Foreground'.fn \in {"polled_tx", "polled_tx_string"} /\ Foreground'.at = "lsr"
                    /\ Foreground'.buf = asked /\ Foreground'.size = n
                    /\ asked' = asked + n /\ mayTx' /\ UNCHANGED rest
                 \/ /\ Foreground'.fn = "fill_tx_fifo" /\ Foreground'.at = "lsr"
                    /\ Foreground'.buf = asked /\ Foreground'.size = n
                    /\ asked' = asked /\ mayTx' /\ UNCHANGED rest
                 \/ /\ Foreground'.fn = "register" /\ Foreground'.at = "handler"
                    /\ Foreground'.todo = <<"THRE">> /\ "set_tx_handler" \in app.calls
                    /\ rest'.buf = asked /\ rest'.size = n
                    /\ asked' = asked + n /\ ~mayTx'
         /\ UNCHANGED <<hardware, control, app, uart, asserted, owed, got>>
<1>1. PICK n \in Sizes : Transmit!(n) BY DEF Transmit
<1>2. PICK fn, f : Begin(fn, f) BY <1>1
<1>3. /\ Interrupt' = Interrupt /\ Interrupt.fn = "none" /\ ~Interrupted /\ Foreground.fn = "none"
      /\ UNCHANGED <<hardware, control, app, uart, asserted, owed, got>>
  BY <1>2, BeginStarts DEF Begin
<1>4. CASE /\ Begin("irq_tx", Call("irq_tx", "buffer", asked, n))
           /\ asked' = asked + n /\ mayTx' = FALSE /\ UNCHANGED rest
  <2>1. Foreground' = Call("irq_tx", "buffer", asked, n) BY <1>4, BeginStarts
  <2> QED BY <1>1, <1>3, <1>4, <2>1, CallFields
<1>5. ASSUME NEW g \in {"polled_tx", "polled_tx_string"}, Begin(g, Call(g, "lsr", asked, n)),
             asked' = asked + n, UNCHANGED <<mayTx, rest>>
      PROVE  /\ Foreground'.fn \in {"polled_tx", "polled_tx_string"} /\ Foreground'.at = "lsr"
             /\ Foreground'.buf = asked /\ Foreground'.size = n /\ Foreground'.status = {}
             /\ asked' = asked + n /\ mayTx' /\ UNCHANGED rest
  <2>1. Foreground' = Call(g, "lsr", asked, n) BY <1>5, BeginStarts
  <2> QED BY <1>1, <1>5, <2>1, CallFields
<1>6. CASE /\ Begin("fill_tx_fifo", Call("fill_tx_fifo", "lsr", asked, n))
           /\ UNCHANGED <<asked, mayTx, rest>>
  <2>1. Foreground' = Call("fill_tx_fifo", "lsr", asked, n) BY <1>6, BeginStarts
  <2> QED BY <1>1, <1>3, <1>6, <2>1, CallFields
<1>7. CASE /\ Begin("set_tx_handler", [Call("register", "handler", 0, 0) EXCEPT !.todo = <<"THRE">>])
           /\ rest' = [buf |-> asked, size |-> n]
           /\ asked' = asked + n /\ mayTx' = FALSE
  <2>1. Foreground' = [Call("register", "handler", 0, 0) EXCEPT !.todo = <<"THRE">>]
        /\ "set_tx_handler" \in app.calls
    BY <1>7, BeginStarts
  <2>2. /\ Foreground'.fn = "register" /\ Foreground'.at = "handler" /\ Foreground'.todo = <<"THRE">>
        /\ Foreground'.status = {}
    BY <2>1 DEF Call, NoFrame
  <2> QED BY <1>1, <1>3, <1>7, <2>1, <2>2
<1>8. CASE \E g \in {"polled_tx", "polled_tx_string"} :
             /\ Begin(g, Call(g, "lsr", asked, n)) /\ asked' = asked + n /\ UNCHANGED <<mayTx, rest>>
  <2>1. /\ Foreground'.fn \in {"polled_tx", "polled_tx_string"} /\ Foreground'.at = "lsr"
        /\ Foreground'.buf = asked /\ Foreground'.size = n /\ Foreground'.status = {}
        /\ asked' = asked + n /\ mayTx' /\ UNCHANGED rest
    BY <1>5, <1>8
  <2> QED BY <1>1, <1>3, <2>1
<1> QED BY <1>1, <1>4, <1>6, <1>7, <1>8

LEMMA InquireMoves ==
  ASSUME TypeOK, Inquire
  PROVE  /\ Interrupt' = Interrupt /\ Interrupt.fn = "none" /\ ~Interrupted
         /\ Foreground.fn = "none"
         /\ Foreground'.fn \in {"tx_complete", "get_tx_status", "get_rx_status", "get_rx"}
         /\ Foreground'.at = "lsr" /\ Foreground'.status = {} /\ Foreground'.ret = 0
         /\ Foreground'.fn = "get_rx" => handler["RX"] = "null"
         /\ UNCHANGED <<hardware, control, client, uart, asserted, owed>>
<1>1. PICK fn \in {"tx_complete", "get_tx_status", "get_rx_status", "get_rx"}, n \in {0, RxSize} :
        Begin(fn, Call(fn, "lsr", 0, n)) /\ (fn = "get_rx" => handler["RX"] = "null")
  BY DEF Inquire
<1>2. Foreground' = Call(fn, "lsr", 0, n) /\ Interrupt' = Interrupt
      /\ Interrupt.fn = "none" /\ ~Interrupted /\ Foreground.fn = "none"
  BY <1>1, BeginStarts
<1>3. UNCHANGED <<hardware, control, app, uart, asserted, owed, got>> BY <1>1 DEF Begin
<1>4. UNCHANGED <<asked, mayTx, rest>> BY DEF Inquire
<1> QED BY <1>1, <1>2, <1>3, <1>4, CallFields DEF client

LEMMA ConfigureMoves ==
  ASSUME TypeOK, Configure
  PROVE  /\ Interrupt' = Interrupt /\ Interrupt.fn = "none" /\ ~Interrupted
         /\ Foreground.fn = "none" /\ Foreground'.status = {}
         /\ \/ \E s \in Sources \ {"THRE"} :
                 /\ Foreground'.fn = "register" /\ Foreground'.at = "handler"
                 /\ Foreground'.todo = <<s>>
            \/ \E s \in Sources \ (MM \cup {"THRE"}) :
                 /\ Foreground'.fn \in {"enable_irq", "disable_irq"}
                 /\ Foreground'.fn \in app.calls
                 /\ Foreground'.at = "load" /\ Foreground'.todo = <<s>> /\ Handled(s)
                 /\ Careful => mayTx
            \/ Foreground'.fn = "enable_rx_timeout" /\ Foreground'.at = "mm0" /\ Handled("RTO")
         /\ UNCHANGED <<hardware, control, client, uart, asserted, owed>>
<1>1. app.registers \subseteq Sources \ {"THRE"} BY AppsAssumption DEF TypeOK
<1>2. UNCHANGED <<asked, mayTx, rest>> BY DEF Configure
<1>3. ASSUME NEW fn, NEW f, Begin(fn, f)
      PROVE  /\ Foreground' = f /\ Interrupt' = Interrupt /\ fn \in app.calls
             /\ Interrupt.fn = "none" /\ ~Interrupted /\ Foreground.fn = "none"
             /\ UNCHANGED <<hardware, control, client, uart, asserted, owed>>
  BY <1>2, <1>3, BeginStarts DEF Begin, client
<1>4. ASSUME NEW g, NEW at, NEW s
      PROVE  /\ [Call(g, at, 0, 0) EXCEPT !.todo = <<s>>].fn = g
             /\ [Call(g, at, 0, 0) EXCEPT !.todo = <<s>>].at = at
             /\ [Call(g, at, 0, 0) EXCEPT !.todo = <<s>>].todo = <<s>>
             /\ [Call(g, at, 0, 0) EXCEPT !.todo = <<s>>].status = {}
  BY DEF Call, NoFrame
<1>5. ASSUME NEW s \in app.registers,
             Begin("register", [Call("register", "handler", 0, 0) EXCEPT !.todo = <<s>>])
      PROVE  /\ s \in Sources \ {"THRE"}
             /\ Foreground'.fn = "register" /\ Foreground'.at = "handler"
             /\ Foreground'.todo = <<s>> /\ Foreground'.status = {}
  <2> DEFINE f == [Call("register", "handler", 0, 0) EXCEPT !.todo = <<s>>]
  <2>1. f.fn = "register" /\ f.at = "handler" /\ f.todo = <<s>> /\ f.status = {} BY ONLY <1>4
  <2>2. Foreground' = f BY <1>3, <1>5
  <2> HIDE DEF f
  <2> QED BY <1>1, <2>1, <2>2
<1>6. ASSUME NEW s \in app.registers \ MM, NEW fn \in {"enable_irq", "disable_irq"},
             Begin(fn, [Call(fn, "load", 0, 0) EXCEPT !.todo = <<s>>])
      PROVE  /\ s \in Sources \ (MM \cup {"THRE"})
             /\ Foreground'.fn = fn /\ Foreground'.at = "load" /\ fn \in app.calls
             /\ Foreground'.todo = <<s>> /\ Foreground'.status = {}
  <2> DEFINE f == [Call(fn, "load", 0, 0) EXCEPT !.todo = <<s>>]
  <2>1. f.fn = fn /\ f.at = "load" /\ f.todo = <<s>> /\ f.status = {} BY ONLY <1>4
  <2>2. Foreground' = f /\ fn \in app.calls BY <1>3, <1>6
  <2> HIDE DEF f
  <2> QED BY <1>1, <2>1, <2>2
<1>7. CASE \E s \in app.registers :
             Begin("register", [Call("register", "handler", 0, 0) EXCEPT !.todo = <<s>>])
  <2>1. \E s \in Sources \ {"THRE"} :
             /\ Foreground'.fn = "register" /\ Foreground'.at = "handler"
             /\ Foreground'.todo = <<s>> /\ Foreground'.status = {}
    BY <1>5, <1>7
  <2> QED BY <1>3, <1>7, <2>1
<1>8. CASE \E s \in app.registers \ MM, fn \in {"enable_irq", "disable_irq"} :
             /\ handler[s] = "user" /\ (Careful => mayTx)
             /\ Begin(fn, [Call(fn, "load", 0, 0) EXCEPT !.todo = <<s>>])
  <2>1. \E s \in Sources \ (MM \cup {"THRE"}) :
             /\ Foreground'.fn \in {"enable_irq", "disable_irq"} /\ Foreground'.fn \in app.calls
             /\ Foreground'.at = "load" /\ Handled(s) /\ (Careful => mayTx)
             /\ Foreground'.todo = <<s>> /\ Foreground'.status = {}
    BY <1>6, <1>8 DEF Handled
  <2> QED BY <1>3, <1>8, <2>1
<1>9. CASE handler["RTO"] = "user" /\ Begin("enable_rx_timeout", Call("enable_rx_timeout", "mm0", 0, 0))
  <2>1. Foreground' = Call("enable_rx_timeout", "mm0", 0, 0) BY <1>3, <1>9
  <2> QED BY <1>3, <1>9, <2>1, CallFields DEF Handled
<1> QED BY <1>7, <1>8, <1>9 DEF Configure

(* The function a context is in decides which of its steps it takes. *)
LEMMA StepOf ==
  ASSUME NEW c \in {"fg", "isr"}, Step(c)
  PROVE  /\ Running(c) /\ ctx[c].at # "ret"
         /\ \/ ctx[c].at = "lsr" /\ ReadLsr(c)
            \/ ctx[c].at = "or" /\ OrStatus(c)
            \/ /\ ctx[c].at \notin {"lsr", "or"}
               /\ \/ ctx[c].fn = "polled_tx" /\ MSS_UART_polled_tx(c)
                  \/ ctx[c].fn = "polled_tx_string" /\ MSS_UART_polled_tx_string(c)
                  \/ ctx[c].fn = "fill_tx_fifo" /\ MSS_UART_fill_tx_fifo(c)
                  \/ ctx[c].fn = "irq_tx" /\ MSS_UART_irq_tx(c)
                  \/ ctx[c].fn = "default_tx" /\ default_tx_handler(c)
                  \/ ctx[c].fn = "tx_complete" /\ MSS_UART_tx_complete(c)
                  \/ ctx[c].fn = "get_rx" /\ MSS_UART_get_rx(c)
                  \/ ctx[c].fn = "get_rx_status" /\ MSS_UART_get_rx_status(c)
                  \/ ctx[c].fn = "get_tx_status" /\ MSS_UART_get_tx_status(c)
                  \/ ctx[c].fn = "get_modem_status" /\ MSS_UART_get_modem_status(c)
                  \/ /\ ctx[c].fn = "register"
                     /\ \/ \E s \in Sources \ {"THRE"} : Register(c, s) /\ UNCHANGED uart
                        \/ MSS_UART_set_tx_handler(c)
                  \/ ctx[c].fn = "enable_irq" /\ MSS_UART_enable_irq(c)
                  \/ ctx[c].fn = "disable_irq" /\ MSS_UART_disable_irq(c)
                  \/ ctx[c].fn = "enable_rx_timeout" /\ MSS_UART_enable_rx_timeout(c)
<1>1. CASE ReadLsr(c) \/ OrStatus(c) BY <1>1 DEF ReadLsr, OrStatus
<1>2. CASE MSS_UART_polled_tx(c) BY <1>2 DEF MSS_UART_polled_tx, At
<1>3. CASE MSS_UART_polled_tx_string(c) BY <1>3 DEF MSS_UART_polled_tx_string, At
<1>4. CASE MSS_UART_fill_tx_fifo(c) BY <1>4 DEF MSS_UART_fill_tx_fifo, At
<1>5. CASE MSS_UART_irq_tx(c) BY <1>5 DEF MSS_UART_irq_tx, At
<1>6. CASE default_tx_handler(c) BY <1>6 DEF default_tx_handler, DefaultTxEnd, At
<1>7. CASE MSS_UART_tx_complete(c) BY <1>7 DEF MSS_UART_tx_complete, At
<1>8. CASE MSS_UART_get_rx(c) BY <1>8 DEF MSS_UART_get_rx, At
<1>9. CASE MSS_UART_get_rx_status(c) BY <1>9 DEF MSS_UART_get_rx_status, At
<1>10. CASE MSS_UART_get_tx_status(c) BY <1>10 DEF MSS_UART_get_tx_status, At
<1>11. CASE MSS_UART_get_modem_status(c) BY <1>11 DEF MSS_UART_get_modem_status, At
<1>12. CASE \E s \in Sources \ {"THRE"} : Register(c, s) /\ UNCHANGED uart
  BY <1>12 DEF Register, At
<1>13. CASE MSS_UART_set_tx_handler(c) BY <1>13 DEF MSS_UART_set_tx_handler, Register, At
<1>14. CASE MSS_UART_enable_irq(c) BY <1>14 DEF MSS_UART_enable_irq, At
<1>15. CASE MSS_UART_disable_irq(c) BY <1>15 DEF MSS_UART_disable_irq, At
<1>16. CASE MSS_UART_enable_rx_timeout(c) BY <1>16 DEF MSS_UART_enable_rx_timeout, At
<1> QED BY <1>1, <1>2, <1>3, <1>4, <1>5, <1>6, <1>7, <1>8, <1>9, <1>10, <1>11, <1>12, <1>13,
           <1>14, <1>15, <1>16, Steps

(* The two steps that take the transmit interrupt away. *)
LEMMA DefaultTxEnds ==
  ASSUME TypeOK, DefaultTxEnd("isr")
  PROVE  /\ Foreground' = Foreground /\ Interrupt.fn = "default_tx" /\ Interrupt.at = "end"
         /\ Interrupt'.fn = "default_tx" /\ Interrupt'.at = "ret"
<1>1. Goto("isr", "ret") /\ Interrupt.fn = "default_tx" /\ Interrupt.at = "end"
  BY DEF DefaultTxEnd, At, Interrupt
<1>2. "ret" \in Everywhere BY DEF Everywhere, Placed
<1>3. Interrupt' = [Interrupt EXCEPT !.at = "ret"] /\ Foreground' = Foreground
  BY <1>1, <1>2, Gone, Became DEF Interrupt
<1> QED BY <1>1, <1>3, Context DEF Interrupt, Frame

LEMMA DisableMoves ==
  ASSUME TypeOK, Entered, MSS_UART_disable_irq("isr")
  PROVE  \/ /\ Interrupt.at = "load" /\ Interrupt'.at = "store"
            /\ Interrupt'.status = ien \ MM /\ ien' = ien
         \/ /\ Interrupt.at = "store" /\ Interrupt'.at = "ret" /\ Silent'
<1>1. Interrupt \in Frame BY Context DEF Interrupt
<1>2. CASE At("isr", "disable_irq", "load")
  <2>1. Become("isr", [Interrupt EXCEPT !.status = ien \ MM, !.at = "store"]) /\ UNCHANGED control
    BY <1>2 DEF MSS_UART_disable_irq, At, Interrupt
  <2>2. Interrupt' = [Interrupt EXCEPT !.status = ien \ MM, !.at = "store"] BY <2>1, Became
  <2> QED BY <1>1, <1>2, <2>1, <2>2 DEF At, Interrupt, Frame, control
<1>3. CASE At("isr", "disable_irq", "store")
  <2>1. /\ Goto("isr", "ret")
        /\ ien' = Disabled(Interrupt.status, {Interrupt.todo[i] : i \in 1 .. Len(Interrupt.todo)})
    BY <1>3 DEF MSS_UART_disable_irq, At, Interrupt
  <2>2. "ret" \in Everywhere BY DEF Everywhere, Placed
  <2>3. Interrupt' = [Interrupt EXCEPT !.at = "ret"] BY <2>1, <2>2, Gone, Became DEF Interrupt
  <2>4. Interrupt.todo = <<"THRE">> BY <1>3 DEF Entered, At, Interrupt
  <2>5. Len(Interrupt.todo) = 1 /\ Interrupt.todo[1] = "THRE" BY <2>4
  <2>6. "THRE" \in {Interrupt.todo[i] : i \in 1 .. Len(Interrupt.todo)} BY <2>5
  <2>7. "THRE" \notin MM BY Multimodes
  <2>8. Silent' BY <2>1, <2>6, <2>7 DEF Silent, Disabled
  <2> QED BY <1>1, <1>3, <2>3, <2>8 DEF At, Interrupt, Frame
<1> QED BY <1>2, <1>3 DEF MSS_UART_disable_irq

LEMMA EnteredNext ==
  ASSUME TypeOK, Contexts, Configuring, Entered, [Next]_vars PROVE Entered'
<1>1. ASSUME Interrupt'.fn \notin {"default_tx", "fill_tx_fifo", "disable_irq"} PROVE Entered'
  BY <1>1 DEF Entered
<1>2. ASSUME Interrupt' = Interrupt, UNCHANGED control PROVE Entered'
  BY <1>2 DEF Entered, Silent, control
<1>3. CASE Step("fg") BY <1>1, <1>3, FgSteps
<1>4. CASE Step("isr")
  <2>1. /\ Foreground' = Foreground /\ Interrupt.fn # "none"
        /\ Interrupt'.fn = Interrupt.fn /\ Interrupt'.todo = Interrupt.todo
    BY <1>4, IsrSteps
  <2>2. ~Running("fg") BY <2>1 DEF Running, Interrupt
  <2>3. handler'["THRE"] = handler["THRE"] BY <2>2, HandlersStay
  <2>4. Interrupt.at # "ret" BY <1>4, StepOf DEF Interrupt
  <2>5. ASSUME ien' = ien, Interrupt.fn \in {"default_tx", "fill_tx_fifo"} PROVE Entered'
    BY <2>1, <2>3, <2>4, <2>5 DEF Entered, Silent
  <2>6. ASSUME Interrupt.fn = "fill_tx_fifo" PROVE ien' = ien
    BY <2>2, <2>6, EnablesStep DEF Interrupt, Foreground, Running
  <2>7. ASSUME Interrupt.fn = "disable_irq" PROVE Entered'
    <3>1. Interrupt.at \notin {"lsr", "or"} BY <2>7, PlacesOf DEF Contexts
    <3>2. MSS_UART_disable_irq("isr") BY <1>4, <2>7, <3>1, StepOf DEF Interrupt
    <3> QED BY <2>1, <2>3, <2>7, <3>2, DisableMoves DEF Entered, Silent
  <2>8. ASSUME Interrupt.fn = "default_tx" PROVE Entered'
    <3>1. CASE DefaultTxEnd("isr")
      <4>1. Interrupt'.fn = "default_tx" /\ Interrupt'.at = "ret" BY <3>1, DefaultTxEnds
      <4> QED BY <4>1 DEF Entered
    <3>2. CASE ~DefaultTxEnd("isr")
      <4>1. ReadLsr("isr") \/ OrStatus("isr") \/ default_tx_handler("isr")
        BY <1>4, <2>8, StepOf DEF Interrupt
      <4>2. ien' = ien BY <3>2, <4>1 DEF ReadLsr, OrStatus, default_tx_handler, control
      <4> QED BY <2>5, <2>8, <4>2
    <3> QED BY <3>1, <3>2
  <2> QED BY <1>1, <2>1, <2>5, <2>6, <2>7, <2>8
<1>5. ASSUME NEW source \in Sources, Enter(source) PROVE Entered'
  <2>1. /\ Interrupt.fn = "none" /\ source \in Active
        /\ \/ Interrupt' = Interrupt
           \/ Interrupt'.fn = "mmi"
           \/ source \notin MM /\ handler[source] # "null" /\ Interrupt' = Handler(source)
    BY <1>5, EnterStarts
  <2>2. UNCHANGED control BY <1>5 DEF Enter
  <2>3. CASE source \notin MM /\ handler[source] # "null" /\ Interrupt' = Handler(source)
    <3>1. source \in Sources \ MM BY <2>3
    <3>2. source = "THRE" => ~Silent BY <2>1 DEF Active, Silent
    <3>3. handler \in [Sources -> {"null", "default", "user"}] BY DEF TypeOK
    <3> QED BY <2>2, <2>3, <3>1, <3>2, <3>3, HandlerFields DEF Entered, Silent, control
  <2> QED BY <1>1, <2>1, <2>3
<1>6. CASE Identify BY <1>1, <1>6, IdentifyMoves
<1>7. CASE UartTxHandler
  <2>1. UNCHANGED control BY <1>7 DEF UartTxHandler
  <2> QED BY <1>7, <2>1, UartTxMoves, NoFrameFields DEF Entered, Silent, control
<1>8. CASE Leave \/ Return \/ Transmit \/ Inquire \/ Configure
  <2>1. Interrupt'.fn = "none"
    BY <1>8, LeaveMoves, ReturnMoves, TransmitMoves, InquireMoves, ConfigureMoves, NoFrameFields
  <2> QED BY <1>1, <2>1
<1>9. CASE Shift \/ Arrive \/ Raise \/ UNCHANGED vars
  BY <1>2, <1>9 DEF Shift, Arrive, Raise, vars, Interrupt
<1> QED BY <1>3, <1>4, <1>5, <1>6, <1>7, <1>8, <1>9 DEF Next, MSS_UART_isr

LEMMA RaisedOnly ==
  ASSUME TypeOK, [Next]_vars PROVE raised' \subseteq raised \cup {"MS"} \cup modes
<1>1. ASSUME NEW c \in {"fg", "isr"}, Step(c) PROVE raised' \subseteq raised
  BY <1>1, StepOf DEF ReadLsr, OrStatus, MSS_UART_polled_tx, MSS_UART_polled_tx_string,
     MSS_UART_fill_tx_fifo, MSS_UART_irq_tx, default_tx_handler, DefaultTxEnd,
     MSS_UART_tx_complete, MSS_UART_get_rx, MSS_UART_get_rx_status, MSS_UART_get_tx_status,
     MSS_UART_get_modem_status, Register, MSS_UART_set_tx_handler, MSS_UART_enable_irq,
     MSS_UART_disable_irq, MSS_UART_enable_rx_timeout, Put, hardware
<1>2. CASE MSS_UART_isr \/ Return
  BY <1>2 DEF MSS_UART_isr, Enter, Identify, UartTxHandler, Leave, Return, hardware
<1>3. CASE Transmit \/ Inquire \/ Configure
  BY <1>3 DEF Transmit, Inquire, Configure, Begin, hardware
<1>4. CASE Raise BY <1>4 DEF Raise
<1>5. CASE Shift \/ Arrive \/ UNCHANGED vars BY <1>5 DEF Shift, Arrive, vars, hardware
<1> QED BY <1>1, <1>2, <1>3, <1>4, <1>5 DEF Next

(* What a foreground that registers or enables has looked at. *)
LEMMA Configured ==
  ASSUME TypeOK, Configuring
  PROVE  /\ \A s \in Sources : Foreground.fn = "register" /\ Foreground.at \in {"enable", "ret"}
                                 /\ Foreground.todo = <<s>> => Handled(s)
         /\ \A c \in {"fg", "isr"} :
              ctx[c].fn \in {"enable_irq", "disable_irq"} /\ ctx[c].at = "store" =>
                /\ ctx[c].status \subseteq Sources
                /\ \A s \in ctx[c].status \ {"THRE"} : Handled(s)
                /\ c = "fg" => "THRE" \notin ctx[c].status
BY DEF Configuring

LEMMA EnabledNext ==
  ASSUME Considerate, TypeOK, Contexts, Configuring, Entered, Enabled, [Next]_vars
  PROVE  Enabled'
<1>0. ControlStep BY ControlSteps
<1>1. app' = app BY <1>0 DEF ControlStep
<1>2. /\ \A s \in Sources \ {"THRE"} :
           /\ Handled(s) => Handled(s)'
           /\ handler[s] # "default" => handler'[s] # "default"
      /\ handler'["THRE"] # handler["THRE"] =>
           \/ handler'["THRE"] = "default"
           \/ /\ Foreground.fn = "register" /\ Foreground.at = "handler"
              /\ Foreground.todo = <<"THRE">> /\ handler'["THRE"] = "user"
      /\ modes' # modes => Foreground.fn = "enable_rx_timeout" /\ modes' = modes \cup {"RTO"}
  BY HandlersStay
<1>3. "RTO" \in Sources \ {"THRE"} /\ "THRE" \notin MM BY Multimodes
<1> DEFINE E1 == ~Silent => nvic /\ handler["THRE"] # "null"
           E2 == \A s \in ien \ (MM \cup {"THRE"}) : Handled(s)
           E3 == ModesOf(app.mode) # {} => \A s \in ien \ {"THRE"} : Handled(s)
           E9 == ModesOf(app.mode) # {} =>
                   /\ Interrupt.fn \notin {"fill_tx_fifo", "disable_irq"} /\ handler["THRE"] # "user"
                   /\ Foreground.fn # "disable_irq"
                   /\ ~(Foreground.fn = "register" /\ Foreground.todo = <<"THRE">>)
           Good == E1' /\ E2' /\ E3'
<1>4. Good
  <2>0. ien \subseteq Sources BY DEF TypeOK
  <2>1. ASSUME NEW s \in Sources \ {"THRE"}, Handled(s) PROVE Handled(s)' BY <1>2, <2>1
  <2>2. handler["THRE"] # "null" => handler'["THRE"] # "null" BY <1>2
  <2>a. /\ E1 /\ E2 /\ E3 /\ app' = app
        /\ ModesOf(app.mode) # {} => Foreground.fn # "disable_irq" /\ Interrupt.fn # "disable_irq"
    BY <1>1 DEF Enabled
  <2>3. ASSUME ien' \subseteq ien, nvic => nvic' PROVE Good
    BY <2>0, <2>1, <2>2, <2>3, <2>a DEF Silent
  <2>4. ASSUME ien' = ien \cup {"THRE"}, nvic', handler'["THRE"] = "default" PROVE Good
    BY <2>0, <2>1, <2>4, <2>a DEF Silent
  <2>5. ASSUME NEW s \in Sources, Foreground.fn = "register", Foreground.at = "enable",
               Foreground.todo = <<s>>, ien' = ien \cup {s}, nvic', handler' = handler
        PROVE  Good
    <3>1. Handled(s) BY <2>5, Configured
    <3> QED BY <2>0, <2>5, <2>a, <3>1 DEF Silent, Handled
  <2>6. ASSUME NEW s \in Sources \ (MM \cup {"THRE"}),
               Foreground.fn = "enable_irq", Foreground.at = "store", Handled(s),
               ien' = Foreground.status \cup (ien \cap MM) \cup {s}, nvic', handler' = handler
        PROVE  Good
    <3>1. /\ Foreground.status \subseteq Sources
          /\ \A r \in Foreground.status : Handled(r)
          /\ "THRE" \notin Foreground.status
      BY <2>6, Configured DEF Foreground
    <3> QED BY <1>3, <2>0, <2>6, <2>a, <3>1 DEF Silent, Handled
  <2>7. ASSUME NEW c \in {"fg", "isr"}, ctx[c].fn = "disable_irq", ctx[c].at = "store",
               ien' \subseteq (ctx[c].status \ {"THRE"}) \cup MM, handler' = handler
        PROVE  Good
    <3>1. \A r \in ctx[c].status \ {"THRE"} : Handled(r) BY <2>7, Configured
    <3>2. ModesOf(app.mode) = {} BY <2>7, <2>a DEF Foreground, Interrupt
    <3> QED BY <1>3, <2>7, <2>a, <3>1, <3>2 DEF Silent, Handled
  <2>8. CASE Interrupt.fn = "default_tx" /\ ien' = ien \ {"THRE"}
    <3>1. "THRE" \notin ien' BY <2>8
    <3> QED BY <2>0, <2>1, <2>8, <2>a, <3>1 DEF Silent
  <2> HIDE DEF Good
  <2>10. CASE ien' = ien /\ (nvic => nvic') BY <2>3, <2>10
  <2>11. CASE ien' = ien \cup {"THRE"} /\ nvic' /\ handler'["THRE"] = "default" BY <2>4, <2>11
  <2>12. CASE \E s \in Sources :
                /\ Foreground.fn = "register" /\ Foreground.at = "enable"
                /\ Foreground.todo = <<s>>
                /\ ien' = ien \cup {s} /\ nvic' /\ handler' = handler
    BY <2>5, <2>12
  <2>13. CASE \E s \in Sources \ (MM \cup {"THRE"}) :
                /\ Foreground.fn = "enable_irq" /\ Foreground.at = "store" /\ Handled(s)
                /\ ien' = Foreground.status \cup (ien \cap MM) \cup {s} /\ nvic' /\ handler' = handler
    BY <2>6, <2>13
  <2>14. CASE \E c \in {"fg", "isr"} :
                /\ ctx[c].fn = "disable_irq" /\ ctx[c].at = "store"
                /\ ien' \subseteq (ctx[c].status \ {"THRE"}) \cup MM /\ handler' = handler
    BY <2>7, <2>14
  <2> QED BY <2>8, <2>10, <2>11, <2>12, <2>13, <2>14, EnablesStep
<1>5. ("RTO" \in modes => Handled("RTO"))'
  <2>1. "RTO" \in modes \/ Foreground.fn = "enable_rx_timeout" => Handled("RTO")
    BY DEF Enabled, Configuring
  <2> QED BY <1>2, <1>3, <2>1 DEF Handled
<1>6. modes' \subseteq ModesOf(app'.mode) \cup {"RTO"} BY <1>1, <1>2 DEF Enabled
<1>7. (raised \subseteq {"MS"} \cup modes)'
  <2>1. modes \subseteq modes' BY <1>2
  <2> QED BY <2>1, RaisedOnly DEF Enabled
<1>8. (\A s \in Sources \ {"THRE"} : handler[s] # "default")' BY <1>2 DEF Enabled
<1>9. ASSUME ModesOf(app.mode) # {}
      PROVE  (/\ Interrupt.fn \notin {"fill_tx_fifo", "disable_irq"} /\ handler["THRE"] # "user"
              /\ Foreground.fn # "disable_irq"
              /\ ~(Foreground.fn = "register" /\ Foreground.todo = <<"THRE">>))'
  <2>1. /\ Interrupt.fn \notin {"fill_tx_fifo", "disable_irq"} /\ handler["THRE"] # "user"
        /\ Foreground.fn # "disable_irq"
        /\ ~(Foreground.fn = "register" /\ Foreground.todo = <<"THRE">>)
    BY <1>9 DEF Enabled
  <2>2. handler'["THRE"] # "user" BY <1>2, <2>1
  <2>3. app.calls \cap {"disable_irq", "set_tx_handler"} = {} BY <1>9 DEF Considerate, TypeOK
  <2>5. CASE Step("fg") BY <2>1, <2>2, <2>5, FgSteps
  <2>6. CASE Step("isr") BY <2>1, <2>2, <2>6, IsrSteps
  <2>7. ASSUME NEW source \in Sources, Enter(source)
        PROVE  Interrupt'.fn \notin {"fill_tx_fifo", "disable_irq"} /\ Foreground' = Foreground
    <3>1. /\ Interrupt.fn = "none" /\ Foreground' = Foreground
          /\ \/ Interrupt' = Interrupt
             \/ Interrupt'.fn = "mmi"
             \/ source \notin MM /\ handler[source] # "null" /\ Interrupt' = Handler(source)
      BY <2>7, EnterStarts
    <3>2. handler["THRE"] \in {"null", "default", "user"} BY DEF TypeOK, Sources
    <3>3. CASE source \notin MM /\ handler[source] # "null" /\ Interrupt' = Handler(source)
      <4>1. source \in Sources \ MM BY <3>3
      <4> QED BY <2>1, <3>1, <3>2, <3>3, <4>1, HandlerFields
    <3> QED BY <3>1, <3>3
  <2>8. CASE Identify BY <2>1, <2>2, <2>8, IdentifyMoves
  <2>9. CASE UartTxHandler BY <2>1, <2>9, UartTxMoves
  <2>10. CASE Leave BY <2>1, <2>2, <2>10, LeaveMoves, NoFrameFields
  <2>11. CASE Return BY <2>1, <2>2, <2>11, ReturnMoves, NoFrameFields
  <2>12. CASE Transmit
    <3>1. /\ Interrupt'.fn = Interrupt.fn
          /\ \/ Foreground'.fn \in {"irq_tx", "polled_tx", "polled_tx_string", "fill_tx_fifo"}
             \/ "set_tx_handler" \in app.calls
      BY <2>12, TransmitMoves
    <3> QED BY <2>1, <2>2, <2>3, <3>1
  <2>13. CASE Inquire
    <3>1. /\ Interrupt'.fn = Interrupt.fn
          /\ Foreground'.fn \in {"tx_complete", "get_tx_status", "get_rx_status", "get_rx"}
      BY <2>13, InquireMoves
    <3> QED BY <2>1, <2>2, <3>1
  <2>14. CASE Configure
    <3>1. /\ Interrupt'.fn = Interrupt.fn
          /\ Foreground'.fn = "register" => Foreground'.todo # <<"THRE">>
          /\ Foreground'.fn = "disable_irq" => Foreground'.fn \in app.calls
      BY <2>14, ConfigureMoves
    <3> QED BY <2>1, <2>2, <2>3, <3>1
  <2>15. CASE Shift \/ Arrive \/ Raise \/ UNCHANGED vars
    BY <2>1, <2>15 DEF Shift, Arrive, Raise, vars, control, Foreground, Interrupt
  <2> QED BY <2>1, <2>2, <2>5, <2>6, <2>7, <2>8, <2>9, <2>10, <2>11, <2>12, <2>13, <2>14, <2>15
      DEF Next, MSS_UART_isr
<1>10. E1' BY ONLY <1>4
<1>11. E2' BY ONLY <1>4
<1>12. E3' BY ONLY <1>4
<1>13. E9' BY ONLY <1>1, <1>9
<1>14. (modes \subseteq ModesOf(app.mode) \cup {"RTO"})' BY ONLY <1>6
<1> QED BY ONLY <1>5, <1>7, <1>8, <1>10, <1>11, <1>12, <1>13, <1>14 DEF Enabled

(* What the functions that write an enable register hold. *)
LEMMA LoadsIen ==
  ASSUME TypeOK, NEW c \in {"fg", "isr"}, MSS_UART_enable_irq(c) \/ MSS_UART_disable_irq(c)
  PROVE  \/ ctx[c].at = "load" /\ ctx'[c].at = "store" /\ ctx'[c].status = ien \ MM
         \/ ctx[c].at = "store" /\ ctx'[c].at = "ret"
<1>1. ctx[c] \in Frame BY Context
<1>2. CASE /\ ctx[c].at = "load" /\ Become(c, [ctx[c] EXCEPT !.status = ien \ MM, !.at = "store"])
  <2>1. ctx'[c] = [ctx[c] EXCEPT !.status = ien \ MM, !.at = "store"] BY <1>2, Became
  <2> QED BY <1>1, <1>2, <2>1 DEF Frame
<1>3. CASE ctx[c].at = "store" /\ Goto(c, "ret")
  <2>1. "ret" \in Everywhere BY DEF Everywhere, Placed
  <2>2. ctx'[c] = [ctx[c] EXCEPT !.at = "ret"] BY <1>3, <2>1, Gone, Became
  <2> QED BY <1>1, <1>3, <2>2 DEF Frame
<1> QED BY <1>2, <1>3 DEF MSS_UART_enable_irq, MSS_UART_disable_irq, At

LEMMA Registers ==
  ASSUME TypeOK, NEW c \in {"fg", "isr"}, NEW s \in Sources, Register(c, s)
  PROVE  /\ ctx[c].fn = "register" /\ ctx[c].todo = <<s>>
         /\ \/ ctx[c].at = "handler" /\ ctx'[c].at = "enable" /\ Handled(s)'
            \/ ctx[c].at = "enable" /\ ctx'[c].at = "ret" /\ handler' = handler
<1>1. ctx[c] \in Frame BY Context
<1>2. ASSUME NEW at \in {"enable", "ret"}, Goto(c, at) PROVE ctx'[c].at = at
  <2>1. at \in Everywhere BY DEF Everywhere, Placed
  <2>2. ctx'[c] = [ctx[c] EXCEPT !.at = at] BY <1>2, <2>1, Gone, Became
  <2> QED BY <1>1, <2>2 DEF Frame
<1> QED BY <1>2 DEF Register, At, TypeOK, Handled

LEMMA SilentStays ==
  ASSUME TypeOK, Contexts, Configuring, Entered, [Next]_vars, Silent,
         Foreground.fn \notin {"irq_tx", "register"}
  PROVE  Silent'
<1>1. \A c \in {"fg", "isr"}, s \in Sources :
        ctx[c].fn = "disable_irq" => "THRE" \notin (ctx[c].status \ {"THRE"}) \cup MM
  BY Multimodes
<1>2. Foreground.fn = "enable_irq" /\ Foreground.at = "store" => "THRE" \notin Foreground.status
  BY Configured DEF Foreground
<1>3. "THRE" \notin MM /\ "THRE" \in Sources BY Multimodes
<1> QED BY <1>1, <1>2, <1>3, EnablesStep DEF Silent

(* Configuring, of the foreground and of the interrupt handler. *)
ConfiguringFg ==
  /\ Foreground.fn = "register" =>
       \E s \in Sources : /\ Foreground.todo = <<s>>
                          /\ Foreground.at \in {"enable", "ret"} => Handled(s)
  /\ Foreground.fn \in {"enable_irq", "disable_irq"} =>
       /\ Silent
       /\ \E s \in Sources \ (MM \cup {"THRE"}) : Foreground.todo = <<s>> /\ Handled(s)
  /\ Foreground.fn = "enable_rx_timeout" => Handled("RTO")
  /\ Foreground.fn \in {"enable_irq", "disable_irq"} /\ Foreground.at = "store" =>
       \A s \in Foreground.status : s \in Sources \ {"THRE"} /\ Handled(s)

ConfiguringIsr ==
  /\ Interrupt.fn \in {"enable_irq", "disable_irq"} /\ Interrupt.at = "store" =>
       \A s \in Interrupt.status : s \in Sources /\ (s # "THRE" => Handled(s))
  /\ Interrupt.fn = "mmi" /\ Interrupt.at = "iim" =>
       Interrupt.todo # << >> /\ \A i \in 1 .. Len(Interrupt.todo) : Interrupt.todo[i] \in MM

LEMMA ConfiguringParts ==
  /\ Configuring <=> ConfiguringFg /\ ConfiguringIsr
  /\ (Configuring <=> ConfiguringFg /\ ConfiguringIsr)'
<1>1. ASSUME Configuring PROVE ConfiguringFg
  <2>1. Foreground.fn \in {"enable_irq", "disable_irq"} /\ Foreground.at = "store" =>
          \A s \in Foreground.status : s \in Sources /\ s # "THRE" /\ Handled(s)
    BY <1>1 DEF Configuring, Foreground
  <2> QED BY <1>1, <2>1 DEF Configuring, ConfiguringFg
<1>2. ASSUME Configuring PROVE ConfiguringIsr
  <2>1. Interrupt.fn \in {"enable_irq", "disable_irq"} /\ Interrupt.at = "store" =>
          \A s \in Interrupt.status : s \in Sources /\ (s # "THRE" => Handled(s))
    BY <1>2 DEF Configuring, Interrupt
  <2> QED BY <1>2, <2>1 DEF Configuring, ConfiguringIsr
<1>3. ASSUME ConfiguringFg, ConfiguringIsr PROVE Configuring
  <2>1. \A c \in {"fg", "isr"} : ctx[c].fn \in {"enable_irq", "disable_irq"} /\ ctx[c].at = "store" =>
          \A s \in ctx[c].status :
             s \in Sources /\ IF s = "THRE" THEN c = "isr" ELSE Handled(s)
    BY <1>3 DEF ConfiguringFg, ConfiguringIsr, Foreground, Interrupt
  <2> QED BY <1>3, <2>1 DEF Configuring, ConfiguringFg, ConfiguringIsr
<1>4. Configuring <=> ConfiguringFg /\ ConfiguringIsr BY <1>1, <1>2, <1>3
<1> QED BY <1>4, PTL

LEMMA Tails ==
  ASSUME NEW S, NEW t \in Seq(S), t # << >>
  PROVE  /\ Len(t) \in Nat /\ Len(t) >= 1 /\ Head(t) = t[1] /\ Head(t) \in S
         /\ Tail(t) \in Seq(S) /\ Len(Tail(t)) = Len(t) - 1
         /\ \A i \in 1 .. Len(t) - 1 : Tail(t)[i] = t[i + 1]
         /\ Len(t) # 1 => Tail(t) # << >>
         /\ \A R : (\A i \in 1 .. Len(t) : t[i] \in R) =>
                     \A i \in 1 .. Len(Tail(t)) : Tail(t)[i] \in R
<1>1. Len(t) \in Nat /\ Len(t) # 0 OBVIOUS
<1>2. /\ Head(t) = t[1] /\ Head(t) \in S /\ Len(t) >= 1
      /\ Tail(t) \in Seq(S) /\ Len(Tail(t)) = Len(t) - 1
      /\ \A i \in 1 .. Len(t) - 1 : Tail(t)[i] = t[i + 1]
  BY <1>1
<1>3. ASSUME Len(t) # 1 PROVE Tail(t) # << >>
  <2>1. Len(Tail(t)) # 0 BY <1>2, <1>3
  <2>2. Len(<< >>) = 0 OBVIOUS
  <2> QED BY ONLY <2>1, <2>2, Zenon
<1>4. ASSUME NEW R, \A i \in 1 .. Len(t) : t[i] \in R
      PROVE  \A i \in 1 .. Len(Tail(t)) : Tail(t)[i] \in R
  <2>1. \A i \in 1 .. Len(t) - 1 : i + 1 \in 1 .. Len(t) BY <1>1
  <2> QED BY <1>2, <1>4, <2>1
<1> QED BY <1>1, <1>2, <1>3, <1>4

LEMMA ConfiguringNext ==
  ASSUME Considerate, TypeOK, Contexts, Configuring, Entered, Enabled, Quieted, [Next]_vars
  PROVE  Configuring'
<1>1. ConfiguringFg /\ ConfiguringIsr BY ConfiguringParts
<1>2. \A s \in Sources \ {"THRE"} : Handled(s) => Handled(s)' BY HandlersStay
<1>3. "THRE" \in Sources /\ "THRE" \notin MM /\ "RTO" \in Sources \ {"THRE"} BY Multimodes
<1>4. ASSUME Foreground' = Foreground, handler'["THRE"] = handler["THRE"] PROVE ConfiguringFg'
  <2>1. \A s \in Sources : Handled(s) => Handled(s)' BY <1>2, <1>4 DEF Handled
  <2>2. Foreground.fn \in {"enable_irq", "disable_irq"} => Silent'
    BY <1>1, SilentStays DEF ConfiguringFg
  <2>3. /\ Foreground.fn = "register" =>
             \E s \in Sources : /\ Foreground.todo = <<s>>
                                /\ Foreground.at \in {"enable", "ret"} => Handled(s)'
        /\ Foreground.fn \in {"enable_irq", "disable_irq"} =>
             \E s \in Sources \ (MM \cup {"THRE"}) : Foreground.todo = <<s>> /\ Handled(s)'
        /\ Foreground.fn = "enable_rx_timeout" => Handled("RTO")'
        /\ Foreground.fn \in {"enable_irq", "disable_irq"} /\ Foreground.at = "store" =>
             \A s \in Foreground.status : s \in Sources \ {"THRE"} /\ Handled(s)'
    BY <1>1, <1>3, <2>1 DEF ConfiguringFg
  <2> QED BY <1>4, <2>2, <2>3 DEF ConfiguringFg
<1>5. ASSUME Interrupt'.fn \notin {"enable_irq", "disable_irq", "mmi"} PROVE ConfiguringIsr'
  BY <1>5 DEF ConfiguringIsr
<1>6. ASSUME Interrupt' = Interrupt PROVE ConfiguringIsr'
  <2>1. /\ Interrupt.fn \in {"enable_irq", "disable_irq"} /\ Interrupt.at = "store" =>
             \A s \in Interrupt.status : s \in Sources /\ (s # "THRE" => Handled(s)')
        /\ Interrupt.fn = "mmi" /\ Interrupt.at = "iim" =>
             Interrupt.todo # << >> /\ \A i \in 1 .. Len(Interrupt.todo) : Interrupt.todo[i] \in MM
    BY <1>1, <1>2 DEF ConfiguringIsr
  <2> QED BY <1>6, <2>1 DEF ConfiguringIsr
<1>7. ASSUME UNCHANGED control PROVE handler'["THRE"] = handler["THRE"] BY <1>7 DEF control
<1>8. CASE Step("fg")
  <2>1. /\ Interrupt.fn = "none" /\ Interrupt' = Interrupt
        /\ Foreground'.fn = Foreground.fn /\ Foreground'.todo = Foreground.todo
    BY <1>8, FgSteps
  <2>2. ASSUME Foreground.fn \notin {"register", "enable_irq", "disable_irq", "enable_rx_timeout"}
        PROVE  ConfiguringFg'
    BY <2>1, <2>2 DEF ConfiguringFg
  <2>3. ASSUME Foreground.fn = "register" PROVE ConfiguringFg'
    <3>1. Foreground.at \notin {"lsr", "or"} BY <2>3, PlacesOf DEF Contexts
    <3>2. \E s \in Sources : Register("fg", s)
      BY <1>3, <1>8, <2>3, <3>1, StepOf DEF Foreground, MSS_UART_set_tx_handler
    <3>3. PICK s \in Sources : Register("fg", s) BY <3>2
    <3>4. /\ Foreground.todo = <<s>>
          /\ \/ Foreground.at = "handler" /\ Handled(s)'
             \/ Foreground.at = "enable" /\ handler' = handler
      BY <3>3, Registers DEF Foreground
    <3>5. Handled(s)' BY <2>3, <3>4, Configured DEF Handled
    <3> QED BY <2>1, <2>3, <3>4, <3>5 DEF ConfiguringFg
  <2>4. ASSUME Foreground.fn \in {"enable_irq", "disable_irq"} PROVE ConfiguringFg'
    <3>1. Foreground.at \notin {"lsr", "or"} BY <2>4, PlacesOf DEF Contexts
    <3>2. MSS_UART_enable_irq("fg") \/ MSS_UART_disable_irq("fg")
      BY <1>8, <2>4, <3>1, StepOf DEF Foreground
    <3>3. Foreground'.at = "store" => Foreground'.status = ien \ MM
      BY <3>2, LoadsIen DEF Foreground
    <3>4. Silent /\ Silent' BY <1>1, <2>4, SilentStays DEF ConfiguringFg
    <3>5. \A s \in ien \ MM : s \in Sources \ {"THRE"} /\ Handled(s)'
      BY <1>2, <3>4 DEF Enabled, Silent, TypeOK
    <3>6. \E s \in Sources \ (MM \cup {"THRE"}) : Foreground.todo = <<s>> /\ Handled(s)'
      BY <1>1, <1>2, <2>4 DEF ConfiguringFg
    <3> QED BY <2>1, <2>4, <3>3, <3>4, <3>5, <3>6 DEF ConfiguringFg
  <2>5. ASSUME Foreground.fn = "enable_rx_timeout" PROVE ConfiguringFg'
    <3>1. Handled("RTO")' BY <1>1, <1>2, <1>3, <2>5 DEF ConfiguringFg
    <3> QED BY <2>1, <2>5, <3>1 DEF ConfiguringFg
  <2>6. ConfiguringFg' BY <2>2, <2>3, <2>4, <2>5
  <2> QED BY <1>6, <2>1, <2>6, ConfiguringParts
<1>9. CASE Step("isr")
  <2>1. /\ Foreground' = Foreground /\ Interrupt.fn # "none"
        /\ Interrupt'.fn = Interrupt.fn /\ Interrupt'.todo = Interrupt.todo
    BY <1>9, IsrSteps
  <2>2. handler'["THRE"] = handler["THRE"] BY <2>1, HandlersStay DEF Running, Interrupt
  <2>3. ConfiguringFg' BY <1>4, <2>1, <2>2
  <2>4. ASSUME Interrupt.fn = "disable_irq" PROVE ConfiguringIsr'
    <3>1. Interrupt.at \notin {"lsr", "or"} BY <2>4, PlacesOf DEF Contexts
    <3>2. MSS_UART_disable_irq("isr")
      BY <1>9, <2>4, <3>1, StepOf DEF Interrupt
    <3>3. Interrupt'.at = "store" => Interrupt'.status = ien \ MM
      BY <3>2, LoadsIen DEF Interrupt
    <3>4. \A s \in ien \ MM : s \in Sources /\ (s # "THRE" => Handled(s)')
      BY <1>2 DEF Enabled, TypeOK
    <3> QED BY <2>1, <2>4, <3>3, <3>4 DEF ConfiguringIsr
  <2>5. Interrupt.fn \notin {"enable_irq", "mmi"}
    <3>1. Interrupt.fn = "mmi" => Interrupt.at \notin {"lsr", "or"} BY PlacesOf DEF Contexts
    <3>2. Interrupt.fn # "mmi" BY <1>9, <3>1, StepOf DEF Interrupt
    <3> QED BY <3>2 DEF Contexts, IsrFunctions
  <2>6. ConfiguringIsr' BY <1>5, <2>1, <2>4, <2>5
  <2> QED BY <2>3, <2>6, ConfiguringParts
<1>10. ASSUME NEW source \in Sources, Enter(source) PROVE Configuring'
  <2>1. /\ Foreground' = Foreground /\ Interrupt.fn = "none"
        /\ \/ Interrupt' = Interrupt
           \/ /\ Interrupt'.fn = "mmi" /\ Interrupt'.at = "iim" /\ Interrupt'.todo = Multimode
           \/ source \notin MM /\ Interrupt' = Handler(source)
    BY <1>10, EnterStarts
  <2>2. ConfiguringFg' BY <1>4, <1>7, <1>10, <2>1 DEF Enter
  <2>3. CASE source \notin MM /\ Interrupt' = Handler(source)
    <3>1. source \in Sources \ MM BY <2>3
    <3>2. ConfiguringIsr' BY <1>5, <2>3, <3>1, HandlerFields
    <3> QED BY <2>2, <3>2, ConfiguringParts
  <2>4. CASE Interrupt'.fn = "mmi" /\ Interrupt'.at = "iim" /\ Interrupt'.todo = Multimode
    <3>1. Multimode # << >> /\ \A i \in 1 .. Len(Multimode) : Multimode[i] \in MM
      BY DEF MM, Multimode
    <3>2. ConfiguringIsr' BY <2>4, <3>1 DEF ConfiguringIsr
    <3> QED BY <2>2, <3>2, ConfiguringParts
  <2>5. CASE Interrupt' = Interrupt BY <1>6, <2>2, <2>5, ConfiguringParts
  <2> QED BY <2>1, <2>3, <2>4, <2>5
<1>11. CASE Identify
  <2>1. /\ Foreground' = Foreground /\ Interrupt.fn = "mmi" /\ Interrupt.at = "iim"
        /\ Interrupt'.fn = "mmi" /\ Interrupt'.todo = Tail(Interrupt.todo)
        /\ Interrupt'.at = IF Len(Interrupt.todo) = 1 THEN "ret" ELSE "iim"
    BY <1>11, IdentifyMoves
  <2>2. ConfiguringFg' BY <1>4, <1>7, <1>11, <2>1 DEF Identify
  <2>3. Interrupt.todo # << >> /\ \A i \in 1 .. Len(Interrupt.todo) : Interrupt.todo[i] \in MM
    BY <1>1, <2>1 DEF ConfiguringIsr
  <2>4. Interrupt.todo \in Seq(Sources) BY Context DEF Interrupt, Frame
  <2> DEFINE t == Interrupt.todo
  <2> HIDE DEF t
  <2>5. ASSUME t \in Seq(Sources), t # << >>, Len(t) # 1, \A i \in 1 .. Len(t) : t[i] \in MM
        PROVE  Tail(t) # << >> /\ \A i \in 1 .. Len(Tail(t)) : Tail(t)[i] \in MM
    BY ONLY <2>5, Tails
  <2>6. Interrupt'.at = "iim" => Tail(t) # << >> /\ \A i \in 1 .. Len(Tail(t)) : Tail(t)[i] \in MM
    BY <2>1, <2>3, <2>4, <2>5 DEF t
  <2>7. ConfiguringIsr' BY <2>1, <2>6 DEF ConfiguringIsr, t
  <2> QED BY <2>2, <2>7, ConfiguringParts
<1>12. CASE UartTxHandler
  <2>1. Foreground' = Foreground /\ (Interrupt'.fn = "none" \/ Interrupt'.at = "load")
    BY <1>12, UartTxMoves, NoFrameFields
  <2>2. ConfiguringFg' BY <1>4, <1>7, <1>12, <2>1 DEF UartTxHandler
  <2>3. ConfiguringIsr' BY <1>12, <2>1, UartTxMoves, NoFrameFields DEF ConfiguringIsr
  <2> QED BY <2>2, <2>3, ConfiguringParts
<1>13. CASE Leave
  <2>1. Foreground' = Foreground /\ Interrupt'.fn = "none" BY <1>13, LeaveMoves, NoFrameFields
  <2> QED BY <1>4, <1>5, <1>7, <1>13, <2>1, ConfiguringParts DEF Leave
<1>14. CASE Return
  <2>1. Foreground'.fn = "none" /\ Interrupt' = Interrupt BY <1>14, ReturnMoves, NoFrameFields
  <2>2. ConfiguringFg' BY <2>1 DEF ConfiguringFg
  <2> QED BY <1>6, <2>1, <2>2, ConfiguringParts
<1>15. CASE Transmit
  <2>1. /\ Interrupt' = Interrupt
        /\ \/ Foreground'.fn \in {"irq_tx", "polled_tx", "polled_tx_string", "fill_tx_fifo"}
           \/ Foreground'.fn = "register" /\ Foreground'.at = "handler" /\ Foreground'.todo = <<"THRE">>
    BY <1>15, TransmitMoves
  <2>2. ConfiguringFg' BY <1>3, <2>1 DEF ConfiguringFg
  <2> QED BY <1>6, <2>1, <2>2, ConfiguringParts
<1>16. CASE Inquire
  <2>1. /\ Interrupt' = Interrupt
        /\ Foreground'.fn \in {"tx_complete", "get_tx_status", "get_rx_status", "get_rx"}
    BY <1>16, InquireMoves
  <2>2. ConfiguringFg' BY <2>1 DEF ConfiguringFg
  <2> QED BY <1>6, <2>1, <2>2, ConfiguringParts
<1>17. CASE Configure
  <2>1. Interrupt' = Interrupt /\ Interrupt.fn = "none" /\ Foreground.fn = "none" BY <1>17, ConfigureMoves
  <2>2. UNCHANGED control BY <1>17, ConfigureMoves
  <2>3. \A s \in Sources : Handled(s)' <=> Handled(s) BY <2>2 DEF control, Handled
  <2>4. ASSUME NEW s \in Sources, Foreground'.fn = "register", Foreground'.at = "handler",
               Foreground'.todo = <<s>>
        PROVE  ConfiguringFg'
    BY <2>4 DEF ConfiguringFg
  <2>5. ASSUME NEW s \in Sources \ (MM \cup {"THRE"}),
               Foreground'.fn \in {"enable_irq", "disable_irq"}, Foreground'.at = "load",
               Foreground'.todo = <<s>>, Handled(s), Silent
        PROVE  ConfiguringFg'
    BY <2>2, <2>3, <2>5 DEF ConfiguringFg, Silent, control
  <2>6. ASSUME Foreground'.fn = "enable_rx_timeout", Handled("RTO") PROVE ConfiguringFg'
    BY <1>3, <2>3, <2>6 DEF ConfiguringFg
  <2>7. Careful /\ (mayTx => Silent) BY <2>1 DEF Considerate, Quieted
  <2>8. ConfiguringFg' BY <1>17, <2>4, <2>5, <2>6, <2>7, ConfigureMoves
  <2> QED BY <1>6, <2>1, <2>8, ConfiguringParts
<1>18. CASE Shift \/ Arrive \/ Raise \/ UNCHANGED vars
  <2>1. Foreground' = Foreground /\ Interrupt' = Interrupt /\ UNCHANGED control
    BY <1>18 DEF Shift, Arrive, Raise, vars, Foreground, Interrupt
  <2> QED BY <1>4, <1>6, <1>7, <2>1, ConfiguringParts
<1> QED BY <1>8, <1>9, <1>10, <1>11, <1>12, <1>13, <1>14, <1>15, <1>16, <1>17, <1>18
        DEF Next, MSS_UART_isr

-----------------------------------------------------------------------------
(* Reception. *)
LEMMA ReadOne ==
  ASSUME NEW g \in Seq(Nat), NEW r \in Seq(Nat), NEW n \in Nat, r # << >>, Ordered(g, r, n)
  PROVE  Ordered(Append(g, Head(r)), Tail(r), n)
<1> DEFINE h == Append(g, Head(r))
           t == Tail(r)
<1>1. /\ Len(r) \in Nat /\ Len(r) >= 1 /\ Head(r) = r[1] /\ r[1] \in Nat
      /\ Len(t) = Len(r) - 1 /\ \A i \in 1 .. Len(t) : t[i] = r[i + 1] /\ i + 1 \in 1 .. Len(r)
  <2>1. /\ Len(r) \in Nat /\ Len(r) >= 1 /\ Head(r) = r[1] /\ Head(r) \in Nat
        /\ Len(t) = Len(r) - 1 /\ \A i \in 1 .. Len(r) - 1 : t[i] = r[i + 1]
    BY Tails
  <2>2. \A i \in 1 .. Len(r) - 1 : i + 1 \in 1 .. Len(r) BY <2>1
  <2> QED BY <2>1, <2>2
<1>2. /\ Len(g) \in Nat /\ Len(h) = Len(g) + 1 /\ h[Len(g) + 1] = r[1]
      /\ \A i \in 1 .. Len(g) : h[i] = g[i]
  BY <1>1
<1>3. 1 \in 1 .. Len(r) BY <1>1
<1>4. \A i \in 1 .. Len(r) : r[i] \in Nat OBVIOUS
<1>5. \A i \in 1 .. Len(g) : g[i] \in Nat OBVIOUS
<1> HIDE DEF h, t
<1>6. \A i \in 1 .. Len(h) : i \in 1 .. Len(g) \/ i = Len(g) + 1 BY <1>2
<1>7. \A i, j \in 1 .. Len(h) : i < j => h[i] < h[j]
  <2> SUFFICES ASSUME NEW i \in 1 .. Len(h), NEW j \in 1 .. Len(h), i < j PROVE h[i] < h[j]
    OBVIOUS
  <2>1. i \in 1 .. Len(g) BY <1>2
  <2>2. CASE j \in 1 .. Len(g) BY <1>2, <2>1, <2>2 DEF Ordered
  <2>3. CASE j = Len(g) + 1
    <3>1. g[i] < r[1] BY <1>3, <2>1 DEF Ordered
    <3> QED BY <1>2, <2>1, <2>3, <3>1
  <2> QED BY <1>6, <2>2, <2>3
<1>8. \A i, j \in 1 .. Len(t) : i < j => t[i] < t[j]
  <2> SUFFICES ASSUME NEW i \in 1 .. Len(t), NEW j \in 1 .. Len(t), i < j PROVE t[i] < t[j]
    OBVIOUS
  <2>1. i + 1 < j + 1 BY <1>1
  <2> QED BY <1>1, <2>1 DEF Ordered
<1>9. \A i \in 1 .. Len(h), j \in 1 .. Len(t) : h[i] < t[j]
  <2> SUFFICES ASSUME NEW i \in 1 .. Len(h), NEW j \in 1 .. Len(t) PROVE h[i] < t[j] OBVIOUS
  <2>1. t[j] = r[j + 1] /\ j + 1 \in 1 .. Len(r) /\ 1 < j + 1 BY <1>1
  <2>2. r[1] < t[j] BY <1>3, <2>1 DEF Ordered
  <2>3. CASE i \in 1 .. Len(g) BY <1>2, <2>1, <2>3 DEF Ordered
  <2> QED BY <1>2, <1>6, <2>2, <2>3
<1>10. \A i \in 1 .. Len(h) : 0 < h[i] /\ h[i] <= n
  BY <1>2, <1>3, <1>6 DEF Ordered
<1>11. \A i \in 1 .. Len(t) : 0 < t[i] /\ t[i] <= n
  BY <1>1 DEF Ordered
<1> QED BY <1>7, <1>8, <1>9, <1>10, <1>11 DEF Ordered, h, t

LEMMA OneArrives ==
  ASSUME NEW g \in Seq(Nat), NEW r \in Seq(Nat), NEW n \in Nat, Ordered(g, r, n)
  PROVE  Ordered(g, r, n + 1) /\ Ordered(g, Append(r, n + 1), n + 1)
<1> DEFINE w == Append(r, n + 1)
<1>1. /\ Len(r) \in Nat /\ Len(w) = Len(r) + 1 /\ w[Len(r) + 1] = n + 1
      /\ \A i \in 1 .. Len(r) : w[i] = r[i] /\ r[i] \in Nat
  OBVIOUS
<1>2. \A i \in 1 .. Len(g) : g[i] \in Nat OBVIOUS
<1> HIDE DEF w
<1>3. \A i \in 1 .. Len(w) : i \in 1 .. Len(r) \/ i = Len(r) + 1 BY <1>1
<1>4. \A i \in 1 .. Len(g) : 0 < g[i] /\ g[i] < n + 1 BY <1>2 DEF Ordered
<1>5. \A i \in 1 .. Len(r) : 0 < r[i] /\ r[i] < n + 1 BY <1>1 DEF Ordered
<1>6. Ordered(g, r, n + 1) BY <1>1, <1>2, <1>4, <1>5 DEF Ordered
<1>7. \A i, j \in 1 .. Len(w) : i < j => w[i] < w[j]
  <2> SUFFICES ASSUME NEW i \in 1 .. Len(w), NEW j \in 1 .. Len(w), i < j PROVE w[i] < w[j]
    OBVIOUS
  <2>1. i \in 1 .. Len(r) BY <1>1
  <2>2. CASE j \in 1 .. Len(r) BY <1>1, <2>1, <2>2 DEF Ordered
  <2>3. CASE j = Len(r) + 1
    <3>1. w[j] = n + 1 /\ w[i] = r[i] BY <1>1, <2>1, <2>3
    <3> QED BY <1>5, <2>1, <3>1
  <2> QED BY <1>3, <2>2, <2>3
<1>8. \A i \in 1 .. Len(g), j \in 1 .. Len(w) : g[i] < w[j]
  BY <1>1, <1>3, <1>4 DEF Ordered
<1>9. \A i \in 1 .. Len(w) : 0 < w[i] /\ w[i] <= n + 1
  <2> SUFFICES ASSUME NEW i \in 1 .. Len(w) PROVE 0 < w[i] /\ w[i] <= n + 1 OBVIOUS
  <2>1. CASE i = Len(r) + 1 BY <1>1, <2>1
  <2>2. CASE i \in 1 .. Len(r)
    <3>1. w[i] = r[i] /\ w[i] \in Nat BY <1>1, <2>2
    <3>2. 0 < r[i] /\ r[i] < n + 1 BY <1>5, <2>2
    <3> QED BY ONLY <3>1, <3>2
  <2> QED BY <1>3, <2>1, <2>2
<1> QED BY <1>6, <1>7, <1>8, <1>9 DEF Ordered, w

(* What a context keeps when it reads LSR. *)
Keeps(c) ==
  /\ ctx'[c].fn = ctx[c].fn /\ ctx'[c].todo = ctx[c].todo /\ ctx'[c].buf = ctx[c].buf
  /\ ctx'[c].size = ctx[c].size /\ ctx'[c].fill = ctx[c].fill /\ ctx'[c].ret = ctx[c].ret

LEMMA LooksMove ==
  ASSUME TypeOK, NEW c \in {"fg", "isr"}
  PROVE  /\ ReadLsr(c) => Keeps(c) /\ ctx'[c].at = "or" /\ ctx'[c].status = LSR
         /\ OrStatus(c) => Keeps(c) /\ ctx'[c].at = "test" /\ ctx'[c].status = ctx[c].status
<1>1. ctx[c] \in Frame BY Context
<1>2. ASSUME ReadLsr(c) PROVE Keeps(c) /\ ctx'[c].at = "or" /\ ctx'[c].status = LSR
  <2>1. ctx'[c] = [ctx[c] EXCEPT !.status = LSR, !.old = uart.status, !.at = "or"]
    BY <1>2, Became DEF ReadLsr
  <2> QED BY <1>1, <2>1 DEF Keeps, Frame
<1>3. ASSUME OrStatus(c) PROVE Keeps(c) /\ ctx'[c].at = "test" /\ ctx'[c].status = ctx[c].status
  <2>1. "test" \in Everywhere BY DEF Everywhere, Placed
  <2>2. ctx'[c] = [ctx[c] EXCEPT !.at = "test"] BY <1>3, <2>1, Gone, Became DEF OrStatus
  <2> QED BY <1>1, <2>2 DEF Keeps, Frame
<1> QED BY <1>2, <1>3

(* Who reads and who fills the receiver. *)
LEMMA RxSteps ==
  ASSUME [Next]_vars
  PROVE  \/ UNCHANGED <<got, rxfifo, arrived>>
         \/ /\ Arrive /\ got' = got /\ arrived' = arrived + 1 /\ UNCHANGED <<ctx, control>>
            /\ rxfifo' = rxfifo \/ rxfifo' = Append(rxfifo, arrived + 1)
         \/ \E c \in {"fg", "isr"} :
              /\ Step(c) /\ At(c, "get_rx", "rbr") /\ arrived' = arrived
              /\ got' = Append(got, IF rxfifo = << >> THEN 0 ELSE Head(rxfifo))
              /\ rxfifo' = IF rxfifo = << >> THEN << >> ELSE Tail(rxfifo)
<1>1. ASSUME NEW c \in {"fg", "isr"}, Step(c), ~MSS_UART_get_rx(c)
      PROVE  UNCHANGED <<got, rxfifo, arrived>>
  BY <1>1, StepOf DEF ReadLsr, OrStatus, MSS_UART_polled_tx, MSS_UART_polled_tx_string,
     MSS_UART_fill_tx_fifo, MSS_UART_irq_tx, default_tx_handler, DefaultTxEnd,
     MSS_UART_tx_complete, MSS_UART_get_rx_status, MSS_UART_get_tx_status,
     MSS_UART_get_modem_status, Register, MSS_UART_set_tx_handler, MSS_UART_enable_irq,
     MSS_UART_disable_irq, MSS_UART_enable_rx_timeout, Put, hardware, receiver, client
<1>2. ASSUME NEW c \in {"fg", "isr"}, Step(c), MSS_UART_get_rx(c)
      PROVE  \/ UNCHANGED <<got, rxfifo, arrived>>
             \/ /\ Step(c) /\ At(c, "get_rx", "rbr") /\ arrived' = arrived
                /\ got' = Append(got, IF rxfifo = << >> THEN 0 ELSE Head(rxfifo))
                /\ rxfifo' = IF rxfifo = << >> THEN << >> ELSE Tail(rxfifo)
  BY <1>2 DEF MSS_UART_get_rx, hardware, receiver, client
<1>3. CASE MSS_UART_isr \/ Return
  BY <1>3 DEF MSS_UART_isr, Enter, Identify, UartTxHandler, Leave, Return, hardware, receiver, client
<1>4. CASE Transmit \/ Inquire \/ Configure
  BY <1>4 DEF Transmit, Inquire, Configure, Begin, hardware, receiver
<1>5. CASE Arrive BY <1>5 DEF Arrive, client
<1>6. CASE Shift \/ Raise \/ UNCHANGED vars
  BY <1>6 DEF Shift, Raise, vars, hardware, receiver, client
<1> QED BY <1>1, <1>2, <1>3, <1>4, <1>5, <1>6 DEF Next

LEMMA ReceivedNext ==
  ASSUME TypeOK, Received, Reading, [Next]_vars PROVE Received'
<1>1. got \in Seq(Nat) /\ rxfifo \in Seq(Nat) /\ arrived \in Nat BY DEF TypeOK
<1>2. CASE UNCHANGED <<got, rxfifo, arrived>> BY <1>2 DEF Received
<1>3. CASE /\ got' = got /\ arrived' = arrived + 1
           /\ rxfifo' = rxfifo \/ rxfifo' = Append(rxfifo, arrived + 1)
  <2>1. Ordered(got, rxfifo, arrived + 1) /\ Ordered(got, Append(rxfifo, arrived + 1), arrived + 1)
    BY <1>1, OneArrives DEF Received
  <2> QED BY <1>3, <2>1 DEF Received
<1>4. ASSUME NEW c \in {"fg", "isr"}, At(c, "get_rx", "rbr"), arrived' = arrived,
             got' = Append(got, IF rxfifo = << >> THEN 0 ELSE Head(rxfifo)),
             rxfifo' = IF rxfifo = << >> THEN << >> ELSE Tail(rxfifo)
      PROVE  Received'
  <2>1. rxfifo # << >> BY <1>4 DEF Reading, At
  <2>2. Ordered(Append(got, Head(rxfifo)), Tail(rxfifo), arrived) BY <1>1, <2>1, ReadOne DEF Received
  <2> QED BY <1>4, <2>1, <2>2 DEF Received
<1> QED BY <1>2, <1>3, <1>4, RxSteps

LEMMA GetRxMoves ==
  ASSUME TypeOK, NEW c \in {"fg", "isr"}, MSS_UART_get_rx(c)
  PROVE  /\ ctx'[c].fn = "get_rx"
         /\ \/ /\ UNCHANGED rxfifo
               /\ ctx'[c].at = "ret" \/ (ctx'[c].at = "rbr" /\ ctx[c].at = "test" /\ "DR" \in ctx[c].status)
            \/ ctx[c].at = "rbr" /\ ctx'[c].at = "lsr"
<1>1. ctx[c] \in Frame BY Context
<1>2. CASE /\ At(c, "get_rx", "test") /\ Goto(c, IF More(c) THEN "rbr" ELSE "ret")
           /\ UNCHANGED <<hardware, control, client, uart, asserted, owed>>
  <2>1. (IF More(c) THEN "rbr" ELSE "ret") \in Everywhere BY DEF Everywhere, Placed
  <2>2. ctx'[c] = [ctx[c] EXCEPT !.at = IF More(c) THEN "rbr" ELSE "ret"]
    BY <1>2, <2>1, Gone, Became
  <2> QED BY <1>1, <1>2, <2>2 DEF Frame, More, At, hardware, receiver
<1>3. CASE At(c, "get_rx", "rbr") /\ Become(c, [ctx[c] EXCEPT !.ret = @ + 1, !.at = "lsr"])
  <2>1. ctx'[c] = [ctx[c] EXCEPT !.ret = @ + 1, !.at = "lsr"] BY <1>3, Became
  <2> QED BY <1>1, <1>3, <2>1 DEF Frame, At
<1> QED BY <1>2, <1>3 DEF MSS_UART_get_rx

(* What a context in get_rx knows. *)
Known(c) ==
  ctx[c].fn = "get_rx" =>
    /\ ctx[c].at \in {"or", "test"} /\ "DR" \in ctx[c].status => rxfifo # << >>
    /\ ctx[c].at = "rbr" => rxfifo # << >>

LEMMA ReadingNext ==
  ASSUME TypeOK, Contexts, Configuring, Enabled, Reading, [Next]_vars PROVE Reading'
<1> DEFINE Owners == /\ Foreground.fn = "get_rx" => handler["RX"] = "null"
                     /\ Interrupt.fn = "get_rx" => handler["RX"] = "user"
<1>0. Owners /\ Known("fg") /\ Known("isr") BY DEF Reading, Known
<1>1. SUFFICES Owners' /\ Known("fg")' /\ Known("isr")' BY DEF Reading, Known
<1>2. "RX" \in Sources \ {"THRE"} BY Multimodes
<1>3. /\ handler["RX"] = "user" => handler'["RX"] = "user"
      /\ handler'["RX"] # handler["RX"] => Foreground.fn = "register"
  BY <1>2, HandlersStay DEF Handled
<1>4. handler["RX"] \in {"null", "user"} BY <1>2 DEF TypeOK, Enabled
<1>5. ASSUME Foreground'.fn = Foreground.fn, Interrupt'.fn \in {Interrupt.fn, "none"} PROVE Owners'
  BY <1>0, <1>3, <1>5
<1>6. ASSUME NEW c \in {"fg", "isr"}, ctx'[c] = ctx[c], rxfifo # << >> => rxfifo' # << >>
      PROVE  Known(c)'
  BY <1>0, <1>6 DEF Known
<1>7. ASSUME NEW c \in {"fg", "isr"}, ctx'[c].fn # "get_rx" \/ ctx'[c].at = "lsr" PROVE Known(c)'
  BY <1>7 DEF Known
<1>8. ASSUME NEW c \in {"fg", "isr"}, Step(c) PROVE Known(c)'
  <2>1. ctx'[c].fn = ctx[c].fn /\ ctx[c] \in Frame BY <1>8, StepStays, Context
  <2>2. CASE ReadLsr(c)
    <3>1. ctx'[c].status = LSR /\ ctx'[c].at = "or" BY <2>2, LooksMove
    <3>2. "DR" \in LSR => rxfifo # << >> BY DEF LSR
    <3>3. rxfifo' = rxfifo BY <2>2 DEF ReadLsr
    <3> QED BY <3>1, <3>2, <3>3 DEF Known
  <2>3. CASE OrStatus(c)
    <3>1. ctx'[c].status = ctx[c].status /\ ctx'[c].at = "test" /\ ctx[c].at = "or"
      BY <2>3, LooksMove DEF OrStatus
    <3>2. rxfifo' = rxfifo BY <2>3 DEF OrStatus, hardware, receiver
    <3> QED BY <1>0, <2>1, <3>1, <3>2 DEF Known
  <2>4. CASE MSS_UART_get_rx(c)
    <3>1. ctx'[c].fn = "get_rx" /\ ctx[c].fn = "get_rx"
      BY <2>1, <2>4, GetRxMoves
    <3> QED BY <1>0, <2>4, <3>1, GetRxMoves DEF Known
  <2>5. ASSUME ctx[c].fn # "get_rx" PROVE Known(c)' BY <1>7, <2>1, <2>5
  <2> QED BY <1>8, <2>2, <2>3, <2>4, <2>5, StepOf
<1>9. ASSUME NEW c \in {"fg", "isr"}, rxfifo # << >>, rxfifo' = << >>
      PROVE  \E d \in {"fg", "isr"} : Step(d) /\ ctx[d].fn = "get_rx"
  <2>1. rxfifo \in Seq(Nat) /\ arrived + 1 \in Nat BY DEF TypeOK
  <2>2. Append(rxfifo, arrived + 1) # << >> BY <2>1
  <2> QED BY <1>9, <2>2, RxSteps DEF At
<1>10. CASE Step("fg")
  <2>1. Interrupt.fn = "none" /\ Interrupt' = Interrupt /\ Foreground'.fn = Foreground.fn
    BY <1>10, FgSteps
  <2>2. Owners' BY <1>5, <2>1
  <2>3. Known("isr")' BY <2>1 DEF Known, Interrupt
  <2> QED BY <1>8, <1>10, <2>2, <2>3
<1>11. CASE Step("isr")
  <2>1. Foreground' = Foreground /\ Interrupt.fn # "none" /\ Interrupt'.fn = Interrupt.fn
    BY <1>11, IsrSteps
  <2>2. Owners' BY <1>5, <2>1
  <2>3. Known("fg")'
    <3>1. CASE Foreground.fn # "get_rx" BY <1>7, <2>1, <3>1 DEF Foreground
    <3>2. CASE Foreground.fn = "get_rx"
      <4>1. ~Step("fg") BY <2>1, FgSteps
      <4>2. Interrupt.fn # "get_rx" BY <1>0, <3>2
      <4>3. rxfifo # << >> => rxfifo' # << >> BY <1>9, <4>1, <4>2 DEF Interrupt
      <4> QED BY <1>6, <2>1, <4>3 DEF Foreground
    <3> QED BY <3>1, <3>2
  <2> QED BY <1>8, <1>11, <2>2, <2>3
<1>12. ASSUME ~Step("fg"), ~Step("isr") PROVE rxfifo # << >> => rxfifo' # << >> BY <1>9, <1>12
<1>13. ASSUME NEW source \in Sources, Enter(source) PROVE Owners' /\ Known("fg")' /\ Known("isr")'
  <2>1. /\ Foreground' = Foreground /\ Interrupt.fn = "none"
        /\ \/ Interrupt' = Interrupt
           \/ Interrupt'.fn = "mmi"
           \/ source \notin MM /\ handler[source] # "null" /\ Interrupt' = Handler(source)
    BY <1>13, EnterStarts
  <2>2. handler' = handler /\ rxfifo' = rxfifo BY <1>13 DEF Enter, control, hardware, receiver
  <2>3. Known("fg")' BY <1>6, <2>1, <2>2 DEF Foreground
  <2>4. CASE source \notin MM /\ handler[source] # "null" /\ Interrupt' = Handler(source)
    <3>1. source \in Sources \ MM BY <2>4
    <3>2. Interrupt'.fn = "get_rx" => Interrupt'.at = "lsr" /\ source = "RX"
      BY <2>4, <3>1, HandlerFields
    <3>3. Owners' BY <1>0, <1>4, <2>1, <2>2, <2>4, <3>2
    <3>4. Known("isr")' BY <1>7, <3>2 DEF Interrupt
    <3> QED BY <2>3, <3>3, <3>4
  <2>5. CASE Interrupt' = Interrupt \/ Interrupt'.fn = "mmi"
    <3>1. Owners' BY <1>0, <2>1, <2>2, <2>5
    <3>2. Known("isr")' BY <1>7, <2>1, <2>5 DEF Interrupt
    <3> QED BY <2>3, <3>1, <3>2
  <2> QED BY <2>1, <2>4, <2>5
<1>14. ASSUME Foreground' = Foreground, Interrupt'.fn # "get_rx", UNCHANGED <<control, rxfifo>>
       PROVE  Owners' /\ Known("fg")' /\ Known("isr")'
  <2>1. Owners' BY <1>0, <1>14 DEF control
  <2>2. Known("fg")' BY <1>6, <1>14 DEF Foreground
  <2>3. Known("isr")' BY <1>7, <1>14 DEF Interrupt
  <2> QED BY <2>1, <2>2, <2>3
<1>15. CASE Identify \/ UartTxHandler \/ Leave
  <2>1. Foreground' = Foreground /\ Interrupt'.fn # "get_rx"
    BY <1>15, IdentifyMoves, UartTxMoves, LeaveMoves, NoFrameFields
  <2>2. UNCHANGED <<control, rxfifo>>
    BY <1>15 DEF Identify, UartTxHandler, Leave, hardware, receiver
  <2> QED BY <1>14, <2>1, <2>2
<1>16. CASE Return \/ Transmit \/ Inquire \/ Configure
  <2>1. /\ Interrupt' = Interrupt /\ Interrupt.fn = "none"
        /\ Foreground'.fn = "get_rx" => Foreground'.at = "lsr" /\ handler["RX"] = "null"
    BY <1>16, ReturnMoves, TransmitMoves, InquireMoves, ConfigureMoves, NoFrameFields
  <2>2. UNCHANGED control
    BY <1>16, TransmitMoves, InquireMoves, ConfigureMoves DEF Return
  <2>3. Owners' BY <2>1, <2>2 DEF control
  <2>4. Known("fg")' BY <1>7, <2>1 DEF Foreground
  <2>5. Known("isr")' BY <1>7, <2>1 DEF Interrupt
  <2> QED BY <2>3, <2>4, <2>5
<1>17. CASE Shift \/ Arrive \/ Raise \/ UNCHANGED vars
  <2>1. UNCHANGED <<control, ctx>> BY <1>17 DEF Shift, Arrive, Raise, vars
  <2>2. rxfifo # << >> => rxfifo' # << >>
    <3>1. rxfifo \in Seq(Nat) /\ arrived + 1 \in Nat BY DEF TypeOK
    <3>2. Append(rxfifo, arrived + 1) # << >> BY <3>1
    <3>3. rxfifo' = rxfifo \/ rxfifo' = Append(rxfifo, arrived + 1)
      BY <1>17 DEF Shift, Arrive, Raise, vars, hardware, receiver
    <3> QED BY <3>2, <3>3
  <2>3. Owners' BY <1>0, <2>1 DEF control, Foreground, Interrupt
  <2>4. Known("fg")' /\ Known("isr")' BY <1>6, <2>1, <2>2
  <2> QED BY <2>3, <2>4
<1> QED BY <1>10, <1>11, <1>13, <1>15, <1>16, <1>17 DEF Next, MSS_UART_isr

-----------------------------------------------------------------------------
(* Transmission. *)
LEMMA OrderPut ==
  ASSUME NEW l \in Seq(Nat), NEW s \in Nat, NEW f \in Seq(Nat), InOrder(l, s, f),
         NEW b \in Nat, b = Len(l) + (IF s = 0 THEN 0 ELSE 1) + Len(f) + 1
  PROVE  InOrder(l, s, Append(f, b)) /\ Len(Append(f, b)) = Len(f) + 1
<1> DEFINE g == Append(f, b)
<1>1. /\ Len(f) \in Nat /\ Len(g) = Len(f) + 1 /\ g[Len(f) + 1] = b
      /\ \A i \in 1 .. Len(f) : g[i] = f[i]
  OBVIOUS
<1> HIDE DEF g
<1>2. \A i \in 1 .. Len(g) : i \in 1 .. Len(f) \/ i = Len(f) + 1 BY <1>1
<1> DEFINE k == Len(l) + (IF s = 0 THEN 0 ELSE 1)
<1>3. k \in Nat /\ b = k + Len(f) + 1 OBVIOUS
<1>4. \A i \in 1 .. Len(f) : f[i] = k + i BY DEF InOrder
<1> HIDE DEF k
<1>5. \A i \in 1 .. Len(g) : g[i] = k + i
  <2> SUFFICES ASSUME NEW i \in 1 .. Len(g) PROVE g[i] = k + i OBVIOUS
  <2>1. CASE i \in 1 .. Len(f) BY ONLY <1>1, <1>4, <2>1
  <2>2. CASE i = Len(f) + 1
    <3>1. g[i] = b /\ b = k + Len(f) + 1 BY <1>1, <1>3, <2>2
    <3>2. k + Len(f) + 1 = k + i BY ONLY <1>1, <1>3, <2>2
    <3> QED BY ONLY <3>1, <3>2
  <2> QED BY <1>2, <2>1, <2>2
<1>6. InOrder(l, s, g) BY <1>5 DEF InOrder, k
<1> QED BY <1>1, <1>6 DEF g

LEMMA OrderLoaded ==
  ASSUME NEW l \in Seq(Nat), NEW f \in Seq(Nat), f # << >>, InOrder(l, 0, f)
  PROVE  /\ InOrder(l, Head(f), Tail(f)) /\ Head(f) # 0 /\ Head(f) \in Nat
         /\ Len(f) = 1 + Len(Tail(f))
<1>1. /\ Len(f) \in Nat /\ Len(f) >= 1 /\ Head(f) = f[1]
      /\ Len(Tail(f)) = Len(f) - 1 /\ \A i \in 1 .. Len(f) - 1 : Tail(f)[i] = f[i + 1]
  BY Tails
<1>2. 1 \in 1 .. Len(f) /\ \A i \in 1 .. Len(f) - 1 : i + 1 \in 1 .. Len(f) BY <1>1
<1>3. Len(l) \in Nat OBVIOUS
<1>4. Head(f) = Len(l) + 1 BY <1>1, <1>2, <1>3 DEF InOrder
<1>5. \A i \in 1 .. Len(Tail(f)) : Tail(f)[i] = Len(l) + 1 + i
  <2> SUFFICES ASSUME NEW i \in 1 .. Len(Tail(f)) PROVE Tail(f)[i] = Len(l) + 1 + i OBVIOUS
  <2>1. Tail(f)[i] = f[i + 1] /\ i + 1 \in 1 .. Len(f) BY <1>1, <1>2
  <2>2. f[i + 1] = Len(l) + (i + 1) BY <1>3, <2>1 DEF InOrder
  <2> QED BY <1>3, <2>1, <2>2
<1>6. Head(f) # 0 BY <1>3, <1>4
<1>7. InOrder(l, Head(f), Tail(f)) BY <1>3, <1>4, <1>5, <1>6 DEF InOrder
<1> QED BY <1>1, <1>3, <1>4, <1>6, <1>7

LEMMA OrderLeft ==
  ASSUME NEW l \in Seq(Nat), NEW s \in Nat, NEW f \in Seq(Nat), s # 0, InOrder(l, s, f)
  PROVE  InOrder(Append(l, s), 0, f) /\ Len(Append(l, s)) = Len(l) + 1
<1> DEFINE m == Append(l, s)
<1>1. /\ Len(l) \in Nat /\ Len(m) = Len(l) + 1 /\ m[Len(l) + 1] = s
      /\ \A i \in 1 .. Len(l) : m[i] = l[i]
  OBVIOUS
<1> HIDE DEF m
<1>2. \A i \in 1 .. Len(m) : i \in 1 .. Len(l) \/ i = Len(l) + 1 BY <1>1
<1>3. \A i \in 1 .. Len(m) : m[i] = i BY <1>1, <1>2 DEF InOrder
<1>4. \A i \in 1 .. Len(f) : f[i] = Len(m) + 0 + i BY <1>1 DEF InOrder
<1>5. InOrder(m, 0, f) BY <1>3, <1>4 DEF InOrder
<1> QED BY <1>1, <1>5 DEF m

LEMMA Numbers ==
  ASSUME TypeOK
  PROVE  /\ Foreground.buf \in Nat /\ Foreground.size \in Int /\ Foreground.fill \in Int
         /\ Foreground.ret \in Nat
         /\ Interrupt.buf \in Nat /\ Interrupt.size \in Int /\ Interrupt.fill \in Int
         /\ Interrupt.ret \in Nat
         /\ Written \in Nat /\ asked \in Nat /\ rest.buf \in Nat /\ rest.size \in Int
         /\ Len(txfifo) \in Nat /\ Len(line) \in Nat
         /\ FifoSize \in Nat /\ FifoSize > 0
         /\ app.bytes \in Nat
<1>1. Foreground \in Frame /\ Interrupt \in Frame BY Context DEF Foreground, Interrupt
<1>2. Len(line) \in Nat /\ Len(txfifo) \in Nat /\ Shifting \in Nat BY DEF TypeOK, Shifting
<1>3. app.bytes \in Nat
  <2>1. app \in Apps BY DEF TypeOK
  <2>2. app.bytes \in 0 .. NULL /\ NULL \in Nat BY <2>1, AppsAssumption DEF NULL
  <2> QED BY <2>2
<1> QED BY <1>1, <1>2, <1>3, UartAssumption DEF Frame, Written, TypeOK

LEMMA WritesOne ==
  ASSUME TypeOK, Consecutive, NEW b \in Nat, WriteTHR(b), b = Written + 1,
         Len(txfifo) < FifoSize, UNCHANGED <<shift, line>>
  PROVE  /\ Consecutive' /\ Written' = Written + 1 /\ Len(txfifo') = Len(txfifo) + 1
<1>1. txfifo' = Append(txfifo, b) BY DEF WriteTHR
<1>2. line \in Seq(Nat) /\ shift \in Nat /\ txfifo \in Seq(Nat) BY DEF TypeOK
<1>3. b = Len(line) + (IF shift = 0 THEN 0 ELSE 1) + Len(txfifo) + 1 
  BY <1>2 DEF Written, Shifting
<1>4. InOrder(line, shift, Append(txfifo, b)) /\ Len(Append(txfifo, b)) = Len(txfifo) + 1
  BY <1>2, <1>3, OrderPut DEF Consecutive
<1>5. Consecutive' BY <1>1, <1>4 DEF Consecutive
<1>6. Written' = Len(line) + Shifting + Len(Append(txfifo, b))
  BY <1>1 DEF Written, Shifting
<1>7. Len(line) \in Nat /\ Shifting \in Nat /\ Len(txfifo) \in Nat BY <1>2 DEF Shifting
<1>8. Written' = Written + 1 BY <1>4, <1>6, <1>7 DEF Written
<1> QED BY <1>1, <1>4, <1>5, <1>8

LEMMA ShiftMoves ==
  ASSUME TypeOK, Consecutive, Shift
  PROVE  /\ Consecutive' /\ Written' = Written /\ Len(txfifo') <= Len(txfifo)
         /\ txfifo = << >> => txfifo' = << >>
         /\ txfifo # << >> \/ shift # 0
<1>1. line \in Seq(Nat) /\ shift \in Nat /\ txfifo \in Seq(Nat) BY DEF TypeOK
<1>2. Len(line) \in Nat /\ Len(txfifo) \in Nat BY <1>1
<1>3. CASE shift = 0 /\ txfifo # << >> /\ shift' = Head(txfifo) /\ txfifo' = Tail(txfifo)
           /\ UNCHANGED line
  <2>1. /\ InOrder(line, Head(txfifo), Tail(txfifo)) /\ Head(txfifo) # 0
        /\ Len(txfifo) = 1 + Len(Tail(txfifo)) /\ Tail(txfifo) \in Seq(Nat)
    BY <1>1, <1>3, OrderLoaded, Tails DEF Consecutive
  <2>2. Len(txfifo') \in Nat /\ Len(txfifo) = 1 + Len(txfifo') BY <1>3, <2>1
  <2>3. Shifting = 0 /\ Shifting' = 1 BY <1>3, <2>1 DEF Shifting
  <2>4. Written' = Written BY <1>2, <1>3, <2>2, <2>3 DEF Written
  <2>5. Consecutive' BY <1>3, <2>1 DEF Consecutive
  <2> QED BY <1>2, <1>3, <2>2, <2>4, <2>5
<1>4. CASE shift # 0 /\ line' = Append(line, shift) /\ shift' = 0 /\ UNCHANGED txfifo
  <2>1. InOrder(Append(line, shift), 0, txfifo) /\ Len(Append(line, shift)) = Len(line) + 1
    BY <1>1, <1>4, OrderLeft DEF Consecutive
  <2>2. Shifting = 1 /\ Shifting' = 0 BY <1>4 DEF Shifting
  <2>3. Len(line') = Len(line) + 1 BY <1>4, <2>1
  <2>4. Written' = Written BY <1>2, <1>4, <2>2, <2>3 DEF Written
  <2>5. Consecutive' BY <1>4, <2>1 DEF Consecutive
  <2> QED BY <1>2, <1>4, <2>4, <2>5
<1> QED BY <1>3, <1>4 DEF Shift

LEMMA PutMoves ==
  ASSUME TypeOK, NEW c \in {"fg", "isr"}, NEW at \in Everywhere
  PROVE  /\ Put(c, at) =>
              /\ ctx'[c].fn = ctx[c].fn /\ ctx'[c].todo = ctx[c].todo /\ ctx'[c].at = at
              /\ ctx'[c].buf = ctx[c].buf + 1 /\ ctx'[c].size = ctx[c].size - 1
              /\ ctx'[c].fill = ctx[c].fill - 1 /\ ctx'[c].ret = ctx[c].ret + 1
         /\ Goto(c, at) => Keeps(c) /\ ctx'[c].at = at /\ ctx'[c].status = ctx[c].status
         /\ Fill(c, at) =>
              /\ ctx'[c].fn = ctx[c].fn /\ ctx'[c].todo = ctx[c].todo
              /\ ctx'[c].buf = ctx[c].buf /\ ctx'[c].size = ctx[c].size
              /\ ctx'[c].ret = ctx[c].ret
              /\ IF Thre(c) THEN ctx'[c].fill = Lesser(ctx[c].size, FifoSize) /\ ctx'[c].at = "put"
                            ELSE ctx'[c].fill = ctx[c].fill /\ ctx'[c].at = at
<1>1. ctx[c] \in Frame BY Context
<1>2. ASSUME Put(c, at) PROVE
              /\ ctx'[c].fn = ctx[c].fn /\ ctx'[c].todo = ctx[c].todo /\ ctx'[c].at = at
              /\ ctx'[c].buf = ctx[c].buf + 1 /\ ctx'[c].size = ctx[c].size - 1
              /\ ctx'[c].fill = ctx[c].fill - 1 /\ ctx'[c].ret = ctx[c].ret + 1
  <2>1. ctx'[c] = [ctx[c] EXCEPT !.buf = @ + 1, !.size = @ - 1, !.fill = @ - 1,
                                 !.ret = @ + 1, !.at = at]
    BY <1>2, Became DEF Put
  <2> QED BY <1>1, <2>1 DEF Frame
<1>3. ASSUME Goto(c, at) PROVE Keeps(c) /\ ctx'[c].at = at /\ ctx'[c].status = ctx[c].status
  <2>1. ctx'[c] = [ctx[c] EXCEPT !.at = at] BY <1>3, Gone, Became
  <2> QED BY <1>1, <2>1 DEF Keeps, Frame
<1>4. ASSUME Fill(c, at), Thre(c)
      PROVE  /\ ctx'[c].fn = ctx[c].fn /\ ctx'[c].todo = ctx[c].todo
             /\ ctx'[c].buf = ctx[c].buf /\ ctx'[c].size = ctx[c].size /\ ctx'[c].ret = ctx[c].ret
             /\ ctx'[c].fill = Lesser(ctx[c].size, FifoSize) /\ ctx'[c].at = "put"
  <2>1. ctx'[c] = [ctx[c] EXCEPT !.fill = Lesser(ctx[c].size, FifoSize), !.at = "put"]
    BY <1>4, Became DEF Fill
  <2> QED BY <1>1, <2>1 DEF Frame
<1>5. ASSUME Fill(c, at), ~Thre(c)
      PROVE  /\ ctx'[c].fn = ctx[c].fn /\ ctx'[c].todo = ctx[c].todo
             /\ ctx'[c].buf = ctx[c].buf /\ ctx'[c].size = ctx[c].size /\ ctx'[c].ret = ctx[c].ret
             /\ ctx'[c].fill = ctx[c].fill /\ ctx'[c].at = at
  <2>1. ctx'[c] = [ctx[c] EXCEPT !.at = at] BY <1>5, Became DEF Fill
  <2> QED BY <1>1, <2>1 DEF Frame
<1> QED BY <1>2, <1>3, <1>4, <1>5

(* The parts of the invariant about what the foreground has handed over,   *)
(* and about what the interrupt handler takes.                             *)
Giving == Polling /\ FillingOnce /\ Handing /\ Registering /\ Idle
Taking == Sending /\ Serving /\ Quieted

Looking == {"lsr", "or", "test"}

(* A step that hands nothing over and writes nothing. *)
Kept ==
  /\ Written' = Written /\ asked' = asked /\ rest' = rest /\ mayTx' = mayTx
  /\ uart'.tx_buffer = uart.tx_buffer /\ uart'.tx_buff_size = uart.tx_buff_size
  /\ uart'.tx_idx = uart.tx_idx
  /\ handler'["THRE"] = handler["THRE"] /\ (Silent' <=> Silent)

FgCalm ==
  \/ ~Handed /\ ~Handed'
  \/ /\ Foreground'.fn = Foreground.fn /\ Foreground'.todo = Foreground.todo
     /\ Foreground'.buf = Foreground.buf /\ Foreground'.size = Foreground.size
     /\ Foreground'.fill = Foreground.fill
     /\ \/ Foreground'.at = Foreground.at
        \/ Foreground.at \in Looking /\ Foreground'.at \in Looking

Loose == /\ Interrupt.fn \notin {"fill_tx_fifo", "disable_irq"}
         /\ Interrupt.fn = "default_tx" => Interrupt.at \notin {"put", "end"}
IsrCalm ==
  \/ Loose /\ Interrupt'.fn \notin {"fill_tx_fifo", "disable_irq", "default_tx"}
  \/ /\ Interrupt'.fn = Interrupt.fn /\ Interrupt'.buf = Interrupt.buf
     /\ Interrupt'.size = Interrupt.size /\ Interrupt'.fill = Interrupt.fill
     /\ Interrupt'.ret = Interrupt.ret
     /\ \/ Interrupt'.at = Interrupt.at
        \/ Interrupt.at \in Looking /\ Interrupt'.at \in Looking

LEMMA NotHanded ==
  ASSUME Giving, ~Handed', (Silent => asked = Written)' PROVE Giving'
<1>1. Polling' BY DEF Polling, Handed
<1>2. FillingOnce' BY DEF FillingOnce, Handed
<1>3. Handing' BY DEF Handing, Handed
<1>4. Registering' BY DEF Registering, Handed
<1>5. Idle' BY DEF Idle
<1> QED BY <1>1, <1>2, <1>3, <1>4, <1>5 DEF Giving

LEMMA LoudNotHanded ==
  ASSUME Giving, ~Silent PROVE ~Handed
BY DEF Giving, Handed, Polling, FillingOnce, Handing, Registering

LEMMA SilentTaking ==
  ASSUME Silent' PROVE Taking'
BY DEF Taking, Sending, Serving, Quieted

LEMMA GivingKept ==
  ASSUME TypeOK, Giving, Kept, FgCalm PROVE Giving'
<1>1. CASE ~Handed /\ ~Handed'
  <2>1. (Silent => asked = Written)' BY <1>1 DEF Giving, Idle, Kept
  <2> QED BY <1>1, <2>1, NotHanded
<1>2. CASE /\ Foreground'.fn = Foreground.fn /\ Foreground'.todo = Foreground.todo
           /\ Foreground'.buf = Foreground.buf /\ Foreground'.size = Foreground.size
           /\ Foreground'.fill = Foreground.fill
           /\ \/ Foreground'.at = Foreground.at
              \/ Foreground.at \in Looking /\ Foreground'.at \in Looking
  <2>1. /\ Foreground'.at = "ret" <=> Foreground.at = "ret"
        /\ Foreground'.at = "put" <=> Foreground.at = "put"
        /\ Foreground'.at \in Looking <=> Foreground.at \in Looking
        /\ Foreground'.at \in {"size", "idx", "enable"} <=> Foreground.at \in {"size", "idx", "enable"}
        /\ Foreground'.at \in {"idx", "enable"} <=> Foreground.at \in {"idx", "enable"}
        /\ Foreground'.at = "enable" <=> Foreground.at = "enable"
    BY <1>2 DEF Looking
  <2>2. Polling' BY <1>2, <2>1 DEF Giving, Polling, Kept
  <2>3. FillingOnce' BY <1>2, <2>1 DEF Giving, FillingOnce, Kept, Looking
  <2>4. Handing' BY <1>2, <2>1 DEF Giving, Handing, Kept
  <2>5. Registering' BY <1>2, <2>1 DEF Giving, Registering, Kept
  <2>6. Idle' BY <1>2, <2>1 DEF Giving, Idle, Handed, Kept
  <2> QED BY <2>2, <2>3, <2>4, <2>5, <2>6 DEF Giving
<1> QED BY <1>1, <1>2 DEF FgCalm

LEMMA TakingKept ==
  ASSUME TypeOK, Taking, Kept, IsrCalm PROVE Taking'
<1>1. CASE Loose /\ Interrupt'.fn \notin {"fill_tx_fifo", "disable_irq", "default_tx"}
  <2>1. Sending' BY <1>1 DEF Taking, Sending, Kept, Loose
  <2>2. Serving' BY <1>1 DEF Taking, Serving, Kept, Loose
  <2>3. Quieted' BY <1>1 DEF Taking, Quieted, Kept, Loose
  <2> QED BY <2>1, <2>2, <2>3 DEF Taking
<1>2. CASE /\ Interrupt'.fn = Interrupt.fn /\ Interrupt'.buf = Interrupt.buf
           /\ Interrupt'.size = Interrupt.size /\ Interrupt'.fill = Interrupt.fill
           /\ Interrupt'.ret = Interrupt.ret
           /\ \/ Interrupt'.at = Interrupt.at
              \/ Interrupt.at \in Looking /\ Interrupt'.at \in Looking
  <2>1. /\ Interrupt'.at = "put" <=> Interrupt.at = "put"
        /\ Interrupt'.at = "end" <=> Interrupt.at = "end"
        /\ Interrupt'.at \in {"lsr", "or", "test"} <=> Interrupt.at \in {"lsr", "or", "test"}
    BY <1>2 DEF Looking
  <2>2. Sending' BY <1>2, <2>1 DEF Taking, Sending, Kept
  <2>3. Serving' BY <1>2, <2>1 DEF Taking, Serving, Kept
  <2>4. Quieted' BY <1>2, <2>1 DEF Taking, Quieted, Kept
  <2> QED BY <2>2, <2>3, <2>4 DEF Taking
<1> QED BY <1>1, <1>2 DEF IsrCalm

Controlled == TypeOK /\ Contexts /\ Entered /\ Enabled /\ Configuring
Sound == Consecutive /\ Room /\ Giving /\ Taking /\ Completing /\ Bounded

RoomOf(c) == ctx[c].fn \in Filling =>
  /\ ctx[c].at \in {"or", "test"} /\ "THRE" \in ctx[c].status => txfifo = << >>
  /\ ctx[c].at = "put" =>
       IF ctx[c].fn = "polled_tx_string"
       THEN 0 <= ctx[c].fill /\ Len(txfifo) <= ctx[c].fill /\ ctx[c].fill < FifoSize
       ELSE 0 < ctx[c].fill /\ Len(txfifo) + ctx[c].fill <= FifoSize

LEMMA RoomParts ==
  /\ Room <=> RoomOf("fg") /\ RoomOf("isr")
  /\ Room' <=> RoomOf("fg")' /\ RoomOf("isr")'
<1>1. Room <=> RoomOf("fg") /\ RoomOf("isr") BY DEF Room, RoomOf
<1> QED BY <1>1, PTL

LEMMA RoomKept ==
  ASSUME TypeOK, NEW c \in {"fg", "isr"}, RoomOf(c), txfifo' \in Seq(Nat),
         Len(txfifo') <= Len(txfifo), txfifo = << >> => txfifo' = << >>,
         \/ ctx'[c] = ctx[c]
         \/ ctx'[c].fn \notin Filling
         \/ ctx'[c].at \notin {"or", "test", "put"}
         \/ ctx'[c].at = "or" /\ ctx'[c].status = LSR
         \/ ctx[c].at = "or" /\ ctx'[c].at = "test" /\ ctx'[c].fn = ctx[c].fn
            /\ ctx'[c].status = ctx[c].status
  PROVE  RoomOf(c)'
<1>1. ctx[c].fill \in Int /\ Len(txfifo) \in Nat /\ Len(txfifo') \in Nat /\ FifoSize \in Nat
  <2>1. ctx[c] \in Frame BY Context
  <2>2. txfifo \in Seq(Nat) BY DEF TypeOK
  <2> QED BY <2>1, <2>2, UartAssumption DEF Frame
<1>2. CASE ctx'[c].fn \notin Filling BY <1>2 DEF RoomOf
<1>3. CASE ctx'[c].at \notin {"or", "test", "put"} BY <1>3 DEF RoomOf
<1>4. CASE ctx'[c].at = "or" /\ ctx'[c].status = LSR
  <2>1. "THRE" \in LSR => txfifo = << >> BY DEF LSR
  <2> QED BY <1>4, <2>1 DEF RoomOf
<1>5. CASE ctx[c].at = "or" /\ ctx'[c].at = "test" /\ ctx'[c].fn = ctx[c].fn
            /\ ctx'[c].status = ctx[c].status
  BY <1>5 DEF RoomOf
<1>6. CASE ctx'[c] = ctx[c] BY <1>1, <1>6 DEF RoomOf
<1> QED BY <1>2, <1>3, <1>4, <1>5, <1>6

(* Steps that leave the transmitter and what it is given alone. *)
LEMMA QuietSteps ==
  ASSUME TypeOK, NEW c \in {"fg", "isr"}, Step(c),
         \/ ctx[c].at \in {"lsr", "or"}
         \/ /\ ctx[c].fn \notin Filling \cup {"irq_tx"}
            /\ ~(ctx[c].fn = "register" /\ ctx[c].todo = <<"THRE">>)
  PROVE  /\ UNCHANGED <<transmitter, app, asked, rest, mayTx>>
         /\ uart'.tx_buffer = uart.tx_buffer /\ uart'.tx_buff_size = uart.tx_buff_size
         /\ uart'.tx_idx = uart.tx_idx
<1>1. uart \in Record BY DEF TypeOK
<1>2. ASSUME NEW b PROVE
         LET u == [uart EXCEPT !.status = b]
         IN  u.tx_buffer = uart.tx_buffer /\ u.tx_buff_size = uart.tx_buff_size /\ u.tx_idx = uart.tx_idx
  BY <1>1 DEF Record
<1>3. ASSUME UNCHANGED uart
      PROVE  /\ uart'.tx_buffer = uart.tx_buffer /\ uart'.tx_buff_size = uart.tx_buff_size
             /\ uart'.tx_idx = uart.tx_idx
  BY <1>3
<1>4. ASSUME NEW b, uart' = [uart EXCEPT !.status = b]
      PROVE  /\ uart'.tx_buffer = uart.tx_buffer /\ uart'.tx_buff_size = uart.tx_buff_size
             /\ uart'.tx_idx = uart.tx_idx
  BY <1>2, <1>4
<1>5. CASE OrStatus(c)
  <2>1. UNCHANGED <<transmitter, app, asked, rest, mayTx>> BY <1>5 DEF OrStatus, hardware, client
  <2> QED BY <1>4, <1>5, <2>1 DEF OrStatus
<1>6. CASE MSS_UART_get_rx_status(c)
  <2>1. UNCHANGED <<transmitter, app, asked, rest, mayTx>>
    BY <1>6 DEF MSS_UART_get_rx_status, hardware, client
  <2> QED BY <1>3, <1>4, <1>6, <2>1 DEF MSS_UART_get_rx_status
<1>7. CASE \/ ReadLsr(c) \/ MSS_UART_tx_complete(c) \/ MSS_UART_get_rx(c) \/ MSS_UART_get_tx_status(c)
           \/ MSS_UART_get_modem_status(c) \/ MSS_UART_enable_irq(c)
           \/ MSS_UART_disable_irq(c) \/ MSS_UART_enable_rx_timeout(c)
  <2>1. UNCHANGED <<transmitter, app, asked, rest, mayTx, uart>>
    BY <1>7 DEF ReadLsr, MSS_UART_tx_complete, MSS_UART_get_rx, MSS_UART_get_tx_status,
       MSS_UART_get_modem_status, MSS_UART_enable_irq, MSS_UART_disable_irq,
       MSS_UART_enable_rx_timeout, hardware, client
  <2> QED BY <1>3, <2>1
<1>8. CASE \E s \in Sources \ {"THRE"} : Register(c, s) /\ UNCHANGED uart
  <2>1. UNCHANGED <<transmitter, app, asked, rest, mayTx, uart>>
    BY <1>8 DEF Register, hardware, client
  <2> QED BY <1>3, <2>1
<1>9. ~MSS_UART_set_tx_handler(c) BY DEF MSS_UART_set_tx_handler, Register, At
<1> QED BY <1>5, <1>6, <1>7, <1>8, <1>9, StepOf DEF Filling

LEMMA SilentSame ==
  ASSUME Controlled, [Next]_vars,
         ~(Foreground.fn = "irq_tx" /\ Foreground.at = "enable"),
         ~(Foreground.fn = "register" /\ Foreground.at = "enable" /\ Foreground.todo = <<"THRE">>),
         ~(Interrupt.fn = "default_tx" /\ Interrupt.at = "end"),
         ~(Interrupt.fn = "disable_irq" /\ Interrupt.at = "store")
  PROVE  Silent' <=> Silent
<1>1. "THRE" \in Sources /\ "THRE" \notin MM BY Multimodes
<1>2. Foreground.fn = "enable_irq" /\ Foreground.at = "store" => "THRE" \notin Foreground.status
  BY Configured DEF Controlled, Foreground
<1>3. Foreground.fn \in {"enable_irq", "disable_irq"} => Silent BY DEF Controlled, Configuring
<1>4. CASE ien' = ien BY <1>4 DEF Silent
<1>5. CASE \E s \in Sources : /\ Foreground.fn = "register" /\ Foreground.at = "enable"
                              /\ Foreground.todo = <<s>> /\ ien' = ien \cup {s}
  BY <1>5 DEF Silent
<1>6. CASE \E s \in Sources \ (MM \cup {"THRE"}) :
              /\ Foreground.fn = "enable_irq" /\ Foreground.at = "store"
              /\ ien' = Foreground.status \cup (ien \cap MM) \cup {s}
  BY <1>1, <1>2, <1>3, <1>6 DEF Silent
<1>7. CASE \E c \in {"fg", "isr"} :
              /\ ctx[c].fn = "disable_irq" /\ ctx[c].at = "store"
              /\ ien' \subseteq (ctx[c].status \ {"THRE"}) \cup MM
  BY <1>1, <1>3, <1>7 DEF Silent, Foreground, Interrupt
<1> QED BY <1>4, <1>5, <1>6, <1>7, EnablesStep DEF Controlled

LEMMA CompletingKept ==
  ASSUME Completing, Silent => Silent',
         \/ Foreground'.fn # "tx_complete"
         \/ /\ Foreground' = Foreground /\ asked' = asked
            /\ line' = line \/ Len(line) # asked
  PROVE  Completing'
<1>1. CASE Foreground'.fn # "tx_complete" BY <1>1 DEF Completing
<1>2. CASE Foreground' = Foreground /\ asked' = asked /\ (line' = line \/ Len(line) # asked)
  BY <1>2 DEF Completing
<1> QED BY <1>1, <1>2

LEMMA BoundedKept ==
  ASSUME Bounded, app' = app, asked' = asked,
         \/ Foreground'.fn # "fill_tx_fifo"
         \/ Foreground'.at \notin Looking
         \/ /\ Foreground'.fn = Foreground.fn /\ Foreground'.size = Foreground.size
            /\ Foreground.at \in Looking
  PROVE  Bounded'
BY DEF Bounded, Looking

(* The status is read, in any function. *)
LEMMA LooksSound ==
  ASSUME Controlled, Sound, [Next]_vars, NEW c \in {"fg", "isr"}, Step(c),
         ReadLsr(c) \/ OrStatus(c)
  PROVE  Sound'
<1> USE DEF Controlled, Sound
<1>1. /\ Keeps(c) /\ ctx[c].at \in {"lsr", "or"} /\ ctx'[c].at \in {"or", "test"}
      /\ \/ ctx[c].at = "lsr" /\ ctx'[c].at = "or" /\ ctx'[c].status = LSR
         \/ ctx[c].at = "or" /\ ctx'[c].at = "test" /\ ctx'[c].status = ctx[c].status
  BY LooksMove DEF ReadLsr, OrStatus
<1>2. \A d \in {"fg", "isr"} \ {c} : ctx'[d] = ctx[d] BY StepStays
<1>3. /\ UNCHANGED <<transmitter, app, asked, rest, mayTx>>
      /\ uart'.tx_buffer = uart.tx_buffer /\ uart'.tx_buff_size = uart.tx_buff_size
      /\ uart'.tx_idx = uart.tx_idx
  BY <1>1, QuietSteps
<1>4. UNCHANGED control BY DEF ReadLsr, OrStatus
<1>5. handler'["THRE"] = handler["THRE"] /\ (Silent' <=> Silent) BY <1>4 DEF control, Silent
<1>6. Written' = Written /\ UNCHANGED <<txfifo, shift, line>>
  BY <1>3 DEF Written, Shifting, transmitter
<1>7. Kept BY <1>3, <1>5, <1>6 DEF Kept
<1>8. FgCalm /\ IsrCalm
  BY <1>1, <1>2 DEF FgCalm, IsrCalm, Keeps, Looking, Foreground, Interrupt
<1>9. Giving' /\ Taking' BY <1>7, <1>8, GivingKept, TakingKept
<1>10. Consecutive' BY <1>6 DEF Consecutive
<1>11. Room'
  <2>1. RoomOf("fg") /\ RoomOf("isr") BY RoomParts
  <2>2. txfifo' \in Seq(Nat) /\ Len(txfifo') <= Len(txfifo)
    <3>1. txfifo \in Seq(Nat) BY DEF TypeOK
    <3>2. Len(txfifo) \in Nat BY <3>1
    <3> QED BY <1>6, <3>1, <3>2
  <2>3. ASSUME NEW d \in {"fg", "isr"} PROVE RoomOf(d)'
    <3>1. CASE d # c
      <4>1. ctx'[d] = ctx[d] BY <1>2, <3>1
      <4> QED BY <1>6, <2>1, <2>2, <4>1, RoomKept
    <3>2. CASE d = c BY <1>1, <1>6, <2>1, <2>2, <3>2, RoomKept DEF Keeps
    <3> QED BY <3>1, <3>2
  <2> QED BY <2>3, RoomParts
<1>12. Bounded'
  <2>1. \/ Foreground' = Foreground
        \/ /\ Foreground'.fn = Foreground.fn /\ Foreground'.size = Foreground.size
           /\ Foreground.at \in Looking
    BY <1>1, <1>2 DEF Keeps, Foreground, Looking
  <2>2. Foreground' = Foreground => Bounded' BY <1>3 DEF Bounded
  <2> QED BY <1>3, <2>1, <2>2, BoundedKept
<1>13. Completing'
  <2>1. CASE c = "isr" \/ Foreground.fn # "tx_complete"
    <3>1. Foreground' = Foreground \/ Foreground'.fn # "tx_complete"
      BY <1>1, <1>2, <2>1 DEF Keeps, Foreground
    <3> QED BY <1>3, <1>5, <1>6, <3>1, CompletingKept
  <2>2. CASE c = "fg" /\ Foreground.fn = "tx_complete"
    <3>1. /\ Foreground'.fn = "tx_complete" /\ Foreground'.ret = Foreground.ret
          /\ Foreground.ret = 0
      BY <1>1, <2>2 DEF Keeps, Foreground, Completing
    <3>2. CASE Foreground.at = "or" /\ Foreground'.at = "test" /\ Foreground'.status = Foreground.status
      <4>1. "TEMT" \in Foreground.status => Silent /\ Len(line) = asked
        BY <2>2, <3>2 DEF Completing
      <4>2. Len(line') = Len(line) /\ asked' = asked BY <1>3, <1>6
      <4> QED BY <1>5, <3>1, <3>2, <4>1, <4>2 DEF Completing
    <3>3. CASE Foreground'.at = "or" /\ Foreground'.status = LSR
      <4> SUFFICES ASSUME "TEMT" \in LSR PROVE Silent /\ Len(line) = asked
        BY <1>3, <1>5, <1>6, <3>1, <3>3 DEF Completing
      <4>1. txfifo = << >> /\ shift = 0 BY DEF LSR
      <4>2. "THRE" \in Pending BY <4>1 DEF Pending
      <4>3. ~Interrupted BY <2>2, FgSteps
      <4>4. Silent BY <4>2, <4>3 DEF Interrupted, Active, Silent, Enabled
      <4>5. ~Handed BY <2>2 DEF Handed
      <4>6. asked = Written BY <4>4, <4>5 DEF Giving, Idle
      <4>7. Len(txfifo) = 0 /\ Shifting = 0 BY <4>1 DEF Shifting
      <4>8. Len(line) \in Nat BY DEF TypeOK
      <4> QED BY <4>4, <4>6, <4>7, <4>8 DEF Written
    <3> QED BY <1>1, <2>2, <3>2, <3>3 DEF Foreground
  <2> QED BY <2>1, <2>2
<1> QED BY <1>9, <1>10, <1>11, <1>12, <1>13

LEMMA RoomStays ==
  ASSUME TypeOK, Room, UNCHANGED txfifo,
         \A c \in {"fg", "isr"} : \/ ctx'[c] = ctx[c] \/ ctx'[c].fn \notin Filling
                                  \/ ctx'[c].at \notin {"or", "test", "put"}
  PROVE  Room'
<1>1. txfifo' \in Seq(Nat) /\ Len(txfifo') <= Len(txfifo)
  <2>1. txfifo \in Seq(Nat) BY DEF TypeOK
  <2>2. Len(txfifo) \in Nat BY <2>1
  <2> QED BY <2>1, <2>2
<1>2. RoomOf("fg") /\ RoomOf("isr") BY RoomParts
<1>3. RoomOf("fg")' /\ RoomOf("isr")' BY <1>1, <1>2, RoomKept
<1> QED BY <1>3, RoomParts

(* The foreground does nothing that transmits. *)
LEMMA FgQuietSound ==
  ASSUME Controlled, Sound, [Next]_vars, Step("fg"), Foreground.at \notin {"lsr", "or"},
         Foreground.fn \notin Filling \cup {"irq_tx"},
         ~(Foreground.fn = "register" /\ Foreground.todo = <<"THRE">>)
  PROVE  Sound'
<1> USE DEF Controlled, Sound
<1>1. /\ Interrupt.fn = "none" /\ Interrupt' = Interrupt
      /\ Foreground'.fn = Foreground.fn /\ Foreground'.todo = Foreground.todo
  BY FgSteps
<1>2. /\ UNCHANGED <<transmitter, app, asked, rest, mayTx>>
      /\ uart'.tx_buffer = uart.tx_buffer /\ uart'.tx_buff_size = uart.tx_buff_size
      /\ uart'.tx_idx = uart.tx_idx
  BY QuietSteps DEF Foreground
<1>3. handler'["THRE"] = handler["THRE"] BY HandlersStay
<1>4. Silent' <=> Silent BY <1>1, SilentSame
<1>5. Written' = Written /\ UNCHANGED <<txfifo, shift, line>>
  BY <1>2 DEF Written, Shifting, transmitter
<1>6. Kept BY <1>2, <1>3, <1>4, <1>5 DEF Kept
<1>7. FgCalm BY <1>1 DEF FgCalm, Handed, Filling
<1>8. IsrCalm BY <1>1 DEF IsrCalm
<1>9. Giving' /\ Taking' BY <1>6, <1>7, <1>8, GivingKept, TakingKept
<1>10. Consecutive' BY <1>5 DEF Consecutive
<1>11. Room'
  <2>1. ctx'["isr"] = ctx["isr"] /\ ctx'["fg"].fn \notin Filling BY <1>1 DEF Interrupt, Foreground
  <2> QED BY <1>5, <2>1, RoomStays
<1>12. Bounded' BY <1>1, <1>2, BoundedKept DEF Filling
<1>13. Completing'
  <2>1. CASE Foreground.fn # "tx_complete" BY <1>1, <1>4, <2>1, CompletingKept
  <2>2. CASE Foreground.fn = "tx_complete"
    <3>1. MSS_UART_tx_complete("fg") BY <2>2, StepOf DEF Foreground
    <3>2. Become("fg", [ctx["fg"] EXCEPT !.at = "ret",
                 !.ret = IF uart.tx_buff_size = 0 /\ "TEMT" \in ctx["fg"].status THEN 1 ELSE 0])
          /\ Foreground.at = "test"
      BY <3>1 DEF MSS_UART_tx_complete, At, Foreground
    <3>3. Foreground' = [Foreground EXCEPT !.at = "ret",
                 !.ret = IF uart.tx_buff_size = 0 /\ "TEMT" \in Foreground.status THEN 1 ELSE 0]
      BY <3>2, Became DEF Foreground
    <3>4. /\ Foreground'.at = "ret"
          /\ Foreground'.ret = 1 => "TEMT" \in Foreground.status
      BY <3>3, Context DEF Frame, Foreground
    <3>5. Foreground'.ret = 1 => Silent /\ Len(line) = asked
      BY <2>2, <3>2, <3>4 DEF Completing
    <3> QED BY <1>2, <1>4, <1>5, <3>4, <3>5 DEF Completing
  <2> QED BY <2>1, <2>2
<1> QED BY <1>9, <1>10, <1>11, <1>12, <1>13

(* The interrupt handler does nothing that transmits. *)
LEMMA IsrQuietSound ==
  ASSUME Controlled, Sound, [Next]_vars, Step("isr"), Interrupt.at \notin {"lsr", "or"},
         Interrupt.fn \notin Filling, ~(Interrupt.fn = "disable_irq" /\ Interrupt.at = "store")
  PROVE  Sound'
<1> USE DEF Controlled, Sound
<1>1. /\ Foreground' = Foreground /\ Interrupt.fn # "none"
      /\ Interrupt'.fn = Interrupt.fn
  BY IsrSteps
<1>2. Interrupt.fn \notin {"irq_tx", "register"} /\ ~Running("fg")
  BY <1>1 DEF Contexts, IsrFunctions, Running, Interrupt
<1>3. /\ UNCHANGED <<transmitter, app, asked, rest, mayTx>>
      /\ uart'.tx_buffer = uart.tx_buffer /\ uart'.tx_buff_size = uart.tx_buff_size
      /\ uart'.tx_idx = uart.tx_idx
  BY <1>2, QuietSteps DEF Interrupt
<1>4. handler'["THRE"] = handler["THRE"] BY <1>2, HandlersStay
<1>5. ASSUME ien' = ien PROVE Silent' <=> Silent BY <1>5 DEF Silent
<1>6. Silent' <=> Silent
  <2>1. Interrupt.fn # "default_tx" BY DEF Filling
  <2> QED BY <1>2, <1>5, <2>1, EnablesStep DEF Running, Foreground, Interrupt
<1>7. Written' = Written /\ UNCHANGED <<txfifo, shift, line>>
  BY <1>3 DEF Written, Shifting, transmitter
<1>8. Kept BY <1>3, <1>4, <1>6, <1>7 DEF Kept
<1>9. Giving'
  <2>1. FgCalm BY <1>1 DEF FgCalm
  <2> QED BY <1>8, <2>1, GivingKept
<1>10. Taking'
  <2>1. CASE Interrupt.fn = "disable_irq"
    <3>1. Sending' BY <1>1, <1>8, <2>1 DEF Taking, Sending, Kept
    <3>2. Serving' BY <1>1, <1>8, <2>1 DEF Taking, Serving, Kept
    <3>3. Quieted' BY <1>1, <1>8, <2>1 DEF Taking, Quieted, Kept
    <3> QED BY <3>1, <3>2, <3>3 DEF Taking
  <2>2. CASE Interrupt.fn # "disable_irq"
    <3>1. IsrCalm BY <1>1, <2>2 DEF IsrCalm, Loose, Filling
    <3> QED BY <1>8, <3>1, TakingKept
  <2> QED BY <2>1, <2>2
<1>11. Consecutive' BY <1>7 DEF Consecutive
<1>12. Room'
  <2>1. ctx'["fg"] = ctx["fg"] /\ ctx'["isr"].fn \notin Filling BY <1>1 DEF Interrupt, Foreground
  <2> QED BY <1>7, <2>1, RoomStays
<1>13. Bounded' BY <1>1, <1>3 DEF Bounded
<1>14. Completing' BY <1>1, <1>3, <1>6, <1>7, CompletingKept
<1> QED BY <1>9, <1>10, <1>11, <1>12, <1>13, <1>14

(* The interrupt handler of the application disables the interrupt. *)
LEMMA DisableSound ==
  ASSUME Controlled, Sound, [Next]_vars, Step("isr"),
         Interrupt.fn = "disable_irq" /\ Interrupt.at = "store"
  PROVE  Sound'
<1> USE DEF Controlled, Sound
<1>1. /\ Foreground' = Foreground /\ Interrupt'.fn = "disable_irq" BY IsrSteps
<1>2. MSS_UART_disable_irq("isr") BY StepOf DEF Interrupt
<1>3. Silent' BY <1>2, DisableMoves
<1>4. ~Silent /\ handler["THRE"] = "user" BY DEF Entered
<1>5. UNCHANGED <<transmitter, app, asked>> BY <1>2 DEF MSS_UART_disable_irq, hardware, client
<1>6. Written' = Written /\ UNCHANGED <<txfifo, shift, line>>
  BY <1>5 DEF Written, Shifting, transmitter
<1>7. asked = Written
  <2>1. rest.size = 0 /\ rest.buf = Written /\ rest.buf + rest.size = asked
    BY <1>4 DEF Taking, Serving
  <2> QED BY <2>1, Numbers
<1>8. ~Handed' BY <1>1, <1>4, LoudNotHanded DEF Handed
<1>9. Giving' BY <1>5, <1>6, <1>7, <1>8, NotHanded
<1>10. Taking' BY <1>3, SilentTaking
<1>11. Consecutive' BY <1>6 DEF Consecutive
<1>12. Room'
  <2>1. ctx'["fg"] = ctx["fg"] /\ ctx'["isr"].fn \notin Filling
    BY <1>1 DEF Interrupt, Foreground, Filling
  <2> QED BY <1>6, <2>1, RoomStays
<1>13. Bounded' BY <1>1, <1>5 DEF Bounded
<1>14. Completing' BY <1>1, <1>3, <1>5, <1>6, CompletingKept
<1> QED BY <1>9, <1>10, <1>11, <1>12, <1>13, <1>14

(* The foreground writes a byte. *)
LEMMA FgPutMoves ==
  ASSUME TypeOK, Contexts, Step("fg"), Foreground.at = "put",
         Foreground.fn \in {"polled_tx", "polled_tx_string", "fill_tx_fifo"}
  PROVE  /\ WriteTHR(Foreground.buf + 1)
         /\ UNCHANGED <<shift, line, control, app, asked, rest, mayTx, uart>>
         /\ Foreground'.buf = Foreground.buf + 1 /\ Foreground'.size = Foreground.size - 1
         /\ Foreground.fn = "polled_tx" =>
              /\ Foreground'.fill = Foreground.fill - 1
              /\ Foreground'.at = IF Foreground.size = 1 THEN "ret"
                                  ELSE IF Foreground.fill = 1 THEN "lsr" ELSE "put"
         /\ Foreground.fn = "polled_tx_string" =>
              /\ Foreground'.fill = Foreground.fill + 1
              /\ Foreground'.at = IF Foreground.size = 1 THEN "ret"
                                  ELSE IF Foreground.fill + 1 = FifoSize THEN "lsr" ELSE "put"
         /\ Foreground.fn = "fill_tx_fifo" =>
              /\ Foreground'.fill = Foreground.fill - 1
              /\ Foreground'.at = IF Foreground.fill = 1 THEN "ret" ELSE "put"
<1> DEFINE at1 == IF Foreground.size = 1 THEN "ret" ELSE IF Foreground.fill = 1 THEN "lsr" ELSE "put"
<1> DEFINE at2 == IF Foreground.size = 1 THEN "ret"
                  ELSE IF Foreground.fill + 1 = FifoSize THEN "lsr" ELSE "put"
<1> DEFINE at3 == IF Foreground.fill = 1 THEN "ret" ELSE "put"
<1>1. at1 \in Everywhere /\ at2 \in Everywhere /\ at3 \in Everywhere BY DEF Everywhere, Placed
<1>2. CASE Foreground.fn = "polled_tx"
  <2>1. Put("fg", at1) BY <1>2, StepOf DEF MSS_UART_polled_tx, At, Foreground
  <2> HIDE DEF at1, at2, at3
  <2>2. /\ Foreground'.buf = Foreground.buf + 1 /\ Foreground'.size = Foreground.size - 1
        /\ Foreground'.fill = Foreground.fill - 1 /\ Foreground'.at = at1
    BY <1>1, <2>1, PutMoves DEF Foreground
  <2>3. /\ WriteTHR(Foreground.buf + 1)
        /\ UNCHANGED <<shift, line, control, app, asked, rest, mayTx, uart>>
    BY <2>1 DEF Put, Foreground, client
  <2> QED BY <1>2, <2>2, <2>3 DEF at1
<1>3. CASE Foreground.fn = "fill_tx_fifo"
  <2>1. Put("fg", at3) BY <1>3, StepOf DEF MSS_UART_fill_tx_fifo, At, Foreground
  <2> HIDE DEF at1, at2, at3
  <2>2. /\ Foreground'.buf = Foreground.buf + 1 /\ Foreground'.size = Foreground.size - 1
        /\ Foreground'.fill = Foreground.fill - 1 /\ Foreground'.at = at3
    BY <1>1, <2>1, PutMoves DEF Foreground
  <2>3. /\ WriteTHR(Foreground.buf + 1)
        /\ UNCHANGED <<shift, line, control, app, asked, rest, mayTx, uart>>
    BY <2>1 DEF Put, Foreground, client
  <2> QED BY <1>3, <2>2, <2>3 DEF at3
<1>4. CASE Foreground.fn = "polled_tx_string"
  <2>1. /\ WriteTHR(Foreground.buf + 1)
        /\ Become("fg", [Foreground EXCEPT !.buf = @ + 1, !.size = @ - 1, !.fill = @ + 1, !.at = at2])
        /\ UNCHANGED <<shift, line, control, app, asked, rest, mayTx, uart>>
    BY <1>4, StepOf DEF MSS_UART_polled_tx_string, At, Foreground, client
  <2> HIDE DEF at1, at2, at3
  <2>2. Foreground' = [Foreground EXCEPT !.buf = @ + 1, !.size = @ - 1, !.fill = @ + 1, !.at = at2]
    BY <2>1, Became
  <2>3. Foreground \in Frame BY Context DEF Foreground
  <2>4. /\ Foreground'.buf = Foreground.buf + 1 /\ Foreground'.size = Foreground.size - 1
        /\ Foreground'.fill = Foreground.fill + 1 /\ Foreground'.at = at2
    BY <2>2, <2>3 DEF Frame
  <2> QED BY <1>4, <2>1, <2>4 DEF at2
<1> QED BY <1>2, <1>3, <1>4

LEMMA FgPutSound ==
  ASSUME Controlled, Sound, [Next]_vars, Step("fg"), Foreground.at = "put",
         Foreground.fn \in {"polled_tx", "polled_tx_string", "fill_tx_fifo"}
  PROVE  Sound'
<1> USE DEF Controlled, Sound
<1>1. /\ Interrupt.fn = "none" /\ Interrupt' = Interrupt /\ Foreground'.fn = Foreground.fn
  BY FgSteps
<1>2. /\ WriteTHR(Foreground.buf + 1)
      /\ UNCHANGED <<shift, line, control, app, asked, rest, mayTx, uart>>
      /\ Foreground'.buf = Foreground.buf + 1 /\ Foreground'.size = Foreground.size - 1
  BY FgPutMoves
<1>3. /\ Foreground.fn = "polled_tx" =>
              /\ Foreground'.fill = Foreground.fill - 1
              /\ Foreground'.at = IF Foreground.size = 1 THEN "ret"
                                  ELSE IF Foreground.fill = 1 THEN "lsr" ELSE "put"
      /\ Foreground.fn = "polled_tx_string" =>
              /\ Foreground'.fill = Foreground.fill + 1
              /\ Foreground'.at = IF Foreground.size = 1 THEN "ret"
                                  ELSE IF Foreground.fill + 1 = FifoSize THEN "lsr" ELSE "put"
      /\ Foreground.fn = "fill_tx_fifo" =>
              /\ Foreground'.fill = Foreground.fill - 1
              /\ Foreground'.at = IF Foreground.fill = 1 THEN "ret" ELSE "put"
  BY FgPutMoves
<1>4. Silent /\ Foreground.buf = Written BY DEF Giving, Polling, FillingOnce
<1>5. Silent' BY <1>2, <1>4 DEF Silent, control
<1>6. RoomOf("fg") BY RoomParts
<1>14. /\ Foreground.buf \in Nat /\ Foreground.size \in Int /\ Foreground.fill \in Int
       /\ Written \in Nat /\ asked \in Nat /\ Len(txfifo) \in Nat /\ FifoSize \in Nat
  BY Numbers
<1>7. Len(txfifo) < FifoSize
  <2>1. CASE Foreground.fn = "polled_tx_string"
    <3>1. Len(txfifo) <= Foreground.fill /\ Foreground.fill < FifoSize
      BY <1>6, <2>1 DEF RoomOf, Filling, Foreground
    <3> QED BY ONLY <3>1, <1>14
  <2>2. CASE Foreground.fn # "polled_tx_string"
    <3>1. 0 < Foreground.fill /\ Len(txfifo) + Foreground.fill <= FifoSize
      BY <1>6, <2>2 DEF RoomOf, Filling, Foreground
    <3> QED BY ONLY <3>1, <1>14
  <2> QED BY <2>1, <2>2
<1>8. Consecutive' /\ Written' = Written + 1 /\ Len(txfifo') = Len(txfifo) + 1
  <2>1. Foreground.buf + 1 \in Nat /\ Foreground.buf + 1 = Written + 1 BY <1>4, Numbers
  <2> QED BY <1>2, <1>7, <2>1, WritesOne
<1>9. Giving'
  <2>1. Polling'
    <3> SUFFICES ASSUME Foreground.fn \in {"polled_tx", "polled_tx_string"} PROVE Polling'
      BY <1>1 DEF Polling
    <3>1. Written + Foreground.size = asked /\ Foreground.size > 0
      BY DEF Giving, Polling
    <3>2. Foreground'.buf = Written' /\ Written' + Foreground'.size = asked'
      <4>1. /\ asked' = asked /\ Written' = Written + 1 /\ Foreground.buf = Written
            /\ Foreground'.buf = Foreground.buf + 1 /\ Foreground'.size = Foreground.size - 1
        BY <1>2, <1>4, <1>8
      <4> QED BY ONLY <1>14, <3>1, <4>1
    <3>3. IF Foreground'.at = "ret" THEN Foreground'.size = 0 ELSE Foreground'.size > 0
      <4>1. /\ Foreground'.at = "ret" <=> Foreground.size = 1
            /\ Foreground'.size = Foreground.size - 1
        BY <1>2, <1>3
      <4>2. IF Foreground.size = 1 THEN Foreground'.size = 0 ELSE Foreground'.size > 0
        BY ONLY <1>14, <3>1, <4>1
      <4> QED BY <4>1, <4>2
    <3>4. ASSUME Foreground'.at = "put", Foreground.fn = "polled_tx"
          PROVE  Foreground'.fill <= Foreground'.size
      <4>1. Foreground.fill <= Foreground.size BY <3>4 DEF Giving, Polling
      <4> QED BY <1>2, <1>3, <3>4, <4>1, Numbers
    <3> QED BY <1>1, <1>5, <3>2, <3>3, <3>4 DEF Polling
  <2>2. FillingOnce'
    <3> SUFFICES ASSUME Foreground.fn = "fill_tx_fifo" PROVE FillingOnce' BY <1>1 DEF FillingOnce
    <3>1. asked = Written + Foreground.fill BY DEF Giving, FillingOnce
    <3>2. Foreground'.fill = Foreground.fill - 1
          /\ Foreground'.at = IF Foreground.fill = 1 THEN "ret" ELSE "put"
      BY <1>3
    <3>3. asked' = IF Foreground'.at = "put" THEN Written' + Foreground'.fill ELSE Written'
      <4>1. asked' = asked /\ Written' = Written + 1 BY <1>2, <1>8
      <4>2. CASE Foreground.fill = 1
        <5>1. Foreground'.at = "ret" BY <3>2, <4>2
        <5> QED BY <3>1, <4>1, <4>2, <5>1
      <4>3. CASE Foreground.fill # 1
        <5>1. Foreground'.at = "put" BY <3>2, <4>3
        <5>2. asked' = Written' + Foreground'.fill BY ONLY <1>14, <3>1, <3>2, <4>1
        <5> QED BY <5>1, <5>2
      <4> QED BY <4>2, <4>3
    <3>4. Foreground'.buf = Written' BY <1>2, <1>4, <1>8, Numbers
    <3>5. Foreground'.at \notin {"lsr", "or", "test"} BY <3>2
    <3> QED BY <1>5, <3>3, <3>4, <3>5 DEF FillingOnce
  <2>3. Handing' /\ Registering' BY <1>1 DEF Handing, Registering
  <2>4. Idle' BY <1>1 DEF Idle, Handed
  <2> QED BY <2>1, <2>2, <2>3, <2>4 DEF Giving
<1>10. Taking' BY <1>5, SilentTaking
<1>11. Room'
  <2>1. RoomOf("isr")' BY <1>1 DEF RoomOf, Interrupt, Filling
  <2>2. RoomOf("fg")'
    <3>1. CASE Foreground.fn = "polled_tx_string"
      <4>1. /\ 0 <= Foreground.fill /\ Len(txfifo) <= Foreground.fill /\ Foreground.fill < FifoSize
        BY <1>6, <3>1 DEF RoomOf, Filling, Foreground
      <4>2. Foreground'.at = "put" =>
              0 <= Foreground'.fill /\ Len(txfifo') <= Foreground'.fill /\ Foreground'.fill < FifoSize
        <5>1. /\ Foreground'.fill = Foreground.fill + 1
              /\ Foreground'.at = "put" => Foreground.fill + 1 # FifoSize
          BY <1>3, <3>1
        <5>2. Len(txfifo') = Len(txfifo) + 1 BY <1>8
        <5> QED BY ONLY <1>14, <4>1, <5>1, <5>2
      <4>3. Foreground'.at \notin {"or", "test"} BY <1>3, <3>1
      <4> QED BY <1>1, <3>1, <4>2, <4>3 DEF RoomOf, Foreground
    <3>2. CASE Foreground.fn # "polled_tx_string"
      <4>1. 0 < Foreground.fill /\ Len(txfifo) + Foreground.fill <= FifoSize
        BY <1>6, <3>2 DEF RoomOf, Filling, Foreground
      <4>2. Foreground'.at = "put" => 0 < Foreground'.fill /\ Len(txfifo') + Foreground'.fill <= FifoSize
        <5>1. Foreground'.fill = Foreground.fill - 1 /\ (Foreground'.at = "put" => Foreground.fill # 1)
          BY <1>3, <3>2
        <5>2. Len(txfifo') = Len(txfifo) + 1 BY <1>8
        <5> QED BY ONLY <1>14, <4>1, <5>1, <5>2
      <4>3. Foreground'.at \notin {"or", "test"} BY <1>3, <3>2
      <4> QED BY <1>1, <3>2, <4>2, <4>3 DEF RoomOf, Foreground
    <3> QED BY <3>1, <3>2
  <2> QED BY <2>1, <2>2, RoomParts
<1>12. Completing' BY <1>1 DEF Completing
<1>13. Bounded'
  <2>1. Foreground.fn = "fill_tx_fifo" => Foreground'.at \notin Looking BY <1>3 DEF Looking
  <2> QED BY <1>1, <1>2, <2>1, BoundedKept
<1> QED BY <1>8, <1>9, <1>10, <1>11, <1>12, <1>13

(* It has seen the FIFO empty, or has not. *)
LEMMA LesserOf ==
  ASSUME NEW m \in Int, NEW n \in Int
  PROVE  /\ Lesser(m, n) \in Int /\ Lesser(m, n) <= m /\ Lesser(m, n) <= n
         /\ m > 0 /\ n > 0 => Lesser(m, n) > 0
         /\ m >= 0 /\ n > 0 => Lesser(m, n) >= 0
BY DEF Lesser

LEMMA FgTestMoves ==
  ASSUME TypeOK, Contexts, Step("fg"), Foreground.at = "test",
         Foreground.fn \in {"polled_tx", "polled_tx_string", "fill_tx_fifo"}
  PROVE  /\ UNCHANGED <<transmitter, control, app, rest, mayTx, uart>>
         /\ Foreground'.buf = Foreground.buf /\ Foreground'.size = Foreground.size
         /\ \/ /\ Thre("fg") /\ Foreground'.at = "put"
               /\ Foreground'.fill = IF Foreground.fn = "polled_tx_string" THEN 0
                                     ELSE Lesser(Foreground.size, FifoSize)
               /\ asked' = IF Foreground.fn = "fill_tx_fifo"
                           THEN asked + Lesser(Foreground.size, FifoSize) ELSE asked
            \/ /\ Foreground'.at = IF Foreground.fn = "fill_tx_fifo" THEN "ret" ELSE "lsr"
               /\ asked' = asked
<1>1. "lsr" \in Everywhere /\ "ret" \in Everywhere BY DEF Everywhere, Placed
<1>2. CASE Foreground.fn = "polled_tx"
  <2>1. Fill("fg", "lsr") /\ UNCHANGED <<hardware, control, client, uart>>
    BY <1>2, StepOf DEF MSS_UART_polled_tx, At, Foreground
  <2> QED BY <1>1, <1>2, <2>1, PutMoves DEF Foreground, hardware, client
<1>3. CASE Foreground.fn = "fill_tx_fifo"
  <2>1. /\ Fill("fg", "ret") /\ UNCHANGED <<hardware, control, app, mayTx, rest, uart>>
        /\ asked' = IF Thre("fg") THEN asked + Lesser(Foreground.size, FifoSize) ELSE asked
    BY <1>3, StepOf DEF MSS_UART_fill_tx_fifo, At, Foreground
  <2> QED BY <1>1, <1>3, <2>1, PutMoves DEF Foreground, hardware
<1>4. CASE Foreground.fn = "polled_tx_string"
  <2> DEFINE at == IF Thre("fg") THEN "put" ELSE "lsr"
  <2>1. Become("fg", [Foreground EXCEPT !.fill = 0, !.at = at])
        /\ UNCHANGED <<hardware, control, client, uart>>
    BY <1>4, StepOf DEF MSS_UART_polled_tx_string, At, Foreground
  <2>2. Foreground' = [Foreground EXCEPT !.fill = 0, !.at = at] BY <2>1, Became
  <2>3. Foreground \in Frame BY Context DEF Foreground
  <2> HIDE DEF at
  <2>4. /\ Foreground'.buf = Foreground.buf /\ Foreground'.size = Foreground.size
        /\ Foreground'.fill = 0 /\ Foreground'.at = at
    BY <2>2, <2>3 DEF Frame
  <2> QED BY <1>4, <2>1, <2>4 DEF at, hardware, client
<1> QED BY <1>2, <1>3, <1>4

LEMMA FgTestSound ==
  ASSUME Controlled, Sound, [Next]_vars, Step("fg"), Foreground.at = "test",
         Foreground.fn \in {"polled_tx", "polled_tx_string", "fill_tx_fifo"}
  PROVE  Sound'
<1> USE DEF Controlled, Sound
<1> DEFINE n == Lesser(Foreground.size, FifoSize)
<1>1. /\ Interrupt.fn = "none" /\ Interrupt' = Interrupt /\ Foreground'.fn = Foreground.fn
  BY FgSteps
<1>2. /\ UNCHANGED <<transmitter, control, app, rest, mayTx, uart>>
      /\ Foreground'.buf = Foreground.buf /\ Foreground'.size = Foreground.size
  BY FgTestMoves
<1>3. \/ /\ Thre("fg") /\ Foreground'.at = "put"
         /\ Foreground'.fill = (IF Foreground.fn = "polled_tx_string" THEN 0 ELSE n)
         /\ asked' = (IF Foreground.fn = "fill_tx_fifo" THEN asked + n ELSE asked)
      \/ /\ Foreground'.at = (IF Foreground.fn = "fill_tx_fifo" THEN "ret" ELSE "lsr")
         /\ asked' = asked
  BY FgTestMoves
<1>4. /\ Foreground.buf \in Nat /\ Foreground.size \in Int /\ Foreground.fill \in Int
      /\ Written \in Nat /\ asked \in Nat /\ Len(txfifo) \in Nat /\ FifoSize \in Nat
      /\ FifoSize > 0 /\ app.bytes \in Nat
  BY Numbers
<1>5. Foreground.size > 0 BY DEF Giving, Polling, FillingOnce
<1>6. n \in Int /\ n > 0 /\ n <= Foreground.size /\ n <= FifoSize
  <2>1. Foreground.size \in Int /\ FifoSize \in Int BY <1>4
  <2> QED BY ONLY <1>4, <1>5, <2>1, LesserOf
<1> HIDE DEF n
<1>7. Silent /\ Foreground.buf = Written BY DEF Giving, Polling, FillingOnce
<1>8. Silent' BY <1>2, <1>7 DEF Silent, control
<1>9. Written' = Written /\ UNCHANGED <<txfifo, shift, line>>
  BY <1>2 DEF Written, Shifting, transmitter
<1>10. Giving'
  <2>1. Polling'
    <3> SUFFICES ASSUME Foreground.fn \in {"polled_tx", "polled_tx_string"} PROVE Polling'
      BY <1>1 DEF Polling
    <3>1. Written + Foreground.size = asked BY DEF Giving, Polling
    <3>2. Foreground'.at # "ret" /\ asked' = asked BY <1>3
    <3>3. Foreground'.at = "put" /\ Foreground.fn = "polled_tx" => Foreground'.fill = n BY <1>3
    <3>4. Foreground'.at = "put" /\ Foreground.fn = "polled_tx" => Foreground'.fill <= Foreground'.size
      BY <1>2, <1>6, <3>3
    <3> QED BY <1>1, <1>2, <1>5, <1>7, <1>8, <1>9, <3>1, <3>2, <3>4 DEF Polling
  <2>2. FillingOnce'
    <3> SUFFICES ASSUME Foreground.fn = "fill_tx_fifo" PROVE FillingOnce' BY <1>1 DEF FillingOnce
    <3>1. asked = Written BY DEF Giving, FillingOnce
    <3>2. \/ Foreground'.at = "put" /\ Foreground'.fill = n /\ asked' = asked + n
          \/ Foreground'.at = "ret" /\ asked' = asked
      BY <1>3
    <3>3. asked' = IF Foreground'.at = "put" THEN Written' + Foreground'.fill ELSE Written'
      BY <1>9, <3>1, <3>2
    <3> QED BY <1>2, <1>7, <1>8, <1>9, <3>2, <3>3 DEF FillingOnce
  <2>3. Handing' /\ Registering' BY <1>1 DEF Handing, Registering
  <2>4. Idle' BY <1>1 DEF Idle, Handed
  <2> QED BY <2>1, <2>2, <2>3, <2>4 DEF Giving
<1>11. Taking' BY <1>8, SilentTaking
<1>12. Consecutive' BY <1>9 DEF Consecutive
<1>13. Room'
  <2>1. RoomOf("isr")' BY <1>1 DEF RoomOf, Interrupt, Filling
  <2>2. RoomOf("fg")'
    <3>1. CASE Thre("fg") /\ Foreground'.at = "put"
               /\ Foreground'.fill = (IF Foreground.fn = "polled_tx_string" THEN 0 ELSE n)
      <4>1. RoomOf("fg") BY RoomParts
      <4>2. txfifo = << >> BY <3>1, <4>1 DEF RoomOf, Filling, Foreground, Thre
      <4>3. Len(txfifo') = 0 BY <1>9, <4>2
      <4>4. IF Foreground.fn = "polled_tx_string"
            THEN 0 <= Foreground'.fill /\ Len(txfifo') <= Foreground'.fill /\ Foreground'.fill < FifoSize
            ELSE 0 < Foreground'.fill /\ Len(txfifo') + Foreground'.fill <= FifoSize
        BY <1>4, <1>6, <3>1, <4>3
      <4> QED BY <1>1, <3>1, <4>4 DEF RoomOf, Foreground
    <3>2. CASE Foreground'.at \in {"ret", "lsr"} BY <3>2 DEF RoomOf, Foreground
    <3> QED BY <1>3, <3>1, <3>2
  <2> QED BY <2>1, <2>2, RoomParts
<1>14. Completing' BY <1>1 DEF Completing
<1>15. Bounded'
  <2>1. asked <= app.bytes BY DEF Bounded
  <2>2. asked' <= app'.bytes
    <3>1. CASE asked' = asked BY <1>2, <2>1, <3>1
    <3>2. CASE Foreground.fn = "fill_tx_fifo" /\ asked' = asked + n
      <4>1. asked + Foreground.size <= app.bytes BY <3>2 DEF Bounded
      <4>2. app' = app BY <1>2
      <4> QED BY <1>4, <1>6, <3>2, <4>1, <4>2
    <3> QED BY <1>3, <3>1, <3>2
  <2>3. Foreground.fn = "fill_tx_fifo" => Foreground'.at \notin {"lsr", "or", "test"} BY <1>3
  <2> QED BY <1>1, <2>2, <2>3 DEF Bounded
<1> QED BY <1>10, <1>11, <1>12, <1>13, <1>14, <1>15

(* The foreground gives the transmission to the interrupt handler. *)
LEMMA IrqTxMoves ==
  ASSUME TypeOK, Contexts, Step("fg"), Foreground.fn = "irq_tx"
  PROVE  /\ UNCHANGED <<transmitter, app, asked, rest, mayTx>>
         /\ Foreground'.buf = Foreground.buf /\ Foreground'.size = Foreground.size
         /\ \/ /\ Foreground.at = "buffer" /\ Foreground'.at = "size" /\ UNCHANGED control
               /\ uart'.tx_buffer = Foreground.buf
            \/ /\ Foreground.at = "size" /\ Foreground'.at = "idx" /\ UNCHANGED control
               /\ uart'.tx_buffer = uart.tx_buffer /\ uart'.tx_buff_size = Foreground.size
            \/ /\ Foreground.at = "idx" /\ Foreground'.at = "enable" /\ UNCHANGED control
               /\ uart'.tx_buffer = uart.tx_buffer /\ uart'.tx_buff_size = uart.tx_buff_size
               /\ uart'.tx_idx = 0
            \/ /\ Foreground.at = "enable" /\ Foreground'.at = "ret" /\ UNCHANGED uart
               /\ handler'["THRE"] = "default" /\ ien' = ien \cup {"THRE"}
<1>1. MSS_UART_irq_tx("fg")
  BY StepOf DEF Contexts, Places, Foreground
<1>2. UNCHANGED <<transmitter, app, asked, rest, mayTx>>
  BY <1>1 DEF MSS_UART_irq_tx, hardware, client
<1>3. \A at \in {"size", "idx", "enable", "ret"} :
        Goto("fg", at) => /\ Foreground'.at = at /\ Foreground'.buf = Foreground.buf
                          /\ Foreground'.size = Foreground.size
  <2>1. {"size", "idx", "enable", "ret"} \subseteq Everywhere BY DEF Everywhere, Placed
  <2> QED BY <2>1, PutMoves DEF Keeps, Foreground
<1>4. uart \in Record BY DEF TypeOK
<1>5. CASE At("fg", "irq_tx", "buffer") /\ Goto("fg", "size")
           /\ uart' = [uart EXCEPT !.tx_buffer = Foreground.buf] /\ UNCHANGED control
  <2>1. uart'.tx_buffer = Foreground.buf BY <1>4, <1>5 DEF Record
  <2> QED BY <1>2, <1>3, <1>5, <2>1 DEF At, Foreground
<1>6. CASE At("fg", "irq_tx", "size") /\ Goto("fg", "idx")
           /\ uart' = [uart EXCEPT !.tx_buff_size = Foreground.size] /\ UNCHANGED control
  <2>1. uart'.tx_buffer = uart.tx_buffer /\ uart'.tx_buff_size = Foreground.size
    BY <1>4, <1>6 DEF Record
  <2> QED BY <1>2, <1>3, <1>6, <2>1 DEF At, Foreground
<1>7. CASE At("fg", "irq_tx", "idx") /\ Goto("fg", "enable")
           /\ uart' = Rewound /\ UNCHANGED control
  <2>1. /\ uart'.tx_buffer = uart.tx_buffer /\ uart'.tx_buff_size = uart.tx_buff_size
        /\ uart'.tx_idx = 0
    BY <1>4, <1>7 DEF Record, Rewound
  <2> QED BY <1>2, <1>3, <1>7, <2>1 DEF At, Foreground
<1>8. CASE At("fg", "irq_tx", "enable") /\ Goto("fg", "ret") /\ UNCHANGED uart
           /\ handler' = [handler EXCEPT !["THRE"] = "default"] /\ ien' = ien \cup {"THRE"}
  <2>1. handler'["THRE"] = "default" BY <1>8, Multimodes DEF TypeOK
  <2> QED BY <1>2, <1>3, <1>8, <2>1 DEF At, Foreground
<1> QED BY <1>1, <1>5, <1>6, <1>7, <1>8 DEF MSS_UART_irq_tx, Foreground

LEMMA IrqTxSound ==
  ASSUME Controlled, Sound, [Next]_vars, Step("fg"), Foreground.fn = "irq_tx"
  PROVE  Sound'
<1> USE DEF Controlled, Sound
<1>1. /\ Interrupt.fn = "none" /\ Interrupt' = Interrupt /\ Foreground'.fn = "irq_tx"
  BY FgSteps
<1>2. /\ UNCHANGED <<transmitter, app, asked, rest, mayTx>>
      /\ Foreground'.buf = Foreground.buf /\ Foreground'.size = Foreground.size
  BY IrqTxMoves
<1>3. Foreground.at # "ret" BY StepOf DEF Foreground
<1>4. /\ Silent /\ ~mayTx /\ Foreground.size > 0
      /\ Foreground.buf = Written /\ Written + Foreground.size = asked
  BY <1>3 DEF Giving, Handing
<1>5. Written' = Written /\ UNCHANGED <<txfifo, shift, line>>
  BY <1>2 DEF Written, Shifting, transmitter
<1>6. /\ Foreground.at \in {"size", "idx", "enable"} => uart.tx_buffer = Foreground.buf
      /\ Foreground.at \in {"idx", "enable"} => uart.tx_buff_size = Foreground.size
      /\ Foreground.at = "enable" => uart.tx_idx = 0
  BY <1>3 DEF Giving, Handing
<1>7. Giving' /\ Taking'
  <2>1. ASSUME UNCHANGED control,
               Foreground'.at # "ret",
               Foreground'.at \in {"size", "idx", "enable"} => uart'.tx_buffer = Foreground.buf,
               Foreground'.at \in {"idx", "enable"} => uart'.tx_buff_size = Foreground.size,
               Foreground'.at = "enable" => uart'.tx_idx = 0
        PROVE  Giving' /\ Taking'
    <3>1. Silent' BY <1>4, <2>1 DEF Silent, control
    <3>2. Handing' BY <1>2, <1>4, <1>5, <2>1, <3>1 DEF Handing
    <3>3. Polling' /\ FillingOnce' /\ Registering' BY <1>1 DEF Polling, FillingOnce, Registering
    <3>4. Idle' BY <1>1, <2>1 DEF Idle, Handed
    <3>5. Taking' BY <3>1, SilentTaking
    <3> QED BY <3>2, <3>3, <3>4, <3>5 DEF Giving
  <2>2. CASE /\ Foreground.at = "buffer" /\ Foreground'.at = "size" /\ UNCHANGED control
             /\ uart'.tx_buffer = Foreground.buf
    BY <2>1, <2>2
  <2>3. CASE /\ Foreground.at = "size" /\ Foreground'.at = "idx" /\ UNCHANGED control
             /\ uart'.tx_buffer = uart.tx_buffer /\ uart'.tx_buff_size = Foreground.size
    BY <1>6, <2>1, <2>3
  <2>4. CASE /\ Foreground.at = "idx" /\ Foreground'.at = "enable" /\ UNCHANGED control
             /\ uart'.tx_buffer = uart.tx_buffer /\ uart'.tx_buff_size = uart.tx_buff_size
             /\ uart'.tx_idx = 0
    BY <1>6, <2>1, <2>4
  <2>5. CASE /\ Foreground.at = "enable" /\ Foreground'.at = "ret" /\ UNCHANGED uart
             /\ handler'["THRE"] = "default" /\ ien' = ien \cup {"THRE"}
    <3>1. ~Silent' BY <2>5 DEF Silent
    <3>2. ~Handed' BY <1>1, <2>5 DEF Handed
    <3>3. Giving' BY <3>1, <3>2, NotHanded
    <3>4. uart.tx_buffer = Foreground.buf /\ uart.tx_buff_size = Foreground.size /\ uart.tx_idx = 0
      BY <1>6, <2>5
    <3>5. /\ uart.tx_buffer + uart.tx_idx = Written /\ uart.tx_buffer + uart.tx_buff_size = asked
          /\ uart.tx_buff_size > 0 /\ uart.tx_idx < uart.tx_buff_size
      BY <1>4, <3>4, Numbers
    <3>6. Sending' BY <1>1, <1>2, <1>4, <1>5, <2>5, <3>5 DEF Sending
    <3>7. Serving' BY <2>5 DEF Serving
    <3>8. Quieted' BY <1>2, <1>4 DEF Quieted
    <3> QED BY <3>3, <3>6, <3>7, <3>8 DEF Taking
  <2> QED BY <2>2, <2>3, <2>4, <2>5, IrqTxMoves
<1>8. Consecutive' BY <1>5 DEF Consecutive
<1>9. Room'
  <2>1. ctx'["isr"] = ctx["isr"] /\ ctx'["fg"].fn \notin Filling
    BY <1>1 DEF Interrupt, Foreground, Filling
  <2> QED BY <1>5, <2>1, RoomStays
<1>10. Bounded' BY <1>1, <1>2 DEF Bounded
<1>11. Completing' BY <1>1 DEF Completing
<1> QED BY <1>7, <1>8, <1>9, <1>10, <1>11

(* The foreground gives it to the application's own handler. *)
LEMMA SetTxMoves ==
  ASSUME TypeOK, Contexts, Step("fg"), Foreground.fn = "register",
         Foreground.todo = <<"THRE">>
  PROVE  /\ UNCHANGED <<transmitter, app, asked, rest, mayTx>>
         /\ \/ /\ Foreground.at = "handler" /\ Foreground'.at = "enable" /\ ien' = ien
            \/ /\ Foreground.at = "enable" /\ Foreground'.at = "ret"
               /\ handler' = handler /\ ien' = ien \cup {"THRE"}
<1>1. PICK s \in Sources : Register("fg", s)
  <2>1. "THRE" \in Sources BY Multimodes
  <2>2. Foreground.at \notin {"lsr", "or"} BY DEF Contexts, Places
  <2> QED BY <2>1, <2>2, StepOf DEF Foreground, MSS_UART_set_tx_handler
<1>2. /\ ctx["fg"].todo = <<s>>
      /\ \/ ctx["fg"].at = "handler" /\ ctx'["fg"].at = "enable"
         \/ ctx["fg"].at = "enable" /\ ctx'["fg"].at = "ret" /\ handler' = handler
  BY <1>1, Registers
<1>3. s = "THRE" BY <1>2 DEF Foreground
<1>4. UNCHANGED <<transmitter, app, asked, rest, mayTx>> BY <1>1 DEF Register, hardware, client
<1>5. CASE At("fg", "register", "handler") /\ UNCHANGED ien
  BY <1>2, <1>4, <1>5 DEF At, Foreground
<1>6. CASE At("fg", "register", "enable") /\ ien' = ien \cup {s}
  BY <1>2, <1>3, <1>4, <1>6 DEF At, Foreground
<1> QED BY <1>1, <1>5, <1>6 DEF Register

LEMMA SetTxSound ==
  ASSUME Controlled, Sound, [Next]_vars, Step("fg"), Foreground.fn = "register",
         Foreground.todo = <<"THRE">>
  PROVE  Sound'
<1> USE DEF Controlled, Sound
<1>1. /\ Interrupt.fn = "none" /\ Interrupt' = Interrupt /\ Foreground'.fn = "register"
      /\ Foreground'.todo = <<"THRE">>
  BY FgSteps
<1>2. UNCHANGED <<transmitter, app, asked, rest, mayTx>> BY SetTxMoves
<1>3. Foreground.at # "ret" BY StepOf DEF Foreground
<1>4. /\ Silent /\ ~mayTx /\ rest.buf = Written /\ Written + rest.size = asked /\ rest.size > 0
  BY <1>3 DEF Giving, Registering
<1>5. Written' = Written /\ UNCHANGED <<txfifo, shift, line>>
  BY <1>2 DEF Written, Shifting, transmitter
<1>6. Giving' /\ Taking'
  <2>1. CASE Foreground'.at = "enable" /\ ien' = ien
    <3>1. Silent' BY <1>4, <2>1 DEF Silent
    <3>2. Registering' BY <1>2, <1>4, <1>5, <3>1 DEF Registering
    <3>3. Polling' /\ FillingOnce' /\ Handing' BY <1>1 DEF Polling, FillingOnce, Handing
    <3>4. Idle' BY <1>1, <2>1 DEF Idle, Handed
    <3>5. Taking' BY <3>1, SilentTaking
    <3> QED BY <3>2, <3>3, <3>4, <3>5 DEF Giving
  <2>2. CASE /\ Foreground.at = "enable" /\ Foreground'.at = "ret"
             /\ handler' = handler /\ ien' = ien \cup {"THRE"}
    <3>1. ~Silent' BY <2>2 DEF Silent
    <3>2. ~Handed' BY <1>1, <2>2 DEF Handed
    <3>3. Giving' BY <3>1, <3>2, NotHanded
    <3>4. handler["THRE"] = "user"
      <4>1. "THRE" \in Sources BY Multimodes
      <4> QED BY <2>2, <4>1, Configured DEF Handled
    <3>5. Sending' BY <2>2, <3>4 DEF Sending
    <3>6. Serving'
      <4>1. rest.buf + rest.size = asked BY <1>4
      <4> QED BY <1>1, <1>2, <1>4, <1>5, <4>1 DEF Serving
    <3>7. Quieted' BY <1>2, <1>4 DEF Quieted
    <3> QED BY <3>3, <3>5, <3>6, <3>7 DEF Taking
  <2> QED BY <2>1, <2>2, SetTxMoves
<1>7. Consecutive' BY <1>5 DEF Consecutive
<1>8. Room'
  <2>1. ctx'["isr"] = ctx["isr"] /\ ctx'["fg"].fn \notin Filling
    BY <1>1 DEF Interrupt, Foreground, Filling
  <2> QED BY <1>5, <2>1, RoomStays
<1>9. Bounded' BY <1>1, <1>2 DEF Bounded
<1>10. Completing' BY <1>1 DEF Completing
<1> QED BY <1>6, <1>7, <1>8, <1>9, <1>10

LEMMA FgSound ==
  ASSUME Controlled, Sound, [Next]_vars, Step("fg") PROVE Sound'
<1>1. Foreground.fn \in FgFunctions /\ Foreground.at \in Places(Foreground.fn) BY DEF Controlled, Contexts
<1>2. CASE Foreground.at \in {"lsr", "or"} BY <1>2, StepOf, LooksSound DEF Foreground
<1>3. CASE Foreground.at \notin {"lsr", "or"}
  <2>1. CASE Foreground.fn \in {"polled_tx", "polled_tx_string", "fill_tx_fifo"}
    <3>1. Foreground.at \in {"test", "put"}
      <4>1. Foreground.at # "ret" BY StepOf DEF Foreground
      <4> QED BY <1>1, <1>3, <2>1, <4>1 DEF Places, Placed
    <3> QED BY <2>1, <3>1, FgTestSound, FgPutSound
  <2>2. CASE Foreground.fn = "irq_tx" BY <2>2, IrqTxSound
  <2>3. CASE Foreground.fn = "register" /\ Foreground.todo = <<"THRE">> BY <2>3, SetTxSound
  <2>4. CASE /\ Foreground.fn \notin {"polled_tx", "polled_tx_string", "fill_tx_fifo", "irq_tx"}
             /\ ~(Foreground.fn = "register" /\ Foreground.todo = <<"THRE">>)
    BY <1>1, <1>3, <2>4, FgQuietSound DEF Filling, FgFunctions
  <2> QED BY <2>1, <2>2, <2>3, <2>4
<1> QED BY <1>2, <1>3

(* While the transmit interrupt is on, the foreground fills nothing. *)
LEMMA LoudForeground ==
  ASSUME Contexts, Giving, ~Silent
  PROVE  ~Handed /\ Foreground.fn \notin Filling
BY LoudNotHanded DEF Handed, Filling, Contexts, FgFunctions

LEMMA LoudSound ==
  ASSUME Controlled, Sound, ~Silent, ~Silent', Foreground' = Foreground,
         app' = app, asked' = asked, Consecutive', RoomOf("isr")', Taking'
  PROVE  Sound'
<1> USE DEF Controlled, Sound
<1>1. ~Handed /\ Foreground.fn \notin Filling BY LoudForeground
<1>2. ~Handed' BY <1>1 DEF Handed
<1>3. Giving' BY <1>2, NotHanded
<1>4. RoomOf("fg")' BY <1>1 DEF RoomOf, Foreground
<1>5. Room' BY <1>4, RoomParts
<1>6. Bounded' BY DEF Bounded
<1>7. Completing' BY DEF Completing
<1> QED BY <1>3, <1>5, <1>6, <1>7

(* The application's handler fills the FIFO. *)
LEMMA IsrFillSound ==
  ASSUME Controlled, Sound, [Next]_vars, Step("isr"), Interrupt.at \notin {"lsr", "or"},
         Interrupt.fn = "fill_tx_fifo"
  PROVE  Sound'
<1> USE DEF Controlled, Sound
<1>1. Foreground' = Foreground /\ Interrupt'.fn = "fill_tx_fifo" BY IsrSteps
<1>2. MSS_UART_fill_tx_fifo("isr") BY StepOf DEF Interrupt
<1>3. ~Silent /\ handler["THRE"] = "user" BY DEF Entered
<1>4. /\ rest.buf + rest.size = asked /\ ~mayTx /\ rest.size > 0
      /\ Interrupt.buf = Written /\ rest.buf + Interrupt.ret = Written
      /\ Interrupt.ret + Interrupt.size = rest.size /\ Interrupt.size >= 0
      /\ Interrupt.at = "put" => Interrupt.fill <= Interrupt.size
      /\ Interrupt.at \in {"lsr", "or", "test"} => Interrupt.size > 0
  BY <1>3 DEF Taking, Serving
<1>5. /\ Interrupt.buf \in Nat /\ Interrupt.size \in Int /\ Interrupt.fill \in Int
      /\ Interrupt.ret \in Nat /\ rest.buf \in Nat /\ rest.size \in Int
      /\ Written \in Nat /\ asked \in Nat /\ Len(txfifo) \in Nat /\ FifoSize \in Nat
      /\ FifoSize > 0
  BY Numbers
<1>6. UNCHANGED <<shift, line, control, app, asked, rest, mayTx, uart>>
  BY <1>2 DEF MSS_UART_fill_tx_fifo, Put, hardware, transmitter, client
<1>7. ~Silent' /\ handler'["THRE"] = "user" BY <1>3, <1>6 DEF Silent, control
<1>8. RoomOf("isr") BY RoomParts
<1>9. ASSUME rest.buf + Interrupt'.ret = Written', Interrupt'.buf = Written',
             Interrupt'.ret + Interrupt'.size = rest.size, Interrupt'.size >= 0,
             Interrupt'.at = "put" => Interrupt'.fill <= Interrupt'.size,
             Interrupt'.at \notin {"lsr", "or", "test"}
      PROVE  Taking'
  <2>1. Sending' BY <1>7 DEF Sending
  <2>2. Serving' BY <1>1, <1>4, <1>6, <1>9 DEF Serving
  <2>3. Quieted' BY <1>4, <1>6 DEF Quieted
  <2> QED BY <2>1, <2>2, <2>3 DEF Taking
<1>10. CASE Interrupt.at = "test"
  <2>1. Fill("isr", "ret") /\ UNCHANGED transmitter
    BY <1>2, <1>10 DEF MSS_UART_fill_tx_fifo, At, Interrupt, hardware
  <2>2. "ret" \in Everywhere BY DEF Everywhere, Placed
  <2>3. /\ Interrupt'.buf = Interrupt.buf /\ Interrupt'.size = Interrupt.size
        /\ Interrupt'.ret = Interrupt.ret
        /\ \/ /\ Thre("isr") /\ Interrupt'.at = "put"
              /\ Interrupt'.fill = Lesser(Interrupt.size, FifoSize)
           \/ Interrupt'.at = "ret"
    BY <2>1, <2>2, PutMoves DEF Interrupt
  <2>4. Written' = Written /\ UNCHANGED <<txfifo, shift, line>>
    BY <2>1 DEF Written, Shifting, transmitter
  <2>5. /\ Lesser(Interrupt.size, FifoSize) \in Int /\ Lesser(Interrupt.size, FifoSize) > 0
        /\ Lesser(Interrupt.size, FifoSize) <= Interrupt.size
        /\ Lesser(Interrupt.size, FifoSize) <= FifoSize
    <3>1. Interrupt.size \in Int /\ FifoSize \in Int /\ Interrupt.size > 0 BY <1>4, <1>5, <1>10
    <3> QED BY ONLY <1>5, <3>1, LesserOf
  <2>6. Taking' BY <1>4, <1>9, <2>3, <2>4, <2>5
  <2>7. Consecutive' BY <2>4 DEF Consecutive
  <2>8. RoomOf("isr")'
    <3>1. CASE /\ Thre("isr") /\ Interrupt'.at = "put"
               /\ Interrupt'.fill = Lesser(Interrupt.size, FifoSize)
      <4>1. txfifo = << >> BY <1>8, <1>10, <3>1 DEF RoomOf, Filling, Interrupt, Thre
      <4>2. Len(txfifo') = 0 BY <2>4, <4>1
      <4>3. 0 < Interrupt'.fill /\ Len(txfifo') + Interrupt'.fill <= FifoSize
        BY <2>5, <3>1, <4>2
      <4> QED BY <1>1, <3>1, <4>3 DEF RoomOf, Interrupt
    <3>2. CASE Interrupt'.at = "ret" BY <3>2 DEF RoomOf, Interrupt
    <3> QED BY <2>3, <3>1, <3>2
  <2> QED BY <1>1, <1>3, <1>6, <1>7, <2>6, <2>7, <2>8, LoudSound
<1>11. CASE Interrupt.at = "put"
  <2> DEFINE at == IF Interrupt.fill = 1 THEN "ret" ELSE "put"
  <2>1. Put("isr", at) BY <1>2, <1>11 DEF MSS_UART_fill_tx_fifo, At, Interrupt
  <2>2. at \in Everywhere BY DEF Everywhere, Placed
  <2> HIDE DEF at
  <2>3. /\ Interrupt'.at = at /\ Interrupt'.buf = Interrupt.buf + 1
        /\ Interrupt'.size = Interrupt.size - 1 /\ Interrupt'.fill = Interrupt.fill - 1
        /\ Interrupt'.ret = Interrupt.ret + 1
    BY <2>1, <2>2, PutMoves DEF Interrupt
  <2>4. WriteTHR(Interrupt.buf + 1) BY <2>1 DEF Put, Interrupt
  <2>5. 0 < Interrupt.fill /\ Len(txfifo) + Interrupt.fill <= FifoSize
    BY <1>8, <1>11 DEF RoomOf, Filling, Interrupt
  <2>6. Consecutive' /\ Written' = Written + 1 /\ Len(txfifo') = Len(txfifo) + 1
    <3>1. Len(txfifo) < FifoSize BY <1>5, <2>5
    <3>2. Interrupt.buf + 1 \in Nat /\ Interrupt.buf + 1 = Written + 1 BY <1>4, <1>5
    <3> QED BY <1>6, <2>4, <3>1, <3>2, WritesOne
  <2>7. Taking'
    <3>1. /\ rest.buf + Interrupt'.ret = Written' /\ Interrupt'.buf = Written'
          /\ Interrupt'.ret + Interrupt'.size = rest.size
      <4>1. /\ Interrupt.buf = Written /\ rest.buf + Interrupt.ret = Written
            /\ Interrupt.ret + Interrupt.size = rest.size
        BY <1>4
      <4>2. /\ Interrupt'.buf = Interrupt.buf + 1 /\ Interrupt'.size = Interrupt.size - 1
            /\ Interrupt'.ret = Interrupt.ret + 1 /\ Written' = Written + 1
        BY <2>3, <2>6
      <4>3. rest.buf + Interrupt'.ret = Written'
        BY ONLY <1>5, <4>1, <4>2
      <4>4. Interrupt'.ret + Interrupt'.size = Interrupt.ret + Interrupt.size
        <5>1. \A r \in Nat, s \in Int : (r + 1) + (s - 1) = r + s OBVIOUS
        <5> QED BY <1>5, <4>2, <5>1
      <4> QED BY <4>1, <4>2, <4>3, <4>4
    <3>2. Interrupt.fill <= Interrupt.size BY <1>4, <1>11
    <3>3. Interrupt'.size >= 0 /\ Interrupt'.fill <= Interrupt'.size BY <1>5, <2>3, <2>5, <3>2
    <3>4. Interrupt'.at \notin {"lsr", "or", "test"} BY <2>3 DEF at
    <3> QED BY <1>9, <3>1, <3>3, <3>4
  <2>8. RoomOf("isr")'
    <3>1. Interrupt'.at = "put" => Interrupt.fill # 1 BY <2>3 DEF at
    <3>2. Interrupt'.fill = Interrupt.fill - 1 BY <2>3
    <3>3. Interrupt'.at = "put" => 0 < Interrupt'.fill /\ Len(txfifo') + Interrupt'.fill <= FifoSize
      BY ONLY <1>5, <2>5, <2>6, <3>1, <3>2
    <3>4. Interrupt'.at \notin {"or", "test"} BY <2>3 DEF at
    <3> QED BY <1>1, <3>3, <3>4 DEF RoomOf, Interrupt
  <2> QED BY <1>1, <1>3, <1>6, <1>7, <2>6, <2>7, <2>8, LoudSound
<1> QED BY <1>2, <1>10, <1>11 DEF MSS_UART_fill_tx_fifo, At, Interrupt

(* The default transmit handler fills it. *)
LEMMA DefaultMoves ==
  ASSUME TypeOK, Contexts, default_tx_handler("isr")
  PROVE  /\ UNCHANGED <<shift, line, modes, nvic, handler, app, asked, rest, mayTx>>
         /\ uart'.tx_buffer = uart.tx_buffer
         /\ \/ /\ Interrupt.at = "test" /\ UNCHANGED <<transmitter, ien, uart>>
               /\ \/ /\ Thre("isr") /\ Remaining > 0 /\ Interrupt'.at = "put"
                     /\ Interrupt'.fill = Remaining
                  \/ Interrupt'.at = "end"
            \/ /\ Interrupt.at = "put" /\ ien' = ien
               /\ WriteTHR(uart.tx_buffer + uart.tx_idx + 1)
               /\ uart'.tx_buff_size = uart.tx_buff_size /\ uart'.tx_idx = uart.tx_idx + 1
               /\ Interrupt'.fill = Interrupt.fill - 1
               /\ Interrupt'.at = IF Interrupt.fill = 1 THEN "end" ELSE "put"
            \/ /\ Interrupt.at = "end" /\ UNCHANGED transmitter
               /\ Interrupt'.at = "ret"
               /\ IF uart.tx_idx = uart.tx_buff_size THEN ien' = ien \ {"THRE"}
                                                     ELSE UNCHANGED <<uart, ien>>
<1>1. Interrupt \in Frame BY Context DEF Interrupt
<1>2. uart \in Record BY DEF TypeOK
<1>3. CASE At("isr", "default_tx", "test")
  <2>1. /\ Become("isr", IF Thre("isr") /\ Remaining > 0
                         THEN [Interrupt EXCEPT !.fill = Remaining, !.at = "put"]
                         ELSE [Interrupt EXCEPT !.at = "end"])
        /\ UNCHANGED <<hardware, control, client, uart>>
    BY <1>3 DEF default_tx_handler, DefaultTxEnd, At, Interrupt
  <2>2. \/ Thre("isr") /\ Remaining > 0 /\ Interrupt' = [Interrupt EXCEPT !.fill = Remaining, !.at = "put"]
        \/ Interrupt' = [Interrupt EXCEPT !.at = "end"]
    BY <2>1, Became
  <2>3. \/ /\ Thre("isr") /\ Remaining > 0 /\ Interrupt'.at = "put" /\ Interrupt'.fill = Remaining
        \/ Interrupt'.at = "end"
    BY <1>1, <2>2 DEF Frame
  <2>4. /\ UNCHANGED <<transmitter, ien, uart>>
        /\ UNCHANGED <<shift, line, modes, nvic, handler, app, asked, rest, mayTx>>
    BY <2>1 DEF hardware, transmitter, control, client
  <2>5. Interrupt.at = "test" BY <1>3 DEF At, Interrupt
  <2> QED BY <2>3, <2>4, <2>5
<1>4. CASE At("isr", "default_tx", "put")
  <2> DEFINE at == IF Interrupt.fill = 1 THEN "end" ELSE "put"
  <2>1. /\ Become("isr", [Interrupt EXCEPT !.fill = @ - 1, !.at = at])
        /\ WriteTHR(uart.tx_buffer + uart.tx_idx + 1)
        /\ uart' = [uart EXCEPT !.tx_idx = @ + 1]
        /\ UNCHANGED <<shift, line, control, client>>
    BY <1>4 DEF default_tx_handler, DefaultTxEnd, At, Interrupt
  <2>2. Interrupt' = [Interrupt EXCEPT !.fill = @ - 1, !.at = at] BY <2>1, Became
  <2> HIDE DEF at
  <2>3. Interrupt'.fill = Interrupt.fill - 1 /\ Interrupt'.at = at BY <1>1, <2>2 DEF Frame
  <2>4. /\ uart'.tx_buffer = uart.tx_buffer /\ uart'.tx_buff_size = uart.tx_buff_size
        /\ uart'.tx_idx = uart.tx_idx + 1
    BY <1>2, <2>1 DEF Record
  <2>5. /\ UNCHANGED <<shift, line, modes, nvic, handler, app, asked, rest, mayTx>> /\ ien' = ien
    BY <2>1 DEF control, client
  <2>6. Interrupt.at = "put" BY <1>4 DEF At, Interrupt
  <2> QED BY <2>1, <2>3, <2>4, <2>5, <2>6 DEF at
<1>5. CASE DefaultTxEnd("isr")
  <2>1. Interrupt.at = "end" /\ Interrupt'.at = "ret" BY <1>5, DefaultTxEnds
  <2>2. /\ UNCHANGED transmitter
        /\ UNCHANGED <<shift, line, modes, nvic, handler, app, asked, rest, mayTx>>
    BY <1>5 DEF DefaultTxEnd, hardware, transmitter, client
  <2>3. CASE uart.tx_idx = uart.tx_buff_size
    <3>1. uart' = [uart EXCEPT !.tx_buff_size = 0] /\ ien' = ien \ {"THRE"}
      BY <1>5, <2>3 DEF DefaultTxEnd
    <3>2. uart'.tx_buffer = uart.tx_buffer BY <1>2, <3>1 DEF Record
    <3> QED BY <2>1, <2>2, <2>3, <3>1, <3>2
  <2>4. CASE uart.tx_idx # uart.tx_buff_size
    <3>1. UNCHANGED <<uart, ien>> BY <1>5, <2>4 DEF DefaultTxEnd
    <3> QED BY <2>1, <2>2, <2>4, <3>1
  <2> QED BY <2>3, <2>4
<1> QED BY <1>3, <1>4, <1>5 DEF default_tx_handler

LEMMA IsrDefaultSound ==
  ASSUME Controlled, Sound, [Next]_vars, Step("isr"), Interrupt.at \notin {"lsr", "or"},
         Interrupt.fn = "default_tx"
  PROVE  Sound'
<1> USE DEF Controlled, Sound
<1>1. Foreground' = Foreground /\ Interrupt'.fn = "default_tx" BY IsrSteps
<1>2. default_tx_handler("isr") /\ Interrupt.at # "ret" BY StepOf DEF Interrupt
<1>3. ~Silent /\ handler["THRE"] = "default" BY <1>2 DEF Entered
<1>4. /\ ~mayTx
      /\ uart.tx_buffer + uart.tx_idx = Written /\ uart.tx_buffer + uart.tx_buff_size = asked
      /\ uart.tx_buff_size > 0
      /\ Interrupt.at = "end" => uart.tx_idx <= uart.tx_buff_size
      /\ Interrupt.at = "put" => uart.tx_idx + Interrupt.fill <= uart.tx_buff_size
      /\ Interrupt.at = "test" => uart.tx_idx < uart.tx_buff_size
  BY <1>3 DEF Taking, Sending
<1>5. /\ Interrupt.fill \in Int /\ Written \in Nat /\ asked \in Nat /\ Len(txfifo) \in Nat
      /\ FifoSize \in Nat /\ FifoSize > 0
      /\ uart.tx_buffer \in Nat /\ uart.tx_buff_size \in Int /\ uart.tx_idx \in Nat
  BY Numbers, RecordFields
<1>6. /\ UNCHANGED <<shift, line, modes, nvic, handler, app, asked, rest, mayTx>>
      /\ uart'.tx_buffer = uart.tx_buffer
  BY <1>2, DefaultMoves
<1>7. RoomOf("isr") BY RoomParts
<1>8. ASSUME UNCHANGED ien, uart'.tx_buff_size = uart.tx_buff_size,
             uart'.tx_buffer + uart'.tx_idx = Written',
             Interrupt'.at \in {"put", "end", "ret"},
             Interrupt'.at = "end" => uart'.tx_idx <= uart'.tx_buff_size,
             Interrupt'.at = "put" => uart'.tx_idx + Interrupt'.fill <= uart'.tx_buff_size,
             Interrupt'.at = "ret" => uart'.tx_idx < uart'.tx_buff_size
      PROVE  ~Silent' /\ Taking'
  <2>1. ~Silent' BY <1>3, <1>8 DEF Silent
  <2>2. Sending' BY <1>1, <1>4, <1>6, <1>8 DEF Sending
  <2>3. Serving' BY <1>3, <1>6 DEF Serving
  <2>4. Quieted' BY <1>4, <1>6 DEF Quieted
  <2> QED BY <2>1, <2>2, <2>3, <2>4 DEF Taking
<1>9. CASE /\ Interrupt.at = "test" /\ UNCHANGED <<transmitter, ien, uart>>
           /\ \/ /\ Thre("isr") /\ Remaining > 0 /\ Interrupt'.at = "put"
                 /\ Interrupt'.fill = Remaining
              \/ Interrupt'.at = "end"
  <2>1. Written' = Written /\ UNCHANGED <<txfifo, shift, line>>
    BY <1>9 DEF Written, Shifting, transmitter
  <2>2. Remaining \in Int /\ Remaining <= uart.tx_buff_size - uart.tx_idx /\ Remaining <= FifoSize
    <3>1. Remaining = Lesser(uart.tx_buff_size - uart.tx_idx, FifoSize)
      BY <1>4, <1>5, <1>9 DEF Remaining
    <3>2. uart.tx_buff_size - uart.tx_idx \in Int /\ FifoSize \in Int BY <1>5
    <3> QED BY <3>1, <3>2, LesserOf
  <2>3. ~Silent' /\ Taking' BY <1>4, <1>5, <1>8, <1>9, <2>1, <2>2
  <2>4. Consecutive' BY <2>1 DEF Consecutive
  <2>5. RoomOf("isr")'
    <3>1. CASE Thre("isr") /\ Remaining > 0 /\ Interrupt'.at = "put" /\ Interrupt'.fill = Remaining
      <4>1. txfifo = << >> BY <1>7, <1>9, <3>1 DEF RoomOf, Filling, Interrupt, Thre
      <4>2. Len(txfifo') = 0 BY <2>1, <4>1
      <4>3. 0 < Interrupt'.fill /\ Len(txfifo') + Interrupt'.fill <= FifoSize
        BY <2>2, <3>1, <4>2
      <4> QED BY <1>1, <3>1, <4>3 DEF RoomOf, Interrupt
    <3>2. CASE Interrupt'.at = "end" BY <3>2 DEF RoomOf, Interrupt
    <3> QED BY <1>9, <3>1, <3>2
  <2> QED BY <1>1, <1>3, <1>6, <2>3, <2>4, <2>5, LoudSound
<1>10. CASE /\ Interrupt.at = "put" /\ ien' = ien
            /\ WriteTHR(uart.tx_buffer + uart.tx_idx + 1)
            /\ uart'.tx_buff_size = uart.tx_buff_size /\ uart'.tx_idx = uart.tx_idx + 1
            /\ Interrupt'.fill = Interrupt.fill - 1
            /\ Interrupt'.at = IF Interrupt.fill = 1 THEN "end" ELSE "put"
  <2>1. 0 < Interrupt.fill /\ Len(txfifo) + Interrupt.fill <= FifoSize
    BY <1>1, <1>7, <1>10 DEF RoomOf, Filling, Interrupt
  <2>2. Consecutive' /\ Written' = Written + 1 /\ Len(txfifo') = Len(txfifo) + 1
    <3>1. Len(txfifo) < FifoSize BY <1>5, <2>1
    <3>2. /\ uart.tx_buffer + uart.tx_idx + 1 \in Nat
          /\ uart.tx_buffer + uart.tx_idx + 1 = Written + 1
      BY <1>4, <1>5
    <3> QED BY <1>6, <1>10, <3>1, <3>2, WritesOne
  <2>3. /\ Interrupt'.fill = Interrupt.fill - 1 /\ uart'.tx_buffer = uart.tx_buffer
        /\ uart'.tx_buff_size = uart.tx_buff_size /\ uart'.tx_idx = uart.tx_idx + 1
        /\ Interrupt'.at = "put" => Interrupt.fill # 1
        /\ Interrupt'.at \in {"put", "end"}
    BY <1>6, <1>10
  <2>4. uart.tx_buffer + uart.tx_idx = Written /\ uart.tx_idx + Interrupt.fill <= uart.tx_buff_size
    BY <1>4, <1>10
  <2>5. uart'.tx_buffer + uart'.tx_idx = Written' BY ONLY <1>5, <2>2, <2>3, <2>4
  <2>6. uart'.tx_idx <= uart'.tx_buff_size BY ONLY <1>5, <2>1, <2>3, <2>4
  <2>7. uart'.tx_idx + Interrupt'.fill <= uart'.tx_buff_size BY ONLY <1>5, <2>1, <2>3, <2>4
  <2>8. ~Silent' /\ Taking' BY <1>8, <1>10, <2>3, <2>5, <2>6, <2>7
  <2>9. RoomOf("isr")'
    <3>1. Interrupt'.at = "put" => 0 < Interrupt'.fill /\ Len(txfifo') + Interrupt'.fill <= FifoSize
      BY ONLY <1>5, <2>1, <2>2, <2>3
    <3> QED BY <1>1, <2>3, <3>1 DEF RoomOf, Interrupt
  <2> QED BY <1>1, <1>3, <1>6, <2>2, <2>8, <2>9, LoudSound
<1>11. CASE /\ Interrupt.at = "end" /\ UNCHANGED transmitter
            /\ Interrupt'.at = "ret"
            /\ IF uart.tx_idx = uart.tx_buff_size THEN ien' = ien \ {"THRE"}
                                                  ELSE UNCHANGED <<uart, ien>>
  <2>1. Written' = Written /\ UNCHANGED <<txfifo, shift, line>>
    BY <1>11 DEF Written, Shifting, transmitter
  <2>2. Consecutive' BY <2>1 DEF Consecutive
  <2>3. RoomOf("isr")' BY <1>11 DEF RoomOf, Interrupt
  <2>4. CASE uart.tx_idx # uart.tx_buff_size
    <3>1. UNCHANGED <<uart, ien>> BY <1>11, <2>4
    <3>2. uart.tx_idx < uart.tx_buff_size BY <1>4, <1>5, <1>11, <2>4
    <3>3. ~Silent' /\ Taking' BY <1>4, <1>8, <1>11, <2>1, <3>1, <3>2
    <3> QED BY <1>1, <1>3, <1>6, <2>2, <2>3, <3>3, LoudSound
  <2>5. CASE uart.tx_idx = uart.tx_buff_size
    <3>1. Silent' BY <1>11, <2>5 DEF Silent
    <3>2. asked' = Written' BY <1>4, <1>6, <2>1, <2>5
    <3>3. ~Handed /\ Foreground.fn \notin Filling BY <1>3, LoudForeground
    <3>4. Giving'
      <4>1. ~Handed' BY <1>1, <3>3 DEF Handed
      <4> QED BY <3>2, <4>1, NotHanded
    <3>5. Taking' BY <3>1, SilentTaking
    <3>6. Room'
      <4>1. RoomOf("fg")' BY <1>1, <3>3 DEF RoomOf, Foreground
      <4> QED BY <2>3, <4>1, RoomParts
    <3>7. Bounded' BY <1>1, <1>6 DEF Bounded
    <3>8. Completing' BY <1>1, <1>6, <3>1, CompletingKept
    <3> QED BY <2>2, <3>4, <3>5, <3>6, <3>7, <3>8
  <2> QED BY <2>4, <2>5
<1> QED BY <1>2, <1>9, <1>10, <1>11, DefaultMoves

LEMMA IsrSound ==
  ASSUME Controlled, Sound, [Next]_vars, Step("isr") PROVE Sound'
<1>1. CASE Interrupt.at \in {"lsr", "or"} BY <1>1, StepOf, LooksSound DEF Interrupt
<1>2. CASE Interrupt.at \notin {"lsr", "or"}
  <2>1. Interrupt.fn \in IsrFunctions BY DEF Controlled, Contexts
  <2>2. CASE Interrupt.fn \in Filling
    BY <1>2, <2>1, <2>2, IsrFillSound, IsrDefaultSound DEF Filling, IsrFunctions
  <2>3. CASE Interrupt.fn = "disable_irq" /\ Interrupt.at = "store" BY <2>3, DisableSound
  <2>4. CASE Interrupt.fn \notin Filling /\ ~(Interrupt.fn = "disable_irq" /\ Interrupt.at = "store")
    BY <1>2, <2>4, IsrQuietSound
  <2> QED BY <2>2, <2>3, <2>4
<1> QED BY <1>1, <1>2

(* The interrupt handler is entered and left. *)
LEMMA IsrCalmSound ==
  ASSUME Controlled, Sound, UNCHANGED <<transmitter, app, asked, ien>>, Foreground' = Foreground,
         \/ Interrupt' = Interrupt \/ Interrupt'.fn \notin Filling
         \/ Interrupt'.at \notin {"or", "test", "put"},
         Giving', Taking'
  PROVE  Sound'
<1> USE DEF Controlled, Sound
<1>1. Written' = Written /\ UNCHANGED <<txfifo, shift, line>>
  BY DEF Written, Shifting, transmitter
<1>2. Consecutive' BY <1>1 DEF Consecutive
<1>3. Room' BY <1>1, RoomStays DEF Interrupt, Foreground
<1>4. Bounded' BY DEF Bounded
<1>5. Completing'
  <2>1. Silent => Silent' BY DEF Silent
  <2> QED BY <1>1, <2>1, CompletingKept
<1> QED BY <1>2, <1>3, <1>4, <1>5

LEMMA NothingDone ==
  ASSUME UNCHANGED <<transmitter, asked, rest, mayTx, uart, control>> PROVE Kept
BY DEF Kept, Written, Shifting, Silent, transmitter, control

LEMMA EnterSound ==
  ASSUME Controlled, Sound, NEW source \in Sources, Enter(source) PROVE Sound'
<1> USE DEF Controlled, Sound
<1>1. UNCHANGED <<transmitter, app, asked, rest, mayTx, uart, control>>
  BY DEF Enter, hardware, client
<1>2. Kept BY <1>1, NothingDone
<1>3. /\ Foreground' = Foreground /\ Interrupt.fn = "none" /\ source \in Active
      /\ \/ Interrupt' = Interrupt
         \/ source \in MM /\ Interrupt'.fn = "mmi"
         \/ /\ source \notin MM /\ handler[source] # "null"
            /\ Interrupt' = Handler(source)
  BY EnterStarts
<1>4. Giving'
  <2>1. FgCalm BY <1>3 DEF FgCalm
  <2> QED BY <1>2, <2>1, GivingKept
<1>5. UNCHANGED ien BY <1>1 DEF control
<1>6. ASSUME IsrCalm, Interrupt' = Interrupt \/ Interrupt'.fn \notin Filling PROVE Sound'
  <2>1. Taking' BY <1>2, <1>6, TakingKept
  <2> QED BY <1>1, <1>3, <1>4, <1>5, <1>6, <2>1, IsrCalmSound
<1>7. Loose BY <1>3 DEF Loose
<1>8. CASE Interrupt' = Interrupt BY <1>6, <1>8 DEF IsrCalm
<1>9. CASE Interrupt'.fn = "mmi" BY <1>6, <1>7, <1>9 DEF IsrCalm, Filling
<1>10. CASE source \notin MM /\ handler[source] # "null" /\ Interrupt' = Handler(source)
  <2>1. source \in Sources \ MM BY <1>10
  <2>2. CASE source # "THRE"
    <3>1. Interrupt'.fn \in {"get_rx", "get_rx_status", "get_modem_status"}
      <4>1. Handler(source).fn \in {"get_rx", "get_rx_status", "get_modem_status"}
        BY <2>1, <2>2, HandlerFields
      <4> QED BY <1>10, <4>1
    <3> QED BY <1>6, <1>7, <3>1 DEF IsrCalm, Filling
  <2>3. CASE source = "THRE"
    <3>1. ~Silent BY <1>3, <2>3 DEF Active, Silent
    <3>2. Interrupt'.at = "lsr" BY <1>10, <2>1, <2>3, HandlerFields
    <3>3. ASSUME Taking' PROVE Sound'
      BY <1>1, <1>3, <1>4, <1>5, <3>2, <3>3, IsrCalmSound
    <3>4. ~Silent' /\ UNCHANGED <<asked, rest, mayTx, uart, handler>> /\ Written' = Written
      BY <1>1, <1>2, <3>1 DEF control, Kept
    <3>5. CASE handler["THRE"] = "default"
      <4>1. Interrupt'.fn = "default_tx" BY <1>10, <2>1, <2>3, <3>5, HandlerFields
      <4>2. /\ ~mayTx /\ uart.tx_buffer + uart.tx_idx = Written
            /\ uart.tx_buffer + uart.tx_buff_size = asked
            /\ uart.tx_buff_size > 0 /\ uart.tx_idx < uart.tx_buff_size
        BY <1>3, <3>1, <3>5 DEF Taking, Sending
      <4>3. Sending' BY <3>2, <3>4, <4>1, <4>2 DEF Sending
      <4>4. Serving' BY <3>4, <3>5 DEF Serving
      <4>5. Quieted' BY <3>4, <4>2 DEF Quieted
      <4> QED BY <3>3, <4>3, <4>4, <4>5 DEF Taking
    <3>6. CASE handler["THRE"] = "user"
      <4>1. /\ Interrupt'.fn = "fill_tx_fifo" /\ Interrupt'.buf = rest.buf
            /\ Interrupt'.size = rest.size /\ Interrupt'.ret = 0
        BY <1>10, <2>1, <2>3, <3>6, HandlerFields
      <4>2. ~mayTx /\ rest.buf = Written /\ rest.size > 0 /\ rest.buf + rest.size = asked
        BY <1>3, <3>1, <3>6 DEF Taking, Serving
      <4>3. rest.buf + 0 = Written /\ 0 + rest.size = rest.size /\ rest.size >= 0
        BY <4>2, Numbers
      <4>4. Serving' BY <3>2, <3>4, <4>1, <4>2, <4>3 DEF Serving
      <4>5. Sending' BY <3>4, <3>6 DEF Sending
      <4>6. Quieted' BY <3>4, <4>2 DEF Quieted
      <4> QED BY <3>3, <4>4, <4>5, <4>6 DEF Taking
    <3>7. handler["THRE"] \in {"default", "user"}
      <4>1. "THRE" \in Sources BY <2>3
      <4> QED BY <1>10, <2>3, <4>1 DEF TypeOK
    <3> QED BY <3>5, <3>6, <3>7
  <2> QED BY <2>2, <2>3
<1> QED BY <1>3, <1>8, <1>9, <1>10

LEMMA IdentifySound ==
  ASSUME Controlled, Sound, Identify PROVE Sound'
<1> USE DEF Controlled, Sound
<1>1. UNCHANGED <<transmitter, app, asked, rest, mayTx, uart, control>>
  BY DEF Identify, client
<1>2. Kept BY <1>1, NothingDone
<1>3. Foreground' = Foreground /\ Interrupt.fn = "mmi" /\ Interrupt'.fn = "mmi" BY IdentifyMoves
<1>4. FgCalm /\ IsrCalm BY <1>3 DEF FgCalm, IsrCalm, Loose
<1>5. Giving' /\ Taking' BY <1>2, <1>4, GivingKept, TakingKept
<1>6. UNCHANGED ien BY <1>1 DEF control
<1> QED BY <1>1, <1>3, <1>5, <1>6, IsrCalmSound DEF Filling

LEMMA LeaveSound ==
  ASSUME Controlled, Sound, Leave PROVE Sound'
<1> USE DEF Controlled, Sound
<1>1. UNCHANGED <<transmitter, app, asked, rest, mayTx, uart, control>>
  BY DEF Leave, hardware, client
<1>2. Kept BY <1>1, NothingDone
<1>3. /\ Foreground' = Foreground /\ Interrupt' = NoFrame
      /\ Interrupt.at = "ret" /\ Interrupt.fn \notin {"none", "fill_tx_fifo"}
  BY LeaveMoves
<1>4. Interrupt'.fn = "none" BY <1>3, NoFrameFields
<1>5. Giving'
  <2>1. FgCalm BY <1>3 DEF FgCalm
  <2> QED BY <1>2, <2>1, GivingKept
<1>6. Taking'
  <2>1. CASE Interrupt.fn = "disable_irq"
    <3>1. Silent' BY <1>2, <1>3, <2>1 DEF Kept, Entered
    <3> QED BY <3>1, SilentTaking
  <2>2. CASE Interrupt.fn # "disable_irq"
    <3>1. IsrCalm BY <1>3, <1>4, <2>2 DEF IsrCalm, Loose
    <3> QED BY <1>2, <3>1, TakingKept
  <2> QED BY <2>1, <2>2
<1>7. UNCHANGED ien BY <1>1 DEF control
<1> QED BY <1>1, <1>3, <1>4, <1>5, <1>6, <1>7, IsrCalmSound DEF Filling

LEMMA UartTxSound ==
  ASSUME Controlled, Sound, UartTxHandler PROVE Sound'
<1> USE DEF Controlled, Sound
<1>1. UNCHANGED <<transmitter, app, asked, uart, control>> BY DEF UartTxHandler, hardware
<1>2. Written' = Written BY <1>1 DEF Written, Shifting, transmitter
<1>3. /\ Foreground' = Foreground
      /\ Interrupt.fn = "fill_tx_fifo" /\ Interrupt.at = "ret"
      /\ IF Interrupt.ret = rest.size THEN Interrupt'.fn = "disable_irq" ELSE Interrupt' = NoFrame
  BY UartTxMoves
<1>4. Interrupt'.fn = IF Interrupt.ret = rest.size THEN "disable_irq" ELSE "none"
  BY <1>3, NoFrameFields
<1>5. ~Silent /\ handler["THRE"] = "user" BY <1>3 DEF Entered
<1>6. ~Silent' /\ handler'["THRE"] = "user" /\ UNCHANGED ien BY <1>1, <1>5 DEF control, Silent
<1>7. /\ rest.buf + rest.size = asked /\ ~mayTx /\ rest.buf + Interrupt.ret = Written
      /\ Interrupt.ret + Interrupt.size = rest.size /\ Interrupt.size >= 0
  BY <1>3, <1>5 DEF Taking, Serving
<1>8. /\ rest'.buf = rest.buf + Interrupt.ret /\ rest'.size = rest.size - Interrupt.ret
      /\ mayTx' <=> Interrupt.ret = rest.size
  BY <1>7 DEF UartTxHandler, RestAfter, Interrupt, TypeOK
<1>9. /\ rest'.buf = Written /\ rest'.buf + rest'.size = asked
      /\ IF Interrupt.ret = rest.size THEN rest'.size = 0 ELSE rest'.size > 0
  <2>1. /\ Interrupt.ret \in Nat /\ Interrupt.size \in Int /\ rest.buf \in Nat /\ rest.size \in Int
        /\ Written \in Nat /\ asked \in Nat
    BY Numbers
  <2> QED BY ONLY <1>7, <1>8, <2>1
<1>10. Taking'
  <2>1. Sending' BY <1>6 DEF Sending
  <2>2. Serving' BY <1>1, <1>2, <1>4, <1>8, <1>9 DEF Serving
  <2>3. Quieted' BY <1>4, <1>8 DEF Quieted
  <2> QED BY <2>1, <2>2, <2>3 DEF Taking
<1>11. Giving'
  <2>1. ~Handed BY <1>5, LoudForeground
  <2>2. ~Handed' BY <1>3, <2>1 DEF Handed
  <2> QED BY <1>6, <2>2, NotHanded
<1>12. Interrupt'.fn \notin Filling BY <1>4 DEF Filling
<1> QED BY <1>1, <1>3, <1>6, <1>10, <1>11, <1>12, IsrCalmSound

(* The foreground's functions return and are called. *)
LEMMA ReturnSound ==
  ASSUME Controlled, Sound, Return PROVE Sound'
<1> USE DEF Controlled, Sound
<1>1. UNCHANGED <<transmitter, app, asked, rest, uart, control>> BY DEF Return, hardware
<1>2. Written' = Written /\ UNCHANGED <<txfifo, shift, line>>
  BY <1>1 DEF Written, Shifting, transmitter
<1>3. /\ Foreground' = NoFrame /\ Interrupt' = Interrupt
      /\ Interrupt.fn = "none" /\ Foreground.at = "ret"
  BY ReturnMoves
<1>4. Foreground'.fn = "none" BY <1>3, NoFrameFields
<1>5. ~Handed' BY <1>4 DEF Handed
<1>6. Silent' <=> Silent BY <1>1 DEF control, Silent
<1>7. Giving'
  <2> SUFFICES ASSUME Silent PROVE asked = Written BY <1>1, <1>2, <1>5, <1>6, NotHanded
  <2>1. CASE ~Handed BY <2>1 DEF Giving, Idle
  <2>2. CASE Foreground.fn = "fill_tx_fifo" BY <1>3, <2>2 DEF Giving, FillingOnce
  <2>3. CASE Foreground.fn \in {"polled_tx", "polled_tx_string"}
    <3>1. Written + Foreground.size = asked /\ Foreground.size = 0
      BY <1>3, <2>3 DEF Giving, Polling
    <3> QED BY <3>1, Numbers
  <2> QED BY <1>3, <2>1, <2>2, <2>3 DEF Handed
<1>8. Taking'
  <2>1. CASE Silent BY <1>6, <2>1, SilentTaking
  <2>2. CASE ~Silent
    <3>1. ~(Foreground.fn = "tx_complete" /\ Foreground.ret = 1) BY <1>3, <2>2 DEF Completing
    <3>2. mayTx' = mayTx BY <3>1 DEF Return, Foreground, TypeOK
    <3>3. Kept BY <1>1, <3>2, NothingDone
    <3>4. IsrCalm BY <1>3 DEF IsrCalm
    <3> QED BY <3>3, <3>4, TakingKept
  <2> QED BY <2>1, <2>2
<1>9. Consecutive' BY <1>2 DEF Consecutive
<1>10. Room'
  <2>1. ctx'["isr"] = ctx["isr"] /\ ctx'["fg"].fn \notin Filling
    BY <1>3, <1>4 DEF Interrupt, Foreground, Filling
  <2> QED BY <1>2, <2>1, RoomStays
<1>11. Bounded' BY <1>1, <1>4, BoundedKept
<1>12. Completing' BY <1>4 DEF Completing
<1> QED BY <1>7, <1>8, <1>9, <1>10, <1>11, <1>12

LEMMA TransmitSound ==
  ASSUME Controlled, Sound, Transmit PROVE Sound'
<1> USE DEF Controlled, Sound
<1>1. /\ Interrupt' = Interrupt /\ Interrupt.fn = "none" /\ Foreground.fn = "none" /\ mayTx
      /\ UNCHANGED <<transmitter, control, app, uart>>
  BY TransmitMoves DEF hardware
<1>2. Written' = Written /\ UNCHANGED <<txfifo, shift, line>>
  BY <1>1 DEF Written, Shifting, transmitter
<1>3. Silent BY <1>1 DEF Taking, Quieted
<1>4. Silent' BY <1>1, <1>3 DEF Silent, control
<1>5. asked = Written
  <2>1. ~Handed BY <1>1 DEF Handed
  <2> QED BY <1>3, <2>1 DEF Giving, Idle
<1>6. PICK n \in Sizes :
        /\ asked + n <= app.bytes
        /\ \/ /\ Foreground'.fn = "irq_tx" /\ Foreground'.at = "buffer"
              /\ Foreground'.buf = asked /\ Foreground'.size = n
              /\ asked' = asked + n /\ ~mayTx' /\ UNCHANGED rest
           \/ /\ Foreground'.fn \in {"polled_tx", "polled_tx_string"} /\ Foreground'.at = "lsr"
              /\ Foreground'.buf = asked /\ Foreground'.size = n
              /\ asked' = asked + n /\ mayTx' /\ UNCHANGED rest
           \/ /\ Foreground'.fn = "fill_tx_fifo" /\ Foreground'.at = "lsr"
              /\ Foreground'.buf = asked /\ Foreground'.size = n
              /\ asked' = asked /\ mayTx' /\ UNCHANGED rest
           \/ /\ Foreground'.fn = "register" /\ Foreground'.at = "handler"
              /\ Foreground'.todo = <<"THRE">>
              /\ rest'.buf = asked /\ rest'.size = n
              /\ asked' = asked + n /\ ~mayTx'
  BY TransmitMoves
<1>7. /\ n \in Nat /\ n > 0 /\ asked \in Nat /\ Written \in Nat /\ app.bytes \in Nat
  BY Numbers, UartAssumption
<1>8. asked + n = Written + n BY <1>5
<1>9. Giving'
  <2>1. CASE /\ Foreground'.fn = "irq_tx" /\ Foreground'.at = "buffer"
             /\ Foreground'.buf = asked /\ Foreground'.size = n
             /\ asked' = asked + n /\ ~mayTx'
    <3>1. Handing' BY <1>2, <1>4, <1>5, <1>7, <2>1 DEF Handing
    <3>2. Polling' /\ FillingOnce' /\ Registering' BY <2>1 DEF Polling, FillingOnce, Registering
    <3>3. Idle' BY <2>1 DEF Idle, Handed
    <3> QED BY <3>1, <3>2, <3>3 DEF Giving
  <2>2. CASE /\ Foreground'.fn \in {"polled_tx", "polled_tx_string"} /\ Foreground'.at = "lsr"
             /\ Foreground'.buf = asked /\ Foreground'.size = n /\ asked' = asked + n
    <3>1. Polling' BY <1>2, <1>4, <1>5, <1>7, <2>2 DEF Polling
    <3>2. Handing' /\ FillingOnce' /\ Registering' BY <2>2 DEF Handing, FillingOnce, Registering
    <3>3. Idle' BY <2>2 DEF Idle, Handed
    <3> QED BY <3>1, <3>2, <3>3 DEF Giving
  <2>3. CASE /\ Foreground'.fn = "fill_tx_fifo" /\ Foreground'.at = "lsr"
             /\ Foreground'.buf = asked /\ Foreground'.size = n /\ asked' = asked
    <3>1. FillingOnce' BY <1>2, <1>4, <1>5, <1>7, <2>3 DEF FillingOnce
    <3>2. Handing' /\ Polling' /\ Registering' BY <2>3 DEF Handing, Polling, Registering
    <3>3. Idle' BY <2>3 DEF Idle, Handed
    <3> QED BY <3>1, <3>2, <3>3 DEF Giving
  <2>4. CASE /\ Foreground'.fn = "register" /\ Foreground'.at = "handler"
             /\ Foreground'.todo = <<"THRE">>
             /\ rest'.buf = asked /\ rest'.size = n
             /\ asked' = asked + n /\ ~mayTx'
    <3>1. Registering' BY <1>2, <1>4, <1>5, <1>7, <2>4 DEF Registering
    <3>2. Handing' /\ Polling' /\ FillingOnce' BY <2>4 DEF Handing, Polling, FillingOnce
    <3>3. Idle' BY <2>4 DEF Idle, Handed
    <3> QED BY <3>1, <3>2, <3>3 DEF Giving
  <2> QED BY <1>6, <2>1, <2>2, <2>3, <2>4
<1>10. Taking' BY <1>4, SilentTaking
<1>11. Consecutive' BY <1>2 DEF Consecutive
<1>12. Room'
  <2>1. ctx'["isr"] = ctx["isr"] BY <1>1 DEF Interrupt
  <2>2. ctx'["fg"].at \notin {"or", "test", "put"} BY <1>6 DEF Foreground
  <2> QED BY <1>2, <2>1, <2>2, RoomStays
<1>13. Bounded'
  <2>1. asked' \in {asked, asked + n} BY <1>6
  <2>2. asked' <= app'.bytes BY <1>1, <1>6, <1>7, <2>1
  <2>3. Foreground'.fn = "fill_tx_fifo" => asked' + Foreground'.size <= app'.bytes BY <1>1, <1>6
  <2> QED BY <2>2, <2>3 DEF Bounded
<1>14. Completing' BY <1>6 DEF Completing
<1> QED BY <1>9, <1>10, <1>11, <1>12, <1>13, <1>14

LEMMA OtherCallSound ==
  ASSUME Controlled, Sound, Inquire \/ Configure PROVE Sound'
<1> USE DEF Controlled, Sound
<1>1. /\ Interrupt' = Interrupt /\ Interrupt.fn = "none" /\ Foreground.fn = "none"
      /\ UNCHANGED <<hardware, control, client, uart>>
  BY InquireMoves, ConfigureMoves
<1>2. UNCHANGED <<transmitter, app, asked, rest, mayTx, uart, control>>
  BY <1>1 DEF hardware, client
<1>3. Written' = Written /\ UNCHANGED <<txfifo, shift, line>>
  BY <1>2 DEF Written, Shifting, transmitter
<1>4. Kept BY <1>2, NothingDone
<1>5. \/ /\ Foreground'.fn \in {"tx_complete", "get_tx_status", "get_rx_status", "get_rx"}
         /\ Foreground'.at = "lsr" /\ Foreground'.ret = 0
      \/ Foreground'.fn = "register" /\ \E s \in Sources \ {"THRE"} : Foreground'.todo = <<s>>
      \/ Foreground'.fn \in {"enable_irq", "disable_irq", "enable_rx_timeout"}
  BY InquireMoves, ConfigureMoves
<1>6. ~Handed /\ ~Handed'
  <2>1. ~Handed BY <1>1 DEF Handed
  <2>2. ASSUME NEW s \in Sources \ {"THRE"}, Foreground'.todo = <<s>>
        PROVE  Foreground'.todo # <<"THRE">>
    BY <2>2
  <2>3. ~Handed' BY <1>5, <2>2 DEF Handed
  <2> QED BY <2>1, <2>3
<1>7. Giving'
  <2>1. FgCalm BY <1>6 DEF FgCalm
  <2> QED BY <1>4, <2>1, GivingKept
<1>8. Taking'
  <2>1. IsrCalm BY <1>1 DEF IsrCalm
  <2> QED BY <1>4, <2>1, TakingKept
<1>9. Consecutive' BY <1>3 DEF Consecutive
<1>10. Foreground'.fn \notin Filling BY <1>5 DEF Filling
<1>11. Room'
  <2>1. ctx'["isr"] = ctx["isr"] /\ ctx'["fg"].fn \notin Filling
    BY <1>1, <1>10 DEF Interrupt, Foreground
  <2> QED BY <1>3, <2>1, RoomStays
<1>12. Bounded' BY <1>2, <1>10, BoundedKept DEF Filling
<1>13. Completing'
  <2>1. Foreground'.fn # "tx_complete" \/ (Foreground'.at = "lsr" /\ Foreground'.ret = 0) BY <1>5
  <2> QED BY <2>1 DEF Completing
<1> QED BY <1>7, <1>8, <1>9, <1>11, <1>12, <1>13

(* The hardware goes on by itself. *)
LEMMA HardwareSound ==
  ASSUME Controlled, Sound, Shift \/ Arrive \/ Raise \/ UNCHANGED vars PROVE Sound'
<1> USE DEF Controlled, Sound
<1>1. UNCHANGED <<control, client, uart, ctx>>
  BY DEF Shift, Arrive, Raise, vars
<1>2. UNCHANGED <<app, asked, rest, mayTx>> /\ Foreground' = Foreground /\ Interrupt' = Interrupt
  BY <1>1 DEF client, Foreground, Interrupt
<1>3. /\ Consecutive' /\ Written' = Written /\ txfifo' \in Seq(Nat)
      /\ Len(txfifo') <= Len(txfifo) /\ (txfifo = << >> => txfifo' = << >>)
      /\ line' = line \/ txfifo # << >> \/ shift # 0
  <2>1. CASE Shift
    <3>1. txfifo' \in Seq(Nat)
      <4>1. txfifo \in Seq(Nat) BY DEF TypeOK
      <4>2. txfifo # << >> => Tail(txfifo) \in Seq(Nat) BY <4>1
      <4> QED BY <2>1, <4>1, <4>2 DEF Shift
    <3> QED BY <2>1, <3>1, ShiftMoves
  <2>2. CASE UNCHANGED transmitter
    <3>1. UNCHANGED <<txfifo, shift, line>> /\ Written' = Written
      BY <2>2 DEF transmitter, Written, Shifting
    <3>2. txfifo \in Seq(Nat) /\ Len(txfifo) \in Nat
      <4>1. txfifo \in Seq(Nat) BY DEF TypeOK
      <4> QED BY <4>1
    <3>3. Consecutive' BY <3>1 DEF Consecutive
    <3> QED BY <3>1, <3>2, <3>3
  <2> QED BY <2>1, <2>2 DEF Arrive, Raise, vars, hardware
<1>4. Kept BY <1>1, <1>2, <1>3 DEF Kept, control, Silent
<1>5. Giving' /\ Taking'
  <2>1. FgCalm /\ IsrCalm BY <1>2 DEF FgCalm, IsrCalm
  <2> QED BY <1>4, <2>1, GivingKept, TakingKept
<1>6. Room'
  <2>1. RoomOf("fg") /\ RoomOf("isr") BY RoomParts
  <2>2. ctx' = ctx BY <1>1
  <2>3. RoomOf("fg")' /\ RoomOf("isr")' BY <1>3, <2>1, <2>2, RoomKept
  <2> QED BY <2>3, RoomParts
<1>7. Bounded' BY <1>2 DEF Bounded
<1>8. Completing'
  <2>1. CASE line' = line BY <1>2, <1>4, <2>1 DEF Completing, Kept
  <2>2. CASE Foreground.fn # "tx_complete" BY <1>2, <2>2 DEF Completing
  <2>3. CASE Foreground.fn = "tx_complete" /\ (txfifo # << >> \/ shift # 0)
    <3>1. Silent => Len(line) # asked
      <4> SUFFICES ASSUME Silent PROVE Len(line) # asked OBVIOUS
      <4>1. ~Handed BY <2>3 DEF Handed
      <4>2. asked = Written BY <4>1 DEF Giving, Idle
      <4>3. Len(line) \in Nat /\ Len(txfifo) \in Nat /\ Shifting \in Nat
        BY Numbers DEF Shifting
      <4>4. Len(txfifo) > 0 \/ Shifting > 0
        <5>1. CASE shift # 0 BY <5>1 DEF Shifting
        <5>2. CASE txfifo # << >>
          <6>1. txfifo \in Seq(Nat) BY DEF TypeOK
          <6> QED BY <5>2, <6>1
        <5> QED BY <2>3, <5>1, <5>2
      <4> QED BY <4>2, <4>3, <4>4 DEF Written
    <3>2. Silent' <=> Silent BY <1>4 DEF Kept
    <3>3. ~(Foreground.at \in {"or", "test"} /\ "TEMT" \in Foreground.status)
          /\ ~(Foreground.at = "ret" /\ Foreground.ret = 1)
      BY <2>3, <3>1 DEF Completing
    <3> QED BY <1>2, <3>3 DEF Completing
  <2> QED BY <1>3, <2>1, <2>2, <2>3
<1> QED BY <1>3, <1>5, <1>6, <1>7, <1>8

LEMMA SoundNext ==
  ASSUME Controlled, Sound, [Next]_vars PROVE Sound'
<1>1. CASE MSS_UART_isr
  BY <1>1, EnterSound, IdentifySound, UartTxSound, LeaveSound DEF MSS_UART_isr
<1> QED BY <1>1, FgSound, IsrSound, ReturnSound, TransmitSound, OtherCallSound, HardwareSound DEF Next

-----------------------------------------------------------------------------
(* The ASSERTs of the interrupt handler. *)
LEMMA AssertedBy ==
  ASSUME [Next]_vars
  PROVE  asserted' = asserted \/ Identify \/ (\E source \in Sources : Enter(source))
<1>1. ASSUME NEW c \in {"fg", "isr"}, Step(c) PROVE asserted' = asserted
  BY <1>1, StepOf DEF ReadLsr, OrStatus, MSS_UART_polled_tx, MSS_UART_polled_tx_string,
     MSS_UART_fill_tx_fifo, MSS_UART_irq_tx, default_tx_handler, DefaultTxEnd,
     MSS_UART_tx_complete, MSS_UART_get_rx, MSS_UART_get_rx_status, MSS_UART_get_tx_status,
     MSS_UART_get_modem_status, Register, MSS_UART_set_tx_handler, MSS_UART_enable_irq,
     MSS_UART_disable_irq, MSS_UART_enable_rx_timeout, Put
<1>2. CASE UartTxHandler \/ Leave \/ Return BY <1>2 DEF UartTxHandler, Leave, Return
<1>3. CASE Transmit \/ Inquire \/ Configure BY <1>3 DEF Transmit, Inquire, Configure, Begin
<1>4. CASE Shift \/ Arrive \/ Raise \/ UNCHANGED vars BY <1>4 DEF Shift, Arrive, Raise, vars
<1> QED BY <1>1, <1>2, <1>3, <1>4 DEF Next, MSS_UART_isr

LEMMA AssertsHoldNext ==
  ASSUME Controlled, Sound, AssertsHold, [Next]_vars PROVE AssertsHold'
<1> USE DEF Controlled, Sound
<1>1. CASE asserted' = asserted BY <1>1 DEF AssertsHold
<1>2. ASSUME NEW source \in Sources, Enter(source) PROVE AssertsHold'
  <2>1. source \in ien BY <1>2, EnterStarts DEF Active
  <2>2. CASE source \in MM BY <1>2, <2>2 DEF Enter, AssertsHold
  <2>3. CASE source \notin MM /\ source # "THRE"
    <3>1. handler[source] = "user" BY <2>1, <2>3 DEF Enabled, Handled
    <3> QED BY <1>2, <2>3, <3>1 DEF Enter, AssertsHold
  <2>4. CASE source = "THRE"
    <3>1. ~Silent /\ handler["THRE"] # "null" BY <2>1, <2>4 DEF Silent, Enabled
    <3>2. handler["THRE"] = "default" => DefaultTxReady
      <4> SUFFICES ASSUME handler["THRE"] = "default"
                   PROVE  uart.tx_buffer # NULL /\ uart.tx_buff_size > 0
        BY DEF DefaultTxReady
      <4>1. uart.tx_buffer + uart.tx_buff_size = asked /\ uart.tx_buff_size > 0
        BY <3>1 DEF Taking, Sending
      <4>2. asked <= app.bytes BY DEF Bounded
      <4>3. app.bytes \in 0 .. NULL BY AppsAssumption DEF TypeOK
      <4>4. /\ uart.tx_buffer \in Nat /\ uart.tx_buff_size \in Int /\ asked \in Nat
            /\ NULL \in Nat
        BY RecordFields, Numbers DEF NULL
      <4> QED BY ONLY <4>1, <4>2, <4>3, <4>4
    <3> QED BY <1>2, <2>4, <3>1, <3>2 DEF Enter, AssertsHold
  <2> QED BY <2>2, <2>3, <2>4
<1>3. CASE Identify
  <2> DEFINE source == Head(Interrupt.todo)
  <2>1. source \in MM
    <3>1. Interrupt.todo # << >> /\ \A i \in 1 .. Len(Interrupt.todo) : Interrupt.todo[i] \in MM
      BY <1>3, IdentifyMoves DEF Configuring
    <3>2. Interrupt.todo \in Seq(Sources) BY Context DEF Interrupt, Frame
    <3>3. source = Interrupt.todo[1] /\ 1 \in 1 .. Len(Interrupt.todo) BY <3>1, <3>2
    <3> QED BY <3>1, <3>3
  <2> HIDE DEF source
  <2>2. source \in raised \cap ien => handler[source] = "user"
    <3> SUFFICES ASSUME source \in raised, source \in ien PROVE handler[source] = "user" OBVIOUS
    <3>1. source \in modes /\ source # "THRE" BY <2>1, Multimodes DEF Enabled
    <3>2. CASE source = "RTO" BY <3>1, <3>2 DEF Enabled, Handled
    <3>3. CASE source # "RTO"
      <4>1. ModesOf(app.mode) # {} BY <3>1, <3>3 DEF Enabled
      <4> QED BY <3>1, <4>1 DEF Enabled, Handled
    <3> QED BY <3>2, <3>3
  <2>3. ~(source \in raised \cap ien /\ ~(source \in raised \cap ien /\ handler[source] = "user"))
    BY <2>2
  <2>4. asserted' = (asserted \/ (source \in raised \cap ien
                       /\ ~(source \in raised \cap ien /\ handler[source] = "user")))
    BY <1>3 DEF Identify, source, Interrupt
  <2> QED BY <2>3, <2>4 DEF AssertsHold
<1> QED BY <1>1, <1>2, <1>3, AssertedBy

-----------------------------------------------------------------------------
(* The stream of bytes. *)
LEMMA NotAhead ==
  ASSUME Controlled, Sound PROVE Written <= asked
<1> USE DEF Controlled, Sound
<1>1. /\ Foreground.size \in Int /\ Foreground.fill \in Int /\ Interrupt.size \in Int
      /\ Interrupt.ret \in Nat /\ Interrupt.fill \in Int
      /\ Written \in Nat /\ asked \in Nat /\ rest.buf \in Nat /\ rest.size \in Int
      /\ uart.tx_buffer \in Nat /\ uart.tx_buff_size \in Int /\ uart.tx_idx \in Nat
  BY Numbers, RecordFields
<1>2. RoomOf("fg") /\ RoomOf("isr") BY RoomParts
<1>3. CASE Silent /\ ~Handed BY <1>1, <1>3 DEF Giving, Idle
<1>4. CASE Handed
  <2>1. CASE Foreground.fn \in {"polled_tx", "polled_tx_string"}
    <3>1. Written + Foreground.size = asked /\ Foreground.size >= 0
      BY <1>1, <2>1 DEF Giving, Polling
    <3> QED BY <1>1, <3>1
  <2>2. CASE Foreground.fn = "fill_tx_fifo"
    <3>1. asked = IF Foreground.at = "put" THEN Written + Foreground.fill ELSE Written
      BY <2>2 DEF Giving, FillingOnce
    <3>2. Foreground.at = "put" => Foreground.fill > 0
      BY <1>1, <1>2, <2>2 DEF RoomOf, Filling, Foreground
    <3> QED BY <1>1, <3>1, <3>2
  <2>3. CASE Foreground.fn = "irq_tx" /\ Foreground.at # "ret"
    <3>1. Written + Foreground.size = asked /\ Foreground.size > 0
      BY <2>3 DEF Giving, Handing
    <3> QED BY <1>1, <3>1
  <2>4. CASE Foreground.fn = "register" /\ Foreground.todo = <<"THRE">> /\ Foreground.at # "ret"
    <3>1. Written + rest.size = asked /\ rest.size > 0 BY <2>4 DEF Giving, Registering
    <3> QED BY <1>1, <3>1
  <2> QED BY <1>4, <2>1, <2>2, <2>3, <2>4 DEF Handed
<1>5. CASE ~Silent /\ handler["THRE"] = "default"
  <2>1. /\ uart.tx_buffer + uart.tx_idx = Written /\ uart.tx_buffer + uart.tx_buff_size = asked
        /\ IF Interrupt.fn = "default_tx" /\ Interrupt.at = "end"
           THEN uart.tx_idx <= uart.tx_buff_size
           ELSE IF Interrupt.fn = "default_tx" /\ Interrupt.at = "put"
           THEN uart.tx_idx + Interrupt.fill <= uart.tx_buff_size
           ELSE uart.tx_idx < uart.tx_buff_size
    BY <1>5 DEF Taking, Sending
  <2>2. Interrupt.fn = "default_tx" /\ Interrupt.at = "put" => Interrupt.fill > 0
    BY <1>1, <1>2 DEF RoomOf, Filling, Interrupt
  <2>3. uart.tx_idx <= uart.tx_buff_size BY <1>1, <2>1, <2>2
  <2> QED BY ONLY <1>1, <2>1, <2>3
<1>6. CASE ~Silent /\ handler["THRE"] = "user"
  <2>1. rest.buf + rest.size = asked BY <1>6 DEF Taking, Serving
  <2>2. CASE Interrupt.fn = "fill_tx_fifo"
    <3>1. /\ rest.buf + Interrupt.ret = Written /\ Interrupt.size >= 0
          /\ Interrupt.ret + Interrupt.size = rest.size
      BY <1>6, <2>2 DEF Taking, Serving
    <3> QED BY ONLY <1>1, <2>1, <3>1
  <2>3. CASE Interrupt.fn # "fill_tx_fifo"
    <3>1. rest.buf = Written /\ rest.size >= 0
      <4>1. CASE Interrupt.fn = "disable_irq" BY <1>1, <1>6, <4>1 DEF Taking, Serving
      <4>2. CASE Interrupt.fn # "disable_irq" BY <1>1, <1>6, <2>3, <4>2 DEF Taking, Serving
      <4> QED BY <4>1, <4>2
    <3> QED BY ONLY <1>1, <2>1, <3>1
  <2> QED BY <2>2, <2>3
<1>7. ~Silent => handler["THRE"] \in {"default", "user"}
  <2>1. "THRE" \in Sources BY Multimodes
  <2> QED BY <2>1 DEF Enabled, TypeOK
<1> QED BY <1>3, <1>4, <1>5, <1>6, <1>7

LEMMA LineBy ==
  ASSUME [Next]_vars PROVE line' = line \/ Shift
<1>1. ASSUME NEW c \in {"fg", "isr"}, Step(c) PROVE line' = line
  BY <1>1, StepOf DEF ReadLsr, OrStatus, MSS_UART_polled_tx, MSS_UART_polled_tx_string,
     MSS_UART_fill_tx_fifo, MSS_UART_irq_tx, default_tx_handler, DefaultTxEnd,
     MSS_UART_tx_complete, MSS_UART_get_rx, MSS_UART_get_rx_status, MSS_UART_get_tx_status,
     MSS_UART_get_modem_status, Register, MSS_UART_set_tx_handler, MSS_UART_enable_irq,
     MSS_UART_disable_irq, MSS_UART_enable_rx_timeout, Put, hardware, transmitter
<1>2. CASE MSS_UART_isr \/ Return
  BY <1>2 DEF MSS_UART_isr, Enter, Identify, UartTxHandler, Leave, Return, hardware, transmitter
<1>3. CASE Transmit \/ Inquire \/ Configure
  BY <1>3 DEF Transmit, Inquire, Configure, Begin, hardware, transmitter
<1>4. CASE Arrive \/ Raise \/ UNCHANGED vars
  BY <1>4 DEF Arrive, Raise, vars, hardware, transmitter
<1> QED BY <1>1, <1>2, <1>3, <1>4 DEF Next

LEMMA AskedBy ==
  ASSUME Controlled, Sound, [Next]_vars
  PROVE  asked' = asked \/ (asked' > asked /\ asked' \in Nat)
<1> USE DEF Controlled, Sound
<1>1. asked \in Nat BY DEF TypeOK
<1>2. ASSUME NEW c \in {"fg", "isr"}, Step(c), ctx[c].fn # "fill_tx_fifo" \/ ctx[c].at # "test"
      PROVE  asked' = asked
  <2>1. CASE MSS_UART_fill_tx_fifo(c)
    BY <1>2, <2>1 DEF MSS_UART_fill_tx_fifo, At, Put, client
  <2> QED BY <1>2, <2>1, StepOf DEF ReadLsr, OrStatus, MSS_UART_polled_tx,
     MSS_UART_polled_tx_string,
     MSS_UART_irq_tx, default_tx_handler, DefaultTxEnd,
     MSS_UART_tx_complete, MSS_UART_get_rx, MSS_UART_get_rx_status, MSS_UART_get_tx_status,
     MSS_UART_get_modem_status, Register, MSS_UART_set_tx_handler, MSS_UART_enable_irq,
     MSS_UART_disable_irq, MSS_UART_enable_rx_timeout, Put, client
<1>3. CASE Step("fg") /\ Foreground.fn = "fill_tx_fifo" /\ Foreground.at = "test"
  <2>1. asked' = asked \/ asked' = asked + Lesser(Foreground.size, FifoSize)
    BY <1>3, FgTestMoves
  <2>2. Foreground.size > 0 BY <1>3 DEF Giving, FillingOnce
  <2>3. Foreground.size \in Int /\ FifoSize \in Int /\ FifoSize > 0 BY Numbers
  <2>4. Lesser(Foreground.size, FifoSize) \in Int /\ Lesser(Foreground.size, FifoSize) > 0
    BY ONLY <2>2, <2>3, LesserOf
  <2> QED BY <1>1, <2>1, <2>4
<1>4. CASE Step("isr") /\ Interrupt.fn = "fill_tx_fifo" /\ Interrupt.at = "test"
  <2>1. MSS_UART_fill_tx_fifo("isr") BY <1>4, StepOf DEF Interrupt
  <2> QED BY <2>1 DEF MSS_UART_fill_tx_fifo, Put, client
<1>5. CASE Transmit
  <2>1. PICK n \in Sizes : asked' = asked \/ asked' = asked + n BY <1>5, TransmitMoves
  <2>2. n \in Nat /\ n > 0 BY UartAssumption
  <2> QED BY <1>1, <2>1, <2>2
<1>6. CASE MSS_UART_isr \/ Return
  BY <1>6 DEF MSS_UART_isr, Enter, Identify, UartTxHandler, Leave, Return, client
<1>7. CASE Inquire \/ Configure BY <1>7 DEF Inquire, Configure
<1>8. CASE Shift \/ Arrive \/ Raise \/ UNCHANGED vars BY <1>8 DEF Shift, Arrive, Raise, vars, client
<1> QED BY <1>2, <1>3, <1>4, <1>5, <1>6, <1>7, <1>8 DEF Next, Foreground, Interrupt

LEMMA StreamNext ==
  ASSUME Controlled, Sound, [Next]_vars
  PROVE  [Stream!Ask \/ Stream!Leave]_(Stream!stream)
<1> USE DEF Controlled, Sound
<1>1. CASE line' = line
  BY <1>1, AskedBy DEF Stream!Ask, Stream!stream
<1>2. CASE Shift /\ line' # line
  <2>1. /\ shift # 0 /\ line' = Append(line, shift) /\ asked' = asked
    BY <1>2 DEF Shift, client
  <2>2. Len(line) \in Nat /\ Len(txfifo) \in Nat /\ Written \in Nat /\ asked \in Nat BY Numbers
  <2>3. shift = Len(line) + 1 BY <2>1 DEF Consecutive, InOrder
  <2>4. Written = Len(line) + 1 + Len(txfifo) BY <2>1 DEF Written, Shifting
  <2>5. Written <= asked BY NotAhead
  <2>6. Len(line) < asked BY ONLY <2>2, <2>4, <2>5
  <2> QED BY <2>1, <2>3, <2>6 DEF Stream!Leave
<1> QED BY <1>1, <1>2, LineBy

-----------------------------------------------------------------------------
(* The theorems. *)
LEMMA Initially == Init => IInv /\ AssertsHold
<1> SUFFICES ASSUME Init PROVE IInv /\ AssertsHold OBVIOUS
<1>1. ctx["fg"] = NoFrame /\ ctx["isr"] = NoFrame BY DEF Init
<1>2. /\ Foreground.fn = "none" /\ Interrupt.fn = "none"
      /\ Foreground.at = "ret" /\ Interrupt.at = "ret"
  BY <1>1, NoFrameFields DEF Foreground, Interrupt
<1>3. TypeOK
  <2>1. app \in Apps /\ ien = {} /\ nvic = FALSE /\ modes = ModesOf(app.mode) BY DEF Init
  <2>2. modes \in SUBSET MM BY <2>1, Multimodes DEF ModesOf
  <2>3. uart \in Record BY DEF Init, GlobalInit, Record, NULL
  <2>4. handler \in [Sources -> {"null", "default", "user"}] BY DEF Init, HandlersOf
  <2>5. NoFrame \in Frame
    <3>1. "none" \in FgFunctions \cup IsrFunctions /\ "ret" \in Everywhere
      BY DEF FgFunctions, Everywhere, Placed
    <3> QED BY <3>1, CallTyped
  <2>6. ctx \in [{"fg", "isr"} -> Frame] BY <2>5 DEF Init
  <2>7. << >> \in Seq(Nat) OBVIOUS
  <2>8. rest \in [buf : Nat, size : Int] BY DEF Init
  <2>9. /\ txfifo = << >> /\ shift = 0 /\ line = << >> /\ rxfifo = << >> /\ arrived = 0
        /\ got = << >> /\ lsrError = FALSE /\ raised = {} /\ events = 0
        /\ asserted = FALSE /\ asked = 0 /\ mayTx = TRUE /\ owed = FALSE
    BY DEF Init
  <2> QED BY ONLY <2>1, <2>2, <2>3, <2>4, <2>6, <2>7, <2>8, <2>9 DEF TypeOK
<1>4. Contexts BY <1>2 DEF Contexts, FgFunctions, IsrFunctions, Places
<1>5. Entered BY <1>2 DEF Entered
<1>6. Silent BY DEF Init, Silent
<1>7. Enabled
  <2>1. \A s \in Sources \ {"THRE"} : handler[s] # "default" BY DEF Init, HandlersOf
  <2>2. ModesOf(app.mode) # {} => handler["THRE"] # "user"
    BY Multimodes DEF Init, HandlersOf
  <2>3. "RTO" \notin modes BY DEF Init, ModesOf
  <2>4. ien = {} /\ raised = {} /\ modes = ModesOf(app.mode) BY DEF Init
  <2> QED BY <1>2, <1>6, <2>1, <2>2, <2>3, <2>4 DEF Enabled
<1>8. Configuring BY <1>1, <1>2, NoFrameFields DEF Configuring, Foreground, Interrupt
<1>9. line = << >> /\ txfifo = << >> /\ shift = 0 /\ asked = 0 BY DEF Init
<1>10. Consecutive /\ Written = 0
  <2>1. Len(line) = 0 /\ Len(txfifo) = 0 BY <1>9
  <2> QED BY <1>9, <2>1 DEF Consecutive, InOrder, Written, Shifting
<1>11. Room BY <1>1, NoFrameFields DEF Room, Filling
<1>12. Polling /\ FillingOnce /\ Handing /\ Registering /\ Idle
  BY <1>2, <1>9, <1>10 DEF Polling, FillingOnce, Handing, Registering, Idle
<1>13. Sending /\ Serving /\ Quieted BY <1>6 DEF Sending, Serving, Quieted
<1>14. Completing BY <1>2 DEF Completing
<1>15. Bounded
  <2>1. app.bytes \in Nat BY <1>3, Numbers
  <2> QED BY <1>2, <1>9, <2>1 DEF Bounded
<1>16. Received
  <2>1. got = << >> /\ rxfifo = << >> BY DEF Init
  <2>2. Len(got) = 0 /\ Len(rxfifo) = 0 BY <2>1
  <2> QED BY <2>2 DEF Received, Ordered
<1>17. Reading BY <1>1, NoFrameFields DEF Reading, Foreground, Interrupt
<1>18. AssertsHold BY DEF Init, AssertsHold
<1> QED BY <1>3, <1>4, <1>5, <1>7, <1>8, <1>10, <1>11, <1>12, <1>13, <1>14, <1>15, <1>16, <1>17,
           <1>18 DEF IInv

LEMMA InvariantParts == IInv <=> Controlled /\ Sound /\ Received /\ Reading
BY DEF IInv, Controlled, Sound, Giving, Taking

LEMMA InvariantNext ==
  ASSUME Considerate, IInv, [Next]_vars PROVE IInv'
<1>1. Controlled /\ Sound /\ Received /\ Reading BY InvariantParts
<1>2. Sound' BY <1>1, SoundNext
<1>3. Controlled'
  <2>1. TypeOK' BY <1>1, TypeNext DEF Controlled, Sound, Giving
  <2>2. Contexts' /\ Entered' /\ Enabled'
    BY <1>1, ContextsNext, EnteredNext, EnabledNext DEF Controlled
  <2>3. Configuring' BY <1>1, ConfiguringNext DEF Controlled, Sound, Taking
  <2> QED BY <2>1, <2>2, <2>3 DEF Controlled
<1>4. Received' /\ Reading' BY <1>1, ReceivedNext, ReadingNext DEF Controlled
<1>5. IInv' <=> Controlled' /\ Sound' /\ Received' /\ Reading' BY InvariantParts, PTL
<1> QED BY <1>2, <1>3, <1>4, <1>5

(* The inductive invariant: which function each context is in and with     *)
(* what, which bytes are where between the application and the line, and   *)
(* which sources are enabled for whom.                                     *)
THEOREM Transmission ==
  ASSUME Considerate PROVE Spec => []IInv
<1>1. IInv /\ [Next]_vars => IInv' BY InvariantNext
<1>2. Init => IInv BY Initially
<1> QED BY <1>1, <1>2, PTL DEF Spec

(* When MSS_UART_tx_complete says yes, every byte handed over has left the *)
(* shift register, whichever function sent it and whatever interrupts were *)
(* taken on the way.                                                       *)
THEOREM CompleteMeansSentAlways ==
  ASSUME Considerate PROVE Spec => []TxCompleteMeansSent
<1>1. IInv => TxCompleteMeansSent
  <2> SUFFICES ASSUME IInv, Foreground.fn = "tx_complete", Foreground.ret = 1
               PROVE  Len(line) = asked
    BY DEF TxCompleteMeansSent, Foreground
  <2>1. Foreground.at \in {"lsr", "or", "test", "ret"} BY DEF IInv, Contexts, Places
  <2> QED BY <2>1 DEF IInv, Completing
<1> QED BY <1>1, Transmission, PTL

(* No ASSERT of MSS_UART_isr or of default_tx_handler fails: an enabled    *)
(* source has a handler, and the default transmit handler a buffer.        *)
THEOREM AssertsAlwaysHold ==
  ASSUME Considerate PROVE Spec => []AssertsHold
<1>1. IInv /\ AssertsHold /\ [Next]_vars => (IInv /\ AssertsHold)'
  <2> SUFFICES ASSUME IInv, AssertsHold, [Next]_vars PROVE IInv' /\ AssertsHold' OBVIOUS
  <2>1. AssertsHold' BY AssertsHoldNext, InvariantParts
  <2> QED BY <2>1, InvariantNext
<1> QED BY <1>1, Initially, PTL DEF Spec

(* MSS_UART_get_rx, called by the application or by its receive handler,   *)
(* returns bytes in the order in which they arrived and never one that did *)
(* not.                                                                    *)
THEOREM ReceivedInOrderAlways ==
  ASSUME Considerate PROVE Spec => []ReceivedInOrder
<1>1. IInv => ReceivedInOrder BY DEF IInv, Received, Ordered, ReceivedInOrder
<1> QED BY <1>1, Transmission, PTL

(* The driver and its transmitter send a stream: what the application asks *)
(* to have sent leaves on the line in that order, each byte once and none  *)
(* before it was asked for.                                                *)
THEOREM StreamOfBytes ==
  ASSUME Considerate
  PROVE  Spec => Stream!StreamInit /\ [][Stream!Ask \/ Stream!Leave]_(Stream!stream)
<1>1. Init => Stream!StreamInit BY DEF Init, Stream!StreamInit
<1>2. IInv /\ [Next]_vars => [Stream!Ask \/ Stream!Leave]_(Stream!stream)
  BY StreamNext, InvariantParts
<1> QED BY <1>1, <1>2, Transmission, PTL DEF Spec

=============================================================================
