-------------------------------- MODULE Uart --------------------------------
(***************************************************************************)
(* The MMUART driver of drivers/mss_uart/mss_uart.c: how bytes, status and *)
(* interrupts pass between an application, the driver and one UART that    *)
(* MSS_UART_init or MSS_UART_lin_init has set up.                          *)
(*                                                                         *)
(* Two contexts run the code, the foreground "fg" and the interrupt        *)
(* handler "isr".  An interrupt that is pending and enabled is taken       *)
(* before the next step of the foreground; the handler runs to its end.    *)
(* Each has a frame, the function it is in with its locals.  A step        *)
(* touches the hardware or the driver's record of the UART once; a status  *)
(* read and the load of the sticky status in front of its OR are one step, *)
(* the store is another.                                                   *)
(*                                                                         *)
(* Bytes are numbered in the order the application hands them over, so a   *)
(* buffer is the number before its first byte.  The hardware, the handlers *)
(* the application registers and the rules it keeps to are external.       *)
(***************************************************************************)
EXTENDS Naturals, Sequences, FiniteSets

CONSTANTS FifoSize,     \* TX_FIFO_SIZE, and the depth of the receive FIFO
          Sizes,        \* sizes of the buffers it hands over
          RxSize,       \* size of the buffer given to get_rx
          Apps,         \* the applications: how the UART was set up (mode), the
                        \* calls made, the sources with handlers (registers) and
                        \* the bounds: bytes handed over, bytes that arrive (rx),
                        \* other interrupts raised (events)
          Careful       \* it leaves the enables alone while it transmits

ASSUME UartAssumption ==
  /\ FifoSize \in Nat \ {0} /\ Sizes \subseteq Nat \ {0} /\ RxSize \in Nat \ {0}

VARIABLES app,                  \* the application
          txfifo, shift, line,  \* transmitter: FIFO, shift register (0: empty),
                                \* what has left
          rxfifo, arrived, got, \* receiver: FIFO, bytes arrived, bytes read
          lsrError,             \* the error bits of LSR
          raised,               \* other interrupts raised
          events,               \* how many were
          ien,                  \* IER and IEM: the enabled sources
          modes,                \* sources whose mode MM0 or MM2 turns on
          nvic,                 \* the interrupt is enabled in the NVIC
          uart,                 \* tx_buffer, tx_buff_size, tx_idx, status
          handler,              \* the registered handlers
          ctx,                  \* frames of the two contexts
          asserted,             \* an ASSERT has failed
          asked,                \* bytes handed over
          mayTx,                \* the application may transmit again
          rest,                 \* what its own transmit handler has left
          owed                  \* an error was flagged and not yet reported

transmitter == <<txfifo, shift, line>>
receiver == <<rxfifo, arrived, lsrError>>
hardware == <<transmitter, receiver, raised, events>>
control  == <<ien, modes, nvic, handler>>
client   == <<app, asked, mayTx, rest, got>>
vars     == <<hardware, control, client, uart, ctx, asserted, owed>>

(* IIM, in the order the interrupt handler looks at its bits. *)
Multimode == <<"RTO", "NACK", "PIDPE", "LINB", "LINS">>
MM        == {Multimode[i] : i \in 1 .. Len(Multimode)}
Sources   == {"RX", "THRE", "LS", "MS"} \cup MM
NULL      == 1000        \* no buffer: the bytes there are nobody's

ASSUME AppsAssumption ==
  \A a \in Apps : /\ a.registers \subseteq Sources \ {"THRE"}
                  /\ a.bytes \in 0 .. NULL /\ a.rx \in Nat /\ a.events \in Nat

NoFrame == [fn |-> "none", at |-> "ret", buf |-> 0, size |-> 0, fill |-> 0,
            status |-> {}, old |-> FALSE, ret |-> 0, todo |-> << >>]
Call(fn, at, buf, size) ==
  [NoFrame EXCEPT !.fn = fn, !.at = at, !.buf = buf, !.size = size]

Lesser(m, n) == IF m < n THEN m ELSE n
Upto(n)      == [i \in 1 .. n |-> i]

-----------------------------------------------------------------------------
(* The record after global_init.  Of the four init functions only          *)
(* MSS_UART_init installs the default transmit handler; LIN mode detects   *)
(* breaks, synchs and parity errors, smartcard mode NACKs.                 *)
GlobalInit == [tx_buffer |-> NULL, tx_buff_size |-> 0, tx_idx |-> 0, status |-> FALSE]

HandlersOf(mode) ==
  [s \in Sources |-> IF s = "THRE" /\ mode = "uart" THEN "default" ELSE "null"]

ModesOf(mode) == CASE mode = "lin"       -> {"PIDPE", "LINB", "LINS"}
                   [] mode = "smartcard" -> {"NACK"}
                   [] OTHER              -> {}

Init ==
  /\ app \in Apps
  /\ txfifo = << >> /\ shift = 0 /\ line = << >>
  /\ rxfifo = << >> /\ arrived = 0 /\ got = << >> /\ lsrError = FALSE
  /\ raised = {} /\ events = 0
  /\ ien = {} /\ nvic = FALSE
  /\ modes = ModesOf(app.mode)
  /\ uart = GlobalInit
  /\ handler = HandlersOf(app.mode)
  /\ ctx = [c \in {"fg", "isr"} |-> NoFrame]
  /\ asserted = FALSE /\ asked = 0 /\ mayTx = TRUE /\ rest = [buf |-> 0, size |-> 0]
  /\ owed = FALSE

-----------------------------------------------------------------------------
(* The hardware. *)
LSR == {b \in {"DR", "ERR", "THRE", "TEMT"} :
          \/ b = "DR"   /\ rxfifo # << >>
          \/ b = "ERR"  /\ lsrError
          \/ b = "THRE" /\ txfifo = << >>
          \/ b = "TEMT" /\ txfifo = << >> /\ shift = 0}

Pending == raised \cup (IF txfifo = << >> THEN {"THRE"} ELSE {})
                  \cup (IF rxfifo # << >> THEN {"RX"} ELSE {})
                  \cup (IF lsrError THEN {"LS"} ELSE {})
Active  == Pending \cap ien
Interrupted == nvic /\ Active # {}

WriteTHR(b) == txfifo' = IF Len(txfifo) < FifoSize THEN Append(txfifo, b) ELSE txfifo

Shift ==
  /\ \/ /\ shift = 0 /\ txfifo # << >>
        /\ shift' = Head(txfifo) /\ txfifo' = Tail(txfifo) /\ UNCHANGED line
     \/ /\ shift # 0
        /\ line' = Append(line, shift) /\ shift' = 0 /\ UNCHANGED txfifo
  /\ UNCHANGED <<receiver, raised, events, control, client, uart, ctx, asserted,
                 owed>>

(* A byte arrives, good or with an error; one that finds the FIFO full is  *)
(* lost, with an error.                                                    *)
Arrive ==
  /\ arrived < app.rx
  /\ arrived' = arrived + 1
  /\ \/ /\ Len(rxfifo) < FifoSize
        /\ rxfifo' = Append(rxfifo, arrived') /\ lsrError' = lsrError
     \/ /\ rxfifo' = IF Len(rxfifo) < FifoSize THEN Append(rxfifo, arrived') ELSE rxfifo
        /\ lsrError' = TRUE
  /\ owed' = (owed \/ (lsrError' /\ ~lsrError))
  /\ UNCHANGED <<transmitter, raised, events, control, client, uart, ctx, asserted>>

(* Modem status changes; a multimode source is raised in its mode only. *)
Raise ==
  /\ events < app.events
  /\ \E s \in {"MS"} \cup modes : raised' = raised \cup {s}
  /\ raised' # raised /\ events' = events + 1
  /\ UNCHANGED <<transmitter, receiver, control, client, uart, ctx, asserted, owed>>

-----------------------------------------------------------------------------
(* The frame of a context that may take a step, and its next frame. *)
Running(c) ==
  /\ ctx[c].fn # "none"
  /\ c = "fg" => ctx["isr"].fn = "none" /\ ~Interrupted
At(c, fn, at)   == Running(c) /\ ctx[c].fn = fn /\ ctx[c].at = at
Become(c, f)    == ctx' = [ctx EXCEPT ![c] = f]
Goto(c, at)     == ctx' = [ctx EXCEPT ![c].at = at]
Thre(c)         == "THRE" \in ctx[c].status

(* Every function that looks at LSR keeps its error bits in the sticky     *)
(* record, since reading them clears them.                                 *)
ReadLsr(c) ==
  /\ Running(c) /\ ctx[c].at = "lsr"
  /\ Become(c, [ctx[c] EXCEPT !.status = LSR, !.old = uart.status, !.at = "or"])
  /\ lsrError' = FALSE
  /\ UNCHANGED <<transmitter, rxfifo, arrived, raised, events, control, client, uart,
                 asserted, owed>>

OrStatus(c) ==
  /\ Running(c) /\ ctx[c].at = "or"
  /\ uart' = [uart EXCEPT !.status = ctx[c].old \/ "ERR" \in ctx[c].status]
  /\ Goto(c, "test")
  /\ UNCHANGED <<hardware, control, client, asserted, owed>>

(* Mutant: the interrupt is left as it is in the NVIC. *)
NoNvic == nvic' = nvic

NVIC_EnableIRQ == nvic' = TRUE

-----------------------------------------------------------------------------
(* The transmit functions.  `buf` is the number before the next byte,      *)
(* `size` what is left of the buffer, `fill` of this filling of the FIFO.  *)
Put(c, at) ==
  /\ WriteTHR(ctx[c].buf + 1)
  /\ Become(c, [ctx[c] EXCEPT !.buf = @ + 1, !.size = @ - 1, !.fill = @ - 1,
                              !.ret = @ + 1, !.at = at])
  /\ UNCHANGED <<shift, line, receiver, raised, events, control, client, uart,
                 asserted, owed>>

(* The FIFO is filled when LSR said that it is empty. *)
Fill(c, empty) ==
  Become(c, IF Thre(c)
            THEN [ctx[c] EXCEPT !.fill = Lesser(ctx[c].size, FifoSize), !.at = "put"]
            ELSE [ctx[c] EXCEPT !.at = empty])

MSS_UART_polled_tx(c) ==
  \/ /\ At(c, "polled_tx", "test")
     /\ Fill(c, "lsr")
     /\ UNCHANGED <<hardware, control, client, uart, asserted, owed>>
  \/ /\ At(c, "polled_tx", "put")
     /\ Put(c, IF ctx[c].size = 1 THEN "ret" ELSE IF ctx[c].fill = 1 THEN "lsr" ELSE "put")

(* `fill` counts up here: the end of the string is found on the way. *)
MSS_UART_polled_tx_string(c) ==
  \/ /\ At(c, "polled_tx_string", "test")
     /\ Become(c, [ctx[c] EXCEPT !.fill = 0, !.at = IF Thre(c) THEN "put" ELSE "lsr"])
     /\ UNCHANGED <<hardware, control, client, uart, asserted, owed>>
  \/ /\ At(c, "polled_tx_string", "put")
     /\ WriteTHR(ctx[c].buf + 1)
     /\ Become(c, [ctx[c] EXCEPT !.buf = @ + 1, !.size = @ - 1, !.fill = @ + 1,
                   !.at = IF ctx[c].size = 1 THEN "ret"
                          ELSE IF ctx[c].fill + 1 = FifoSize THEN "lsr" ELSE "put"])
     /\ UNCHANGED <<shift, line, receiver, raised, events, control, client, uart,
                    asserted, owed>>

(* Returns how much it has written; the foreground hands over that much. *)
MSS_UART_fill_tx_fifo(c) ==
  \/ /\ At(c, "fill_tx_fifo", "test")
     /\ Fill(c, "ret")
     /\ asked' = IF c = "fg" /\ Thre(c) THEN asked + Lesser(ctx[c].size, FifoSize)
                 ELSE asked
     /\ UNCHANGED <<hardware, control, app, mayTx, rest, got, uart, asserted, owed>>
  \/ /\ At(c, "fill_tx_fifo", "put")
     /\ Put(c, IF ctx[c].fill = 1 THEN "ret" ELSE "put")

(* Mutant: the index of the transmission before is left. *)
NotRewound == uart

Rewound == [uart EXCEPT !.tx_idx = 0]

(* The record is filled in one field after the other, then the default     *)
(* handler and the interrupt follow.                                       *)
MSS_UART_irq_tx(c) ==
  /\ \/ /\ At(c, "irq_tx", "buffer") /\ Goto(c, "size")
        /\ uart' = [uart EXCEPT !.tx_buffer = ctx[c].buf]
        /\ UNCHANGED control
     \/ /\ At(c, "irq_tx", "size") /\ Goto(c, "idx")
        /\ uart' = [uart EXCEPT !.tx_buff_size = ctx[c].size]
        /\ UNCHANGED control
     \/ /\ At(c, "irq_tx", "idx") /\ Goto(c, "enable")
        /\ uart' = Rewound
        /\ UNCHANGED control
     \/ /\ At(c, "irq_tx", "enable") /\ Goto(c, "ret")
        /\ handler' = [handler EXCEPT !["THRE"] = "default"]
        /\ ien' = ien \cup {"THRE"} /\ NVIC_EnableIRQ
        /\ UNCHANGED <<uart, modes>>
  /\ UNCHANGED <<hardware, client, asserted, owed>>

(* tx_remain is unsigned: an index behind the size leaves a huge rest. *)
Remaining == IF uart.tx_idx > uart.tx_buff_size THEN FifoSize
             ELSE Lesser(uart.tx_buff_size - uart.tx_idx, FifoSize)

(* Mutant: the transmit interrupt is left enabled. *)
DefaultTxEndEnabled(c) ==
  /\ At(c, "default_tx", "end")
  /\ IF uart.tx_idx = uart.tx_buff_size
     THEN uart' = [uart EXCEPT !.tx_buff_size = 0] /\ ien' = ien
     ELSE UNCHANGED <<uart, ien>>
  /\ Goto(c, "ret")
  /\ UNCHANGED <<hardware, modes, nvic, handler, client, asserted, owed>>

(* The end of default_tx_handler: everything has been written. *)
DefaultTxEnd(c) ==
  /\ At(c, "default_tx", "end")
  /\ IF uart.tx_idx = uart.tx_buff_size
     THEN uart' = [uart EXCEPT !.tx_buff_size = 0] /\ ien' = ien \ {"THRE"}
     ELSE UNCHANGED <<uart, ien>>
  /\ Goto(c, "ret")
  /\ UNCHANGED <<hardware, modes, nvic, handler, client, asserted, owed>>

default_tx_handler(c) ==
  \/ /\ At(c, "default_tx", "test")
     /\ Become(c, IF Thre(c) /\ Remaining > 0
                  THEN [ctx[c] EXCEPT !.fill = Remaining, !.at = "put"]
                  ELSE [ctx[c] EXCEPT !.at = "end"])
     /\ UNCHANGED <<hardware, control, client, uart, asserted, owed>>
  \/ /\ At(c, "default_tx", "put")
     /\ WriteTHR(uart.tx_buffer + uart.tx_idx + 1)
     /\ uart' = [uart EXCEPT !.tx_idx = @ + 1]
     /\ Become(c, [ctx[c] EXCEPT !.fill = @ - 1,
                                 !.at = IF ctx[c].fill = 1 THEN "end" ELSE "put"])
     /\ UNCHANGED <<shift, line, receiver, raised, events, control, client, asserted,
                    owed>>
  \/ DefaultTxEnd(c)

(* Mutant: the transmission is complete with the FIFO filled. *)
CompleteWhenFilled(c) ==
  /\ At(c, "tx_complete", "test")
  /\ Become(c, [ctx[c] EXCEPT !.at = "ret", !.ret = IF uart.tx_buff_size = 0 THEN 1 ELSE 0])
  /\ UNCHANGED <<hardware, control, client, uart, asserted, owed>>

MSS_UART_tx_complete(c) ==
  /\ At(c, "tx_complete", "test")
  /\ Become(c, [ctx[c] EXCEPT !.at = "ret",
                 !.ret = IF uart.tx_buff_size = 0 /\ "TEMT" \in ctx[c].status
                         THEN 1 ELSE 0])
  /\ UNCHANGED <<hardware, control, client, uart, asserted, owed>>

-----------------------------------------------------------------------------
(* The receive and status functions. *)
(* Mutant: a byte is read before LSR says that there is one. *)
MoreAnyway(c) == ctx[c].ret < ctx[c].size

More(c) == "DR" \in ctx[c].status /\ ctx[c].ret < ctx[c].size

MSS_UART_get_rx(c) ==
  \/ /\ At(c, "get_rx", "test")
     /\ Goto(c, IF More(c) THEN "rbr" ELSE "ret")
     /\ UNCHANGED <<hardware, control, client, uart, asserted, owed>>
  \/ /\ At(c, "get_rx", "rbr")
     /\ got' = Append(got, IF rxfifo = << >> THEN 0 ELSE Head(rxfifo))
     /\ rxfifo' = IF rxfifo = << >> THEN << >> ELSE Tail(rxfifo)
     /\ Become(c, [ctx[c] EXCEPT !.ret = @ + 1, !.at = "lsr"])
     /\ UNCHANGED <<transmitter, arrived, lsrError, raised, events, control, app, asked,
                    mayTx, rest, uart, asserted, owed>>

(* The sticky status is read, then cleared. *)
MSS_UART_get_rx_status(c) ==
  \/ /\ At(c, "get_rx_status", "test")
     /\ Become(c, [ctx[c] EXCEPT !.ret = IF uart.status THEN 1 ELSE 0, !.at = "clear"])
     /\ owed' = (owed /\ (uart.status => lsrError))
     /\ UNCHANGED <<hardware, control, client, uart, asserted>>
  \/ /\ At(c, "get_rx_status", "clear")
     /\ uart' = [uart EXCEPT !.status = FALSE]
     /\ Goto(c, "ret")
     /\ UNCHANGED <<hardware, control, client, asserted, owed>>

MSS_UART_get_tx_status(c) ==
  /\ At(c, "get_tx_status", "test")
  /\ Goto(c, "ret")
  /\ UNCHANGED <<hardware, control, client, uart, asserted, owed>>

(* Reading MSR clears what it reports. *)
MSS_UART_get_modem_status(c) ==
  /\ At(c, "get_modem_status", "msr")
  /\ raised' = raised \ {"MS"}
  /\ Goto(c, "ret")
  /\ UNCHANGED <<transmitter, receiver, events, control, client, uart, asserted,
                 owed>>

-----------------------------------------------------------------------------
(* The functions that register a handler store it first and enable its     *)
(* source after it, by a bit-band write to IER or IEM.                     *)
Register(c, source) ==
  \/ /\ At(c, "register", "handler") /\ ctx[c].todo = <<source>>
     /\ handler' = [handler EXCEPT ![source] = "user"]
     /\ Goto(c, "enable")
     /\ UNCHANGED <<hardware, ien, nvic, modes, client, asserted, owed>>
  \/ /\ At(c, "register", "enable") /\ ctx[c].todo = <<source>>
     /\ ien' = ien \cup {source} /\ NVIC_EnableIRQ
     /\ Goto(c, "ret")
     /\ UNCHANGED <<hardware, handler, modes, client, uart, asserted, owed>>

MSS_UART_set_rx_handler(c)          == Register(c, "RX")     /\ UNCHANGED uart
MSS_UART_set_rxstatus_handler(c)    == Register(c, "LS")     /\ UNCHANGED uart
MSS_UART_set_modemstatus_handler(c) == Register(c, "MS")     /\ UNCHANGED uart
MSS_UART_set_pidpei_handler(c)      == Register(c, "PIDPE")  /\ UNCHANGED uart
MSS_UART_set_linbreak_handler(c)    == Register(c, "LINB")   /\ UNCHANGED uart
MSS_UART_set_linsync_handler(c)     == Register(c, "LINS")   /\ UNCHANGED uart
MSS_UART_set_nack_handler(c)        == Register(c, "NACK")   /\ UNCHANGED uart
MSS_UART_set_rx_timeout_handler(c)  == Register(c, "RTO")    /\ UNCHANGED uart

(* It drops the buffer of MSS_UART_irq_tx too. *)
MSS_UART_set_tx_handler(c) ==
  /\ Register(c, "THRE")
  /\ uart' = [uart EXCEPT !.tx_buffer = NULL, !.tx_buff_size = 0]

(* IER is read and written back in two steps, IEM with the second: its     *)
(* bits are set by both functions.  The mask is shifted by 8 where the     *)
(* bits start at 4.                                                        *)
MSS_UART_enable_irq(c) ==
  \/ /\ At(c, "enable_irq", "load")
     /\ Become(c, [ctx[c] EXCEPT !.status = ien \ MM, !.at = "store"])
     /\ UNCHANGED <<hardware, control, client, uart, asserted, owed>>
  \/ /\ At(c, "enable_irq", "store")
     /\ ien' = ctx[c].status \cup (ien \cap MM) \cup {ctx[c].todo[1]}
     /\ NVIC_EnableIRQ
     /\ Goto(c, "ret")
     /\ UNCHANGED <<hardware, modes, handler, client, uart, asserted, owed>>

Disabled(ier, irq_mask) ==
  (ier \ irq_mask) \cup (IF "LINS" \in irq_mask THEN MM \ {"RTO"} ELSE MM)

MSS_UART_disable_irq(c) ==
  \/ /\ At(c, "disable_irq", "load")
     /\ Become(c, [ctx[c] EXCEPT !.status = ien \ MM, !.at = "store"])
     /\ UNCHANGED <<hardware, control, client, uart, asserted, owed>>
  \/ /\ At(c, "disable_irq", "store")
     /\ ien' = Disabled(ctx[c].status, {ctx[c].todo[i] : i \in 1 .. Len(ctx[c].todo)})
     /\ nvic' = (nvic /\ Len(ctx[c].todo) # 4)
     /\ Goto(c, "ret")
     /\ UNCHANGED <<hardware, modes, handler, client, uart, asserted, owed>>

MSS_UART_enable_rx_timeout(c) ==
  /\ At(c, "enable_rx_timeout", "mm0")
  /\ modes' = modes \cup {"RTO"}
  /\ Goto(c, "ret")
  /\ UNCHANGED <<hardware, ien, nvic, handler, client, uart, asserted, owed>>

-----------------------------------------------------------------------------
(* MSS_UART_isr calls the handler of what IIR identifies; which of several *)
(* sources that is, the hardware decides.  The handlers an application     *)
(* registers are those of the examples in mss_uart.h.                      *)
Handler(source) ==
  CASE source = "RX"   -> Call("get_rx", "lsr", 0, RxSize)
    [] source = "LS"   -> Call("get_rx_status", "lsr", 0, 0)
    [] source = "MS"   -> Call("get_modem_status", "msr", 0, 0)
    [] source = "THRE" -> IF handler["THRE"] = "default"
                          THEN Call("default_tx", "lsr", 0, 0)
                          ELSE Call("fill_tx_fifo", "lsr", rest.buf, rest.size)

DefaultTxReady == uart.tx_buffer # NULL /\ uart.tx_buff_size > 0

Enter(source) ==
  /\ ctx["isr"].fn = "none" /\ nvic /\ source \in Active
  /\ \/ /\ source \in MM
        /\ Become("isr", [Call("mmi", "iim", 0, 0) EXCEPT !.todo = Multimode])
        /\ UNCHANGED asserted
     \/ /\ source \notin MM
        /\ \/ handler[source] = "user"
           \/ handler[source] = "default" /\ DefaultTxReady
        /\ Become("isr", Handler(source))
        /\ UNCHANGED asserted
     \/ /\ source \notin MM
        /\ \/ handler[source] = "null"
           \/ handler[source] = "default" /\ ~DefaultTxReady
        /\ asserted' = TRUE /\ UNCHANGED ctx
  /\ UNCHANGED <<hardware, control, client, uart, owed>>

(* The multimode sources are looked at one after the other. *)
Identify ==
  /\ At("isr", "mmi", "iim")
  /\ LET source == Head(ctx["isr"].todo)
         served == source \in raised \cap ien /\ handler[source] = "user"
     IN  /\ raised' = IF served THEN raised \ {source} ELSE raised
         /\ asserted' = (asserted \/ (source \in raised \cap ien /\ ~served))
  /\ Become("isr", [ctx["isr"] EXCEPT !.todo = Tail(@),
                                      !.at = IF Len(ctx["isr"].todo) = 1 THEN "ret" ELSE "iim"])
  /\ UNCHANGED <<transmitter, receiver, events, control, client, uart, owed>>

(* The transmit handler of the application, when its filling is over: it   *)
(* goes on with what is left, or disables the interrupt.                   *)
RestAfter(sent) == [buf |-> rest.buf + sent, size |-> rest.size - sent]

UartTxHandler ==
  /\ At("isr", "fill_tx_fifo", "ret")
  /\ LET sent == ctx["isr"].ret
     IN  /\ rest' = RestAfter(sent)
         /\ Become("isr", IF sent = rest.size
                          THEN [Call("disable_irq", "load", 0, 0) EXCEPT !.todo = <<"THRE">>]
                          ELSE NoFrame)
         /\ mayTx' = (mayTx \/ sent = rest.size)
  /\ UNCHANGED <<hardware, control, app, asked, got, uart, asserted, owed>>

Leave ==
  /\ ctx["isr"].at = "ret" /\ ctx["isr"].fn \notin {"none", "fill_tx_fifo"}
  /\ Become("isr", NoFrame)
  /\ UNCHANGED <<hardware, control, client, uart, asserted, owed>>

MSS_UART_isr == (\E source \in Sources : Enter(source)) \/ Identify \/ UartTxHandler \/ Leave

-----------------------------------------------------------------------------
(* The application: it transmits again once it knows that the buffer it    *)
(* gave to MSS_UART_irq_tx or to its own handler is done with, leaves the  *)
(* receiver to its handler when there is one, and turns a mode on behind   *)
(* the handler of its interrupt.                                           *)
Free(fn) == /\ fn \in app.calls /\ ctx["fg"].fn = "none"
            /\ ctx["isr"].fn = "none" /\ ~Interrupted

Begin(fn, f) ==
  /\ Free(fn) /\ Become("fg", f)
  /\ UNCHANGED <<hardware, control, app, uart, asserted, owed, got>>

Transmit ==
  \E n \in Sizes :
    /\ mayTx /\ asked + n <= app.bytes
    /\ \/ /\ Begin("irq_tx", Call("irq_tx", "buffer", asked, n))
          /\ asked' = asked + n /\ mayTx' = FALSE /\ UNCHANGED rest
       \/ /\ \E fn \in {"polled_tx", "polled_tx_string"} :
               Begin(fn, Call(fn, "lsr", asked, n))
          /\ asked' = asked + n /\ UNCHANGED <<mayTx, rest>>
       \/ /\ Begin("fill_tx_fifo", Call("fill_tx_fifo", "lsr", asked, n))
          /\ UNCHANGED <<asked, mayTx, rest>>
       \/ /\ Begin("set_tx_handler", [Call("register", "handler", 0, 0) EXCEPT !.todo = <<"THRE">>])
          /\ rest' = [buf |-> asked, size |-> n]
          /\ asked' = asked + n /\ mayTx' = FALSE

Inquire ==
  /\ \/ /\ handler["THRE"] # "user"
        /\ Begin("tx_complete", Call("tx_complete", "lsr", 0, 0))
     \/ Begin("get_tx_status", Call("get_tx_status", "lsr", 0, 0))
     \/ Begin("get_rx_status", Call("get_rx_status", "lsr", 0, 0))
     \/ /\ handler["RX"] = "null"
        /\ Begin("get_rx", Call("get_rx", "lsr", 0, RxSize))
  /\ UNCHANGED <<asked, mayTx, rest>>

Configure ==
  /\ \/ \E s \in app.registers :
          /\ handler[s] = "null"
          /\ Begin("register", [Call("register", "handler", 0, 0) EXCEPT !.todo = <<s>>])
     \/ \E s \in app.registers \ MM, fn \in {"enable_irq", "disable_irq"} :
          /\ handler[s] = "user" /\ (fn = "enable_irq" <=> s \notin ien)
          /\ Careful => mayTx
          /\ Begin(fn, [Call(fn, "load", 0, 0) EXCEPT !.todo = <<s>>])
     \/ /\ handler["RTO"] = "user" /\ "RTO" \notin modes
        /\ Begin("enable_rx_timeout", Call("enable_rx_timeout", "mm0", 0, 0))
  /\ UNCHANGED <<asked, mayTx, rest>>

Return ==
  /\ Running("fg") /\ ctx["fg"].at = "ret"
  /\ Become("fg", NoFrame)
  /\ mayTx' = (mayTx \/ (ctx["fg"].fn = "tx_complete" /\ ctx["fg"].ret = 1))
  /\ UNCHANGED <<hardware, control, app, asked, rest, got, uart, asserted, owed>>

-----------------------------------------------------------------------------
Step(c) ==
  \/ ReadLsr(c) \/ OrStatus(c)
  \/ MSS_UART_polled_tx(c) \/ MSS_UART_polled_tx_string(c) \/ MSS_UART_fill_tx_fifo(c)
  \/ MSS_UART_irq_tx(c) \/ default_tx_handler(c) \/ MSS_UART_tx_complete(c)
  \/ MSS_UART_get_rx(c) \/ MSS_UART_get_rx_status(c) \/ MSS_UART_get_tx_status(c)
  \/ MSS_UART_get_modem_status(c)
  \/ MSS_UART_set_rx_handler(c) \/ MSS_UART_set_rxstatus_handler(c)
  \/ MSS_UART_set_modemstatus_handler(c) \/ MSS_UART_set_tx_handler(c)
  \/ MSS_UART_set_pidpei_handler(c) \/ MSS_UART_set_linbreak_handler(c)
  \/ MSS_UART_set_linsync_handler(c) \/ MSS_UART_set_nack_handler(c)
  \/ MSS_UART_set_rx_timeout_handler(c) \/ MSS_UART_enable_rx_timeout(c)
  \/ MSS_UART_enable_irq(c) \/ MSS_UART_disable_irq(c)

Next == \/ Step("fg") \/ Return \/ Step("isr") \/ MSS_UART_isr
        \/ Transmit \/ Inquire \/ Configure
        \/ Shift \/ Arrive \/ Raise

Spec == Init /\ [][Next]_vars

(* The processor goes on with the code it is in, interrupts first, and the *)
(* transmitter shifts.                                                     *)
FairSpec == /\ Spec
            /\ WF_vars(Step("fg") \/ Return)
            /\ WF_vars(Step("isr") \/ MSS_UART_isr)
            /\ WF_vars(Shift)

-----------------------------------------------------------------------------
(* MSS_UART_tx_complete says yes only when every byte has left.            *)
TxCompleteMeansSent ==
  ctx["fg"].fn = "tx_complete" /\ ctx["fg"].ret = 1 => Len(line) = asked

(* No ASSERT of the interrupt handler or of default_tx_handler fails: no   *)
(* source is enabled that has no handler, and the transmit interrupt not   *)
(* without something to send.                                              *)
AssertsHold == ~asserted

(* An error read from LSR is in the sticky record, or on its way there,    *)
(* until MSS_UART_get_rx_status returns it.                                *)
ErrorsKept ==
  owed => \/ lsrError \/ uart.status
          \/ \E c \in DOMAIN ctx :
               ctx[c].at = "or" /\ (ctx[c].old \/ "ERR" \in ctx[c].status)

(* Received bytes are read in order, unless one found the FIFO full.       *)
ReceivedInOrder ==
  \A i, j \in 1 .. Len(got) : i < j => 0 < got[i] /\ got[i] < got[j]

(* With a registered handler no byte stays in the receiver.                *)
ReceptionServed == (rxfifo # << >> /\ "RX" \in ien) ~> (rxfifo = << >> \/ "RX" \notin ien)

(* The transmitter implements the abstract stream. *)
Stream == INSTANCE ByteStream
ImplementsStream == Stream!StreamSpec

=============================================================================
