------------------------------- MODULE Comblk -------------------------------
(***************************************************************************)
(* The COMM_BLK driver of drivers/mss_sys_services/mss_comblk.c: commands  *)
(* to the System Controller through a transmit FIFO, responses and         *)
(* asynchronous events from a receive FIFO, one interrupt handler.         *)
(*                                                                         *)
(* The functions that send mask the interrupt and are one step each; they  *)
(* block while the FIFO takes no opcode (the polling of TXTOKAY).  The     *)
(* handler reads STATUS once and serves reception, then transmission: it   *)
(* is one step or two, and the foreground does not run in between.         *)
(*                                                                         *)
(* Callbacks leave through `called` and `event`, which hold what the last  *)
(* step called; module SysServices adds what the callbacks do.             *)
(* Every caller passes p_data = 0 to MSS_COMBLK_send_cmd, so that          *)
(* COMBLK_TX_DATA is never entered and is left out.                        *)
(***************************************************************************)
EXTENDS Naturals, Sequences

CONSTANTS Depths,       \* items the transmit FIFO may hold: the source does not say
          MaxPage,      \* longest page the page handler returns
          Buffers       \* response buffers of the callers

POR == 241              \* POR_DIGEST_ERROR_OPCODE

ASSUME DepthAssumption == Depths \subseteq Nat \ {0}
ASSUME PageAssumption  == MaxPage \in Nat \ {0}
ASSUME BufferAssumption == {"g_response", "g_isp_response", "stack"} \subseteq Buffers

VARIABLES state,                \* g_comblk_state
          cmd_opcode, p_cmd, cmd_size,   \* p_cmd: index of the next byte
          data_size,            \* bytes left of the current page
          p_response, response_size, response_idx,
          completion_handler, page_handler, request_in_progress,
          INT_ENABLE,           \* subset of {"TXTOKAY", "RCVOKAY"}
          isr,                  \* "tx": the handler has transmission to serve
          mem,                  \* contents of the response buffers
          txf, rxf,             \* the FIFOs
          depth,                \* items txf holds, for good
          called,               \* completion call of the last step
          event                 \* opcode given to the event handler, or 0

request  == <<cmd_opcode, response_size, page_handler>>
transmit == <<p_cmd, cmd_size, data_size>>
receive  == <<p_response, response_idx, mem>>
complete == <<completion_handler, request_in_progress, called>>
comblk   == <<state, request, transmit, receive, complete, INT_ENABLE, isr,
              txf, rxf, depth, event>>

NoCall == [handler |-> "none", buffer |-> "g_response", length |-> 0]

Init ==
  /\ state = "IDLE"
  /\ cmd_opcode = 0 /\ p_cmd = 0 /\ cmd_size = 0 /\ data_size = 0
  /\ p_response = "g_response" /\ response_size = 0 /\ response_idx = 0
  /\ completion_handler = "none" /\ page_handler = FALSE
  /\ request_in_progress = FALSE
  /\ INT_ENABLE = {"RCVOKAY"} /\ isr = "out"
  /\ mem = [b \in Buffers |-> [i \in 0 .. 5 |-> 0]]
  /\ txf = << >> /\ depth \in Depths
  /\ called = NoCall /\ event = 0

-----------------------------------------------------------------------------
NoCompletion ==
  /\ called' = NoCall
  /\ UNCHANGED <<completion_handler, request_in_progress>>

(* complete_request: the handler is called, then forgotten. *)
CompleteRequest(length) ==
  IF completion_handler = "none" THEN NoCompletion
  ELSE /\ called' = [handler |-> completion_handler, buffer |-> p_response,
                     length |-> length]
       /\ completion_handler' = "none"
       /\ request_in_progress' = FALSE

(* abort_current_cmd completes the request under way as it stands and      *)
(* flushes what is left of it in the FIFO.                                 *)
Aborted == IF request_in_progress /\ completion_handler # "none"
           THEN [handler |-> completion_handler, buffer |-> p_response,
                 length |-> response_idx]
           ELSE NoCall
Unsent == IF request_in_progress THEN << >> ELSE txf

(* fill_tx_fifo: as many of the items as the FIFO takes. *)
Lesser(m, n)   == IF m < n THEN m ELSE n

Fill(fifo, xs) == fifo \o SubSeq(xs, 1, Lesser(depth - Len(fifo), Len(xs)))
Sent(fifo, n)  == Lesser(depth - Len(fifo), n)

(* Mutant: the rest of a command starts at its opcode again. *)
CmdBytesAgain(from, n) == [i \in 1 .. n |-> <<"byte", i - 1>>]

CmdBytes(from, n) == [i \in 1 .. n |-> <<"byte", from + i - 1>>]
PageBytes(n)      == [i \in 1 .. n |-> <<"page", 0>>]

(* It waits for room: there is room when the request is made. *)
send_cmd_opcode(fifo, op) == Append(fifo, <<"start", op>>)

(* What the three senders have in common. *)
NewRequest(op, buffer, size, handler) ==
  /\ isr = "out" /\ Len(Unsent) < depth
  /\ called' = Aborted /\ event' = 0
  /\ request_in_progress' = TRUE
  /\ cmd_opcode' = op
  /\ p_response' = buffer /\ response_size' = size /\ response_idx' = 0
  /\ completion_handler' = handler
  /\ data_size' = 0
  /\ UNCHANGED <<isr, mem, rxf, depth>>

SendCmdWithPtr(op, buffer, size, handler) ==
  /\ NewRequest(op, buffer, size, handler)
  /\ Len(Unsent) + 1 < depth
  /\ p_cmd' = 0 /\ cmd_size' = 0 /\ page_handler' = FALSE
  /\ txf' = Append(send_cmd_opcode(Unsent, op), <<"ptr", 0>>)
  /\ state' = "WAIT_RESPONSE"
  /\ INT_ENABLE' = {"RCVOKAY"}

(* The opcode and the bytes 1 .. n - 1 of a command; `then` when they fit. *)
SendBytes(op, n, then) ==
  LET fifo == send_cmd_opcode(Unsent, op)
      k    == 1 + Sent(fifo, n - 1)
  IN  /\ txf' = Fill(fifo, CmdBytes(1, n - 1))
      /\ IF k < n THEN state' = "TX_CMD" /\ cmd_size' = n - k /\ p_cmd' = k
                  ELSE state' = then /\ cmd_size' = 0 /\ p_cmd' = 0

SendCmd(op, n, buffer, size, handler) ==
  /\ NewRequest(op, buffer, size, handler)
  /\ SendBytes(op, n, "WAIT_RESPONSE")
  /\ page_handler' = FALSE
  /\ INT_ENABLE' = {"RCVOKAY"}

(* Mutant: the transmit interrupt is not enabled. *)
SendPagedCmdSilent(op, n, buffer, size, handler) ==
  /\ NewRequest(op, buffer, size, handler)
  /\ SendBytes(op, n, "TX_PAGED_DATA")
  /\ page_handler' = TRUE
  /\ INT_ENABLE' = {"RCVOKAY"}

SendPagedCmd(op, n, buffer, size, handler) ==
  /\ NewRequest(op, buffer, size, handler)
  /\ SendBytes(op, n, "TX_PAGED_DATA")
  /\ page_handler' = TRUE
  /\ INT_ENABLE' = {"TXTOKAY", "RCVOKAY"}

-----------------------------------------------------------------------------
(* handle_rx_okay_irq, on the item r that it has taken from the FIFO. *)
Store(i, v) == mem' = [mem EXCEPT ![p_response][i] = v]

Notify(r) == event' = r.byte /\ NoCompletion /\ UNCHANGED <<state, receive>>
Drop      == event' = 0 /\ NoCompletion /\ UNCHANGED <<state, receive>>

RxIdle(r) ==
  /\ state = "IDLE"
  /\ IF r.cmd /\ r.byte = POR
     THEN /\ mem' = [mem EXCEPT ![p_response][0] = POR, ![p_response][1] = 0]
          /\ response_idx' = 1 /\ state' = "RX_RESPONSE"
          /\ event' = 0 /\ NoCompletion /\ UNCHANGED p_response
     ELSE IF r.cmd THEN Notify(r) ELSE Drop

(* Mutant: any command byte is taken for the opcode of the response. *)
RxAnyResponse(r) ==
  /\ state = "WAIT_RESPONSE"
  /\ IF r.cmd
     THEN /\ Store(0, r.byte)
          /\ response_idx' = 1 /\ state' = "RX_RESPONSE"
          /\ event' = 0 /\ NoCompletion /\ UNCHANGED p_response
     ELSE Drop

RxWaitResponse(r) ==
  /\ state = "WAIT_RESPONSE"
  /\ IF r.cmd /\ r.byte = cmd_opcode
     THEN /\ Store(0, r.byte)
          /\ response_idx' = 1 /\ state' = "RX_RESPONSE"
          /\ event' = 0 /\ NoCompletion /\ UNCHANGED p_response
     ELSE IF r.cmd THEN Notify(r) ELSE Drop

(* A byte behind one that reads POR is taken for the error flags. *)
RxDigestError(r) ==
  /\ state = "RX_RESPONSE" /\ ~r.cmd
  /\ mem[p_response][response_idx - 1] = POR
  /\ Store(response_idx, r.byte)
  /\ event' = POR
  /\ state' = "IDLE"
  /\ NoCompletion
  /\ UNCHANGED <<p_response, response_idx>>

RxResponse(r) ==
  /\ state = "RX_RESPONSE" /\ ~r.cmd
  /\ mem[p_response][response_idx - 1] # POR
  /\ IF response_idx < response_size
     THEN Store(response_idx, r.byte) /\ response_idx' = response_idx + 1
     ELSE UNCHANGED <<mem, response_idx>>
  /\ IF response_idx' = response_size
     THEN CompleteRequest(response_idx') /\ state' = "IDLE"
     ELSE NoCompletion /\ UNCHANGED state
  /\ event' = 0 /\ UNCHANGED p_response

(* In the midst of a bitstream any byte ends the request. *)
RxPaged(r) ==
  /\ state = "TX_PAGED_DATA" /\ ~r.cmd
  /\ Store(1, r.byte)
  /\ CompleteRequest(2)
  /\ state' = "IDLE"
  /\ event' = 0 /\ UNCHANGED <<p_response, response_idx>>

RxEvent(r) ==
  /\ state \in {"RX_RESPONSE", "TX_PAGED_DATA", "TX_CMD"} /\ r.cmd
  /\ Notify(r)

HandleRx(r) == \/ RxIdle(r) \/ RxWaitResponse(r) \/ RxDigestError(r)
               \/ RxResponse(r) \/ RxPaged(r) \/ RxEvent(r)

-----------------------------------------------------------------------------
(* handle_tx_okay_irq.  A page handler that has no more data returns 0;    *)
(* `page` is what it returns.                                              *)
TxCmd ==
  /\ state = "TX_CMD"
  /\ txf' = Fill(txf, CmdBytes(p_cmd, cmd_size))
  /\ LET k == Sent(txf, cmd_size)
     IN  IF k < cmd_size
         THEN cmd_size' = cmd_size - k /\ p_cmd' = p_cmd + k /\ state' = state
         ELSE cmd_size' = 0 /\ state' = "WAIT_RESPONSE" /\ p_cmd' = p_cmd
  /\ NoCompletion
  /\ UNCHANGED <<data_size, INT_ENABLE>>

TxPage(page) ==
  /\ state = "TX_PAGED_DATA"
  /\ LET left == IF data_size = 0 THEN page ELSE data_size
     IN  IF left = 0
         THEN /\ state' = "WAIT_RESPONSE"
              /\ INT_ENABLE' = INT_ENABLE \ {"TXTOKAY"}
              /\ data_size' = 0 /\ UNCHANGED txf
         ELSE /\ txf' = Fill(txf, PageBytes(left))
              /\ data_size' = left - Sent(txf, left)
              /\ UNCHANGED <<state, INT_ENABLE>>
  /\ NoCompletion
  /\ UNCHANGED <<p_cmd, cmd_size>>

(* Not meant to happen: the transmit interrupt in another state. *)
TxUnexpected ==
  /\ state \in {"IDLE", "WAIT_RESPONSE", "RX_RESPONSE"}
  /\ INT_ENABLE' = INT_ENABLE \ {"TXTOKAY"}
  /\ CompleteRequest(0)
  /\ state' = "IDLE"
  /\ UNCHANGED <<transmit, txf>>

HandleTx(page) == TxCmd \/ TxPage(page) \/ TxUnexpected

-----------------------------------------------------------------------------
(* ComBlk_IRQHandler. *)
RxOkay == "RCVOKAY" \in INT_ENABLE /\ rxf # << >>
TxOkay == "TXTOKAY" \in INT_ENABLE /\ Len(txf) < depth

IrqReceive ==
  /\ isr = "out" /\ RxOkay
  /\ isr' = IF TxOkay THEN "tx" ELSE "out"
  /\ rxf' = Tail(rxf)
  /\ HandleRx(Head(rxf))
  /\ UNCHANGED <<request, transmit, INT_ENABLE, txf, depth>>

IrqTransmit(page) ==
  /\ \/ isr = "tx"
     \/ isr = "out" /\ ~RxOkay /\ TxOkay
  /\ isr' = "out"
  /\ event' = 0
  /\ HandleTx(page)
  /\ UNCHANGED <<request, receive, rxf, depth>>

=============================================================================
