---------------------------- MODULE SysServices ----------------------------
(***************************************************************************)
(* The System Services driver of mss_sys_services.c on top of the COMM_BLK *)
(* driver, and the System Controller at the other end (external).          *)
(*                                                                         *)
(* The foreground calls one service after the other.  A service waits for  *)
(* g_request_in_progress of the previous one, sends its command, waits for *)
(* its completion and compares the length and the opcode of the response;  *)
(* MSS_SYS_start_isp returns as soon as its command is sent.  The services *)
(* differ in what they send and expect, which is what a record of Services *)
(* says: [op, how, size, length], how being "ptr" (execute_service),       *)
(* "cmd" (MSS_COMBLK_send_cmd) or "paged" (MSS_SYS_start_isp).             *)
(***************************************************************************)
EXTENDS Comblk

CONSTANTS Services,     \* the services the foreground calls
          Status,       \* status bytes the controller answers
          Payload,      \* what follows the status in longer responses
          PorFlags,     \* error flags of the power-on digest message
          Tampers,      \* opcodes of one-byte asynchronous messages
          RxDepth, MaxPages, MaxEvents,  \* bounds: FIFO, bitstream, messages
          Patient,      \* the first call waits for power-on messages
          Orderly       \* the controller answers a bitstream behind its end, or
                        \* ahead of it, with the FIFO full, and then takes
                        \* nothing from it before the answer has been read

Items(s) == IF s.how = "ptr" THEN 2 ELSE s.size

(* An opcode stands for commands of one length, and is none of a message;  *)
(* every response holds the opcode and a status.                           *)
ASSUME ServicesAssumption ==
  /\ \A s \in Services : /\ s.op \in Nat \ (Tampers \cup {POR})
                         /\ s.how \in {"ptr", "cmd", "paged"}
                         /\ s.size \in Nat \ {0} /\ s.length \in Nat \ {0, 1}
  /\ \A s, t \in Services : s.op = t.op => Items(s) = Items(t)
  /\ (Status \cup Payload \cup PorFlags \cup Tampers) \subseteq Nat
  /\ POR \notin Tampers /\ MaxPages \in Nat

VARIABLES pc, svc,              \* the foreground: where it is, in which call
          busy,                 \* g_request_in_progress of mss_sys_services.c
          last_response_length,
          result,               \* what the last service returned
          frame,                \* items of the command the controller has
          reply,                \* items of its answer it has yet to send
          answered,             \* status byte of its last answer
          ispDone,              \* isp_completion_handler has been called
          flags,                \* error flags given with POR, -1 before
          pages, events         \* pages and messages left

foreground == <<pc, svc, result>>
controller == <<frame, reply, answered, events>>
handlers   == <<busy, last_response_length, ispDone, flags>>
services   == <<comblk, foreground, handlers, controller, pages>>

ERROR   == 256          \* MSS_SYS_UNEXPECTED_ERROR
NONE    == 257          \* no result, no answer yet
NoFlags == 258

(* What the digest check at power-up may have left in the receive FIFO. *)
PowerOn(f) == <<[cmd |-> TRUE, byte |-> POR], [cmd |-> FALSE, byte |-> f]>>

ServicesInit ==
  /\ Init
  /\ rxf \in {<< >>} \cup {PowerOn(f) : f \in PorFlags}
  /\ pc = "idle" /\ svc \in Services /\ result = NONE
  /\ busy = FALSE /\ last_response_length = 0 /\ ispDone = TRUE
  /\ flags = NoFlags
  /\ frame = << >> /\ reply = << >> /\ answered = NONE
  /\ pages = 0 /\ events = MaxEvents

-----------------------------------------------------------------------------
(* The callbacks: request_completion_handler, isp_sys_completion_handler   *)
(* and asynchronous_event_handler, which hands on g_response[1].           *)
(* Mutant: request_completion_handler leaves g_request_in_progress set. *)
CompletedStillBusy ==
  IF called'.handler = "request"
  THEN last_response_length' = called'.length /\ UNCHANGED busy
  ELSE UNCHANGED <<busy, last_response_length>>

RequestCompleted ==
  IF called'.handler = "request"
  THEN busy' = FALSE /\ last_response_length' = called'.length
  ELSE UNCHANGED <<busy, last_response_length>>

Callbacks ==
  /\ RequestCompleted
  /\ ispDone' = (ispDone \/ called'.handler = "isp")
  /\ flags' = IF event' = POR THEN mem'["g_response"][1] ELSE flags

Irq ==
  /\ \/ IrqReceive /\ UNCHANGED pages
     \/ \E page \in 1 .. MaxPage :
          /\ pages > 0
          /\ IrqTransmit(page)
          /\ pages' = IF state = "TX_PAGED_DATA" /\ data_size = 0
                      THEN pages - 1 ELSE pages
     \/ pages = 0 /\ IrqTransmit(0) /\ UNCHANGED pages
  /\ Callbacks
  /\ UNCHANGED <<foreground, controller>>

-----------------------------------------------------------------------------
(* A service is called. *)
Call ==
  /\ isr = "out" /\ pc = "idle"
  /\ Patient => rxf = << >> /\ state # "RX_RESPONSE"
  /\ svc' \in Services
  /\ pc' = "start"
  /\ UNCHANGED <<comblk, result, handlers, controller, pages>>

(* signal_request_start, once the previous request is over. *)
SignalRequestStart ==
  /\ isr = "out" /\ pc = "start" /\ ~busy
  /\ busy' = TRUE /\ last_response_length' = 0
  /\ pc' = "send"
  /\ UNCHANGED <<comblk, svc, result, ispDone, flags, controller, pages>>

Send ==
  /\ pc = "send"
  /\ \/ /\ svc.how = "ptr"
        /\ SendCmdWithPtr(svc.op, "stack", svc.length, "request")
     \/ /\ svc.how = "cmd"
        /\ SendCmd(svc.op, svc.size, "stack", svc.length, "request")
  /\ Callbacks
  /\ pc' = "wait"
  /\ UNCHANGED <<svc, result, controller, pages>>

(* MSS_SYS_start_isp: its request is under way when it returns. *)
StartIsp ==
  /\ pc = "send" /\ svc.how = "paged"
  /\ SendPagedCmd(svc.op, svc.size, "g_isp_response", svc.length, "isp")
  /\ pages' \in 0 .. MaxPages
  /\ RequestCompleted /\ ispDone' = FALSE
  /\ pc' = "idle"
  /\ UNCHANGED <<svc, result, flags, controller>>

(* Mutant: the response is checked without waiting for it. *)
ReturnUnwaited ==
  /\ isr = "out" /\ pc = "wait"
  /\ result' = IF last_response_length = svc.length /\ mem["stack"][0] = svc.op
               THEN mem["stack"][1] ELSE ERROR
  /\ pc' = "idle"
  /\ UNCHANGED <<comblk, svc, handlers, controller, pages>>

(* wait_for_request_completion and the check of the response. *)
Return ==
  /\ isr = "out" /\ pc = "wait" /\ ~busy
  /\ result' = IF last_response_length = svc.length /\ mem["stack"][0] = svc.op
               THEN mem["stack"][1] ELSE ERROR
  /\ pc' = "idle"
  /\ UNCHANGED <<comblk, svc, handlers, controller, pages>>

-----------------------------------------------------------------------------
(* The System Controller: takes a command, then answers with its opcode as *)
(* a command byte and the other bytes of the response as data.             *)
Take ==
  /\ txf # << >> /\ (Orderly => reply = << >> /\ rxf = << >>)
  /\ txf' = Tail(txf)
  /\ LET item == Head(txf)
     IN  frame' = IF item[1] = "start" THEN <<item>>
                  ELSE IF item[1] = "page" THEN frame
                  ELSE Append(frame, item)
  /\ UNCHANGED <<state, request, transmit, receive, complete, INT_ENABLE, isr,
                 rxf, depth, event, foreground, handlers, reply, answered, events,
                 pages>>

Answer ==
  /\ frame # << >> /\ reply = << >>
  /\ \E s \in Services, b \in Status, p \in Payload :
       /\ frame[1][2] = s.op /\ Len(frame) = Items(s)
       /\ Orderly /\ s.how = "paged" =>
            Len(txf) = IF state = "TX_PAGED_DATA" THEN depth ELSE 0
       /\ answered' = b
       /\ reply' = << [cmd |-> TRUE, byte |-> s.op], [cmd |-> FALSE, byte |-> b] >>
                   \o [i \in 1 .. s.length - 2 |-> [cmd |-> FALSE, byte |-> p]]
  /\ frame' = << >>
  /\ UNCHANGED <<comblk, foreground, handlers, events, pages>>

Push ==
  /\ reply # << >> /\ Len(rxf) < RxDepth
  /\ rxf' = Append(rxf, Head(reply)) /\ reply' = Tail(reply)
  /\ UNCHANGED <<state, request, transmit, receive, complete, INT_ENABLE, isr,
                 txf, depth, event, foreground, handlers, frame, answered, events,
                 pages>>

Message ==
  /\ events > 0 /\ Len(rxf) < RxDepth
  /\ \E t \in Tampers : rxf' = Append(rxf, [cmd |-> TRUE, byte |-> t])
  /\ events' = events - 1
  /\ UNCHANGED <<state, request, transmit, receive, complete, INT_ENABLE, isr,
                 txf, depth, event, foreground, handlers, frame, reply, answered,
                 pages>>

-----------------------------------------------------------------------------
ServicesNext == \/ Irq \/ Call \/ SignalRequestStart \/ Send \/ StartIsp \/ Return
                \/ Take \/ Answer \/ Push \/ Message

ServicesSpec == ServicesInit /\ [][ServicesNext]_services

(* The processor takes its interrupts and runs the service it is in; the   *)
(* controller serves its FIFOs and answers what it is asked.               *)
FairServicesSpec ==
  /\ ServicesSpec
  /\ WF_services(Irq) /\ WF_services(SignalRequestStart)
  /\ WF_services(Send) /\ WF_services(StartIsp) /\ WF_services(Return)
  /\ WF_services(Take) /\ WF_services(Answer) /\ WF_services(Push)

-----------------------------------------------------------------------------
(* The controller gets the command that was called: the bytes behind the   *)
(* opcode in their order, none lost between the two parts of the driver    *)
(* that fill the FIFO.                                                     *)
FrameIntact ==
  frame # << >> =>
    \E s \in Services :
      /\ frame[1] = <<"start", s.op>>
      /\ \A i \in 2 .. Len(frame) :
           frame[i] = IF s.how = "ptr" THEN <<"ptr", 0>> ELSE <<"byte", i - 1>>

(* A service returns the status the controller answered to it, whatever    *)
(* messages arrive between the bytes of the response.                      *)
ResultIsAnswer ==
  [][pc = "wait" /\ pc' = "idle" => result' = answered]_services

(* The interrupt handler writes to the response buffer on the stack of a   *)
(* service only while that service waits, and to the buffer of ISP only    *)
(* while ISP is under way.                                                 *)
OnlyLiveBuffers ==
  [][/\ mem'["stack"] # mem["stack"] => pc = "wait"
     /\ mem'["g_isp_response"] # mem["g_isp_response"] => ~ispDone]_services

(* Every service that finds the driver free returns: the one in front of   *)
(* it has been completed and was no in-system programming, and the FIFO    *)
(* holds its command.                                                      *)
CallsReturn == (pc = "start" /\ ~busy /\ Items(svc) <= depth) ~> pc = "idle"

(* The completion handler given to MSS_SYS_start_isp is called. *)
IspCompletes == ~ispDone ~> ispDone

=============================================================================
