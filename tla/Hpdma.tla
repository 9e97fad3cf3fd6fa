------------------------------- MODULE Hpdma -------------------------------
(***************************************************************************)
(* The peripheral DMA driver of drivers/mss_hpdma/mss_hpdma.c and the DMA  *)
(* engine (external).  A transfer is cut into chunks of at most Max words; *)
(* MSS_HPDMA_start fills up to N descriptors, and each completion          *)
(* interrupt hands the next chunk to a descriptor.                         *)
(*                                                                         *)
(* The engine serves the descriptors in the order in which they were made  *)
(* valid, which is what the driver relies on when it counts completions in *)
(* g_hpdma_current_desc.  The two handlers do not preempt each other; of   *)
(* two that are pending HPDMA_Complete_IRQn, 27, comes before              *)
(* HPDMA_Error_IRQn, 28 (CMSIS/m2sxxx.h:67).  The foreground runs when     *)
(* neither is pending, and MSS_HPDMA_start and MSS_HPDMA_abort are         *)
(* interrupted between any two descriptors.  The HPDMACR_DCP_CLR bit       *)
(* empties its descriptor.  Slow: no chunk is moved while MSS_HPDMA_start  *)
(* runs, and none whose forerunner has been cleared while MSS_HPDMA_abort  *)
(* does.                                                                   *)
(***************************************************************************)
EXTENDS Integers, Sequences

CONSTANTS Max,          \* MAX_SIZE_PER_DMA_XFR
          Sizes,        \* transfer_size
          Src, Dst,     \* src_addr, dest_addr
          Slow          \* the engine is slower than MSS_HPDMA_start and _abort

ASSUME MaxAssumption   == Max \in Nat \ {0}
ASSUME SizesAssumption == Sizes \subseteq Nat \ {0}
ASSUME AddrAssumption  == Src \in Nat /\ Dst \in Nat

N == 4                  \* NO_OF_HPDMA_DESCRIPTORS
Descriptors == 0 .. N - 1
Errors == {"SOURCE_ERROR", "DESTINATION_ERROR", "WORD_ALIGN_ERROR"}

VARIABLES state, handler, xfr_size, src_addr, des_addr,   \* g_transfer
          end_desc, current_desc,
          pc, total,            \* MSS_HPDMA_start: where it is, total_desc
          inc,                  \* MSS_HPDMA_abort: descriptors cleared
          dcp,                  \* the descriptors
          queue,                \* those the engine has to serve
          done,                 \* descriptors with a completion interrupt
          fault,                \* error the engine has stopped at, or "none"
          size,                 \* words of the transfer
          moved, stray,         \* words moved in order; any other was moved
          reported              \* told to the handler of this transfer

g_transfer == <<state, handler, xfr_size, src_addr, des_addr>>
engine     == <<dcp, queue, done, fault>>
history    == <<size, moved, stray, reported>>
hpdma == <<g_transfer, end_desc, current_desc, pc, total, inc, engine, history>>

Empty(paused) ==
  [src |-> 0, dst |-> 0, len |-> 0, irq |-> FALSE, pause |-> paused]

(* The state that MSS_HPDMA_init leaves. *)
Init ==
  /\ state = "COMPLETED" /\ handler = FALSE
  /\ xfr_size = 0 /\ src_addr = 0 /\ des_addr = 0
  /\ end_desc = 0 /\ current_desc = 0 /\ pc = "idle" /\ total = 0 /\ inc = 0
  /\ dcp = [i \in Descriptors |-> Empty(TRUE)]
  /\ queue = << >> /\ done = {} /\ fault = "none"
  /\ size = 0 /\ moved = 0 /\ stray = FALSE /\ reported = "none"

CompletePending == \E i \in done : dcp[i].irq
ErrorPending    == fault # "none" /\ dcp[Head(queue)].irq
Foreground      == ~CompletePending /\ ~ErrorPending

-----------------------------------------------------------------------------
(* Mutant: the destination does not advance. *)
StartTransferInPlace(d, regs) ==
  /\ dcp' = IF d \notin Descriptors THEN regs ELSE
            [regs EXCEPT ![d] = [src |-> src_addr, dst |-> des_addr,
               len |-> IF xfr_size \in 1 .. Max THEN xfr_size ELSE Max,
               irq |-> TRUE, pause |-> FALSE]]
  /\ queue' = IF d \notin Descriptors \/ \E k \in 1 .. Len(queue) : queue[k] = d
              THEN queue ELSE Append(queue, d)
  /\ IF xfr_size > Max
     THEN /\ xfr_size' = xfr_size - Max
          /\ src_addr' = src_addr + Max /\ UNCHANGED des_addr
     ELSE xfr_size' = 0 /\ UNCHANGED <<src_addr, des_addr>>

(* Mutant: the size field is not cleared ahead of a full chunk. *)
StartTransferUnmasked(d, regs) ==
  /\ dcp' = IF d \notin Descriptors THEN regs ELSE
            [regs EXCEPT ![d] = [src |-> src_addr, dst |-> des_addr,
               len |-> IF xfr_size \in 1 .. Max THEN xfr_size
                       ELSE IF regs[d].len > 0 THEN regs[d].len ELSE Max,
               irq |-> TRUE, pause |-> FALSE]]
  /\ queue' = IF d \notin Descriptors \/ \E k \in 1 .. Len(queue) : queue[k] = d
              THEN queue ELSE Append(queue, d)
  /\ IF xfr_size > Max
     THEN /\ xfr_size' = xfr_size - Max
          /\ src_addr' = src_addr + Max /\ des_addr' = des_addr + Max
     ELSE xfr_size' = 0 /\ UNCHANGED <<src_addr, des_addr>>

(* start_transfer.  The size field has 16 bits and holds 0 for a full      *)
(* chunk; the engine moves as much when the driver has nothing to move.    *)
(* Descriptor[N] is no descriptor: what is written there moves nothing.    *)
StartTransfer(d, regs) ==
  /\ dcp' = IF d \notin Descriptors THEN regs ELSE
            [regs EXCEPT ![d] = [src |-> src_addr, dst |-> des_addr,
               len |-> IF xfr_size \in 1 .. Max THEN xfr_size ELSE Max,
               irq |-> TRUE, pause |-> FALSE]]
  /\ queue' = IF d \notin Descriptors \/ \E k \in 1 .. Len(queue) : queue[k] = d
              THEN queue ELSE Append(queue, d)
  /\ IF xfr_size > Max
     THEN /\ xfr_size' = xfr_size - Max
          /\ src_addr' = src_addr + Max /\ des_addr' = des_addr + Max
     ELSE xfr_size' = 0 /\ UNCHANGED <<src_addr, des_addr>>

(* Mutant: the number of chunks is rounded down. *)
StartRoundedDown ==
  /\ pc = "idle" /\ Foreground
  /\ state # "IN_PROGRESS"
  /\ \E n \in Sizes : xfr_size' = n /\ size' = n /\ total' = n \div Max
  /\ src_addr' = Src /\ des_addr' = Dst
  /\ current_desc' = 0 /\ end_desc' = 0
  /\ state' = "IN_PROGRESS"
  /\ pc' = "start"
  /\ moved' = 0 /\ stray' = FALSE /\ reported' = "none"
  /\ UNCHANGED <<handler, inc, engine>>

(* MSS_HPDMA_start. *)
Start ==
  /\ pc = "idle" /\ Foreground
  /\ state # "IN_PROGRESS"
  /\ \E n \in Sizes : xfr_size' = n /\ size' = n /\ total' = (n - 1) \div Max + 1
  /\ src_addr' = Src /\ des_addr' = Dst
  /\ current_desc' = 0 /\ end_desc' = 0
  /\ state' = "IN_PROGRESS"
  /\ pc' = "start"
  /\ moved' = 0 /\ stray' = FALSE /\ reported' = "none"
  /\ UNCHANGED <<handler, inc, engine>>

StartOne ==
  /\ pc = "start" /\ Foreground
  /\ IF end_desc < total /\ end_desc < N
     THEN StartTransfer(end_desc, dcp) /\ pc' = "count"
     ELSE pc' = "idle" /\ UNCHANGED <<dcp, queue, xfr_size, src_addr, des_addr>>
  /\ UNCHANGED <<state, handler, end_desc, current_desc, total, inc, done, fault,
                 history>>

CountOne ==
  /\ pc = "count" /\ Foreground
  /\ end_desc' = end_desc + 1
  /\ pc' = "start"
  /\ UNCHANGED <<g_transfer, current_desc, total, inc, engine, history>>

Pause(on) ==
  /\ pc = "idle" /\ Foreground
  /\ dcp' = [dcp EXCEPT ![current_desc].pause = on]
  /\ UNCHANGED <<g_transfer, end_desc, current_desc, pc, total, inc, queue, done,
                 fault, history>>

(* The queue without descriptor d, which is in it at most once. *)
Without(d) ==
  IF \E k \in 1 .. Len(queue) : queue[k] = d
  THEN LET at == CHOOSE k \in 1 .. Len(queue) : queue[k] = d
       IN  [k \in 1 .. Len(queue) - 1 |-> IF k < at THEN queue[k] ELSE queue[k + 1]]
  ELSE queue

(* A turn of the loop of MSS_HPDMA_abort; the chunk of the descriptor is   *)
(* dropped.                                                                *)
AbortOne ==
  /\ pc \in {"idle", "abort"} /\ Foreground /\ inc < N
  /\ dcp' = [dcp EXCEPT ![inc] = Empty(FALSE)]
  /\ queue' = Without(inc)
  /\ fault' = IF fault # "none" /\ Head(queue) = inc THEN "none" ELSE fault
  /\ inc' = inc + 1 /\ pc' = "abort"
  /\ UNCHANGED <<g_transfer, end_desc, current_desc, total, done, history>>

Abort ==
  /\ pc = "abort" /\ Foreground /\ inc = N
  /\ state' = "COMPLETED"
  /\ inc' = 0 /\ pc' = "idle"
  /\ UNCHANGED <<handler, xfr_size, src_addr, des_addr, end_desc, current_desc,
                 total, engine, history>>

AbortLoop == pc = "abort" /\ (AbortOne \/ Abort)

SetHandler ==
  /\ pc = "idle" /\ Foreground
  /\ handler' \in BOOLEAN
  /\ UNCHANGED <<state, xfr_size, src_addr, des_addr, end_desc, current_desc,
                 pc, total, inc, engine, history>>

-----------------------------------------------------------------------------
Report(status) == reported' = IF handler THEN status ELSE reported

Freed == [dcp EXCEPT ![current_desc].irq = FALSE]
Following == IF current_desc + 1 = N THEN 0 ELSE current_desc + 1

(* HPDMA_Complete_IRQHandler. *)
HandNextChunk ==
  /\ xfr_size > 0
  /\ current_desc' = Following
  /\ end_desc' = IF end_desc = N THEN 0 ELSE end_desc + 1
  /\ StartTransfer(end_desc', Freed)
  /\ UNCHANGED <<state, reported>>

(* Mutant: current_desc stays behind. *)
AwaitOthersStill ==
  /\ xfr_size = 0 /\ Freed[Following].irq
  /\ dcp' = Freed
  /\ UNCHANGED <<state, xfr_size, src_addr, des_addr, end_desc, current_desc,
                 queue, reported>>

AwaitOthers ==
  /\ xfr_size = 0 /\ Freed[Following].irq
  /\ current_desc' = Following
  /\ dcp' = Freed
  /\ UNCHANGED <<state, xfr_size, src_addr, des_addr, end_desc, queue, reported>>

Finish ==
  /\ xfr_size = 0 /\ ~Freed[Following].irq
  /\ current_desc' = 0 /\ end_desc' = 0
  /\ dcp' = Freed
  /\ state' = "COMPLETED" /\ Report("COMPLETED")
  /\ UNCHANGED <<xfr_size, src_addr, des_addr, queue>>

CompleteIrq ==
  /\ CompletePending
  /\ done' = done \ {current_desc}
  /\ HandNextChunk \/ AwaitOthers \/ Finish
  /\ UNCHANGED <<handler, pc, total, inc, fault, size, moved, stray>>

(* Mutant: the descriptors behind the faulty one are left to the engine. *)
ErrorIrqUncleared ==
  /\ ErrorPending /\ ~CompletePending
  /\ IF fault = "WORD_ALIGN_ERROR" \/ Head(queue) = current_desc
     THEN state' = fault /\ Report(fault)
     ELSE UNCHANGED <<state, reported>>
  /\ queue' = Tail(queue) /\ fault' = "none" /\ done' = {}
  /\ UNCHANGED <<handler, xfr_size, src_addr, des_addr, end_desc, current_desc,
                 pc, total, inc, dcp, size, moved, stray>>

Clear == dcp' = [i \in Descriptors |-> Empty(FALSE)] /\ queue' = << >> /\ fault' = "none"

(* HPDMA_Error_IRQHandler looks at the descriptor it takes for current. *)
ErrorIrq ==
  /\ ErrorPending /\ ~CompletePending
  /\ IF fault = "WORD_ALIGN_ERROR" \/ Head(queue) = current_desc
     THEN state' = fault /\ Report(fault)
     ELSE UNCHANGED <<state, reported>>
  /\ Clear /\ done' = {}
  /\ UNCHANGED <<handler, xfr_size, src_addr, des_addr, end_desc, current_desc,
                 pc, total, inc, size, moved, stray>>

-----------------------------------------------------------------------------
(* The engine. *)
Serving == /\ queue # << >> /\ ~dcp[Head(queue)].pause /\ fault = "none"
           /\ Slow => \/ pc = "idle"
                      \/ pc = "abort" /\ Head(queue) = current_desc

MoveChunk ==
  /\ Serving
  /\ LET d == dcp[Head(queue)]
     IN  IF d.src = Src + moved /\ d.dst = Dst + moved
         THEN moved' = moved + d.len /\ UNCHANGED stray
         ELSE stray' = TRUE /\ UNCHANGED moved
  /\ done' = done \cup {Head(queue)}
  /\ queue' = Tail(queue)
  /\ UNCHANGED <<g_transfer, end_desc, current_desc, pc, total, inc, dcp, fault,
                 size, reported>>

Fail ==
  /\ Serving
  /\ fault' \in Errors
  /\ UNCHANGED <<g_transfer, end_desc, current_desc, pc, total, inc, dcp, queue,
                 done, history>>

-----------------------------------------------------------------------------
Next == \/ Start \/ StartOne \/ CountOne \/ (\E on \in BOOLEAN : Pause(on))
        \/ AbortOne \/ Abort \/ SetHandler \/ CompleteIrq \/ ErrorIrq \/ MoveChunk \/ Fail

Spec == Init /\ [][Next]_hpdma

(* MSS_HPDMA_start and MSS_HPDMA_abort run to their ends, the processor    *)
(* takes its interrupts and the engine serves its descriptors.             *)
FairSpec == /\ Spec
            /\ WF_hpdma(StartOne) /\ WF_hpdma(CountOne)
            /\ WF_hpdma(AbortLoop)
            /\ WF_hpdma(CompleteIrq) /\ WF_hpdma(ErrorIrq) /\ WF_hpdma(MoveChunk)

-----------------------------------------------------------------------------
TypeOK ==
  /\ state \in {"IN_PROGRESS", "COMPLETED"} \cup Errors
  /\ xfr_size \in Nat /\ src_addr \in Nat /\ des_addr \in Nat
  /\ end_desc \in 0 .. N /\ current_desc \in Descriptors
  /\ pc \in {"idle", "start", "count", "abort"} /\ inc \in 0 .. N
  /\ dcp \in [Descriptors -> [src : Nat, dst : Nat, len : 0 .. Max,
                              irq : BOOLEAN, pause : BOOLEAN]]
  /\ queue \in Seq(Descriptors) /\ done \subseteq Descriptors
  /\ fault \in Errors \cup {"none"} /\ handler \in BOOLEAN
  /\ size \in {0} \cup Sizes /\ total \in Nat
  /\ moved \in Nat /\ stray \in BOOLEAN

(* The words are moved from their place in the source to their place in    *)
(* the destination, in order, and none twice: no descriptor is filled      *)
(* while it is in flight, and none is skipped.                             *)
InOrder == ~stray

(* Nothing of the transfer is lost on its way through the descriptors: the *)
(* words moved, those in flight and those not yet handed out are all.      *)
Flying(k) == IF k <= Len(queue) THEN dcp[queue[k]].len ELSE 0
NothingLost ==
  state = "IN_PROGRESS" /\ pc # "abort" =>
    moved + Flying(1) + Flying(2) + Flying(3) + Flying(4) + xfr_size = size

(* The bookkeeping behind it.  From current_desc on come the descriptors   *)
(* whose completion the driver has not seen, m of them, then those in      *)
(* flight; each chunk in flight begins where the one before it ends, and   *)
(* end_desc leads to a descriptor that is free.                            *)
Ahead(i) == IF i >= current_desc THEN i - current_desc ELSE i - current_desc + N

Window(m) ==
  /\ m + Len(queue) <= N
  /\ \A i \in Descriptors : /\ i \in done <=> Ahead(i) < m
                            /\ dcp[i].irq <=> Ahead(i) < m + Len(queue)
  /\ \A k \in 1 .. Len(queue) : Ahead(queue[k]) = m + k - 1

HandedOut == size - xfr_size
At(k) == IF k = 1 THEN moved
         ELSE dcp[queue[k - 1]].src + dcp[queue[k - 1]].len - Src

Chain ==
  /\ xfr_size <= size
  /\ xfr_size > 0 => src_addr = Src + HandedOut /\ des_addr = Dst + HandedOut
  /\ \A k \in 1 .. Len(queue) : /\ dcp[queue[k]].src = Src + At(k)
                                /\ dcp[queue[k]].dst = Dst + At(k)
                                /\ dcp[queue[k]].len > 0
  /\ At(Len(queue) + 1) = HandedOut

Left(e)   == IF size > e * Max THEN size - e * Max ELSE 0
Filled(e) == /\ current_desc = 0 /\ done = {}
             /\ Len(queue) = e /\ xfr_size = Left(e)
             /\ \A j \in 0 .. N : total > j <=> size > j * Max

Room(m) ==
  /\ pc = "start" => Filled(end_desc)
  /\ pc = "count" => Filled(end_desc + 1)
  /\ pc = "idle" /\ xfr_size > 0 =>
       /\ m + Len(queue) = N
       /\ IF current_desc = 0 THEN end_desc = N ELSE end_desc = current_desc - 1
       /\ xfr_size <= (N - current_desc) * Max

InTurn ==
  IF state = "IN_PROGRESS"
  THEN /\ Chain /\ (\E m \in 0 .. N : Window(m) /\ Room(m))
       /\ fault # "none" => queue # << >> /\ pc = "idle"
       /\ reported = "none"
  ELSE /\ pc = "idle" /\ queue = << >> /\ done = {} /\ fault = "none"
       /\ \A i \in Descriptors : ~dcp[i].irq

(* While MSS_HPDMA_abort runs, the first l descriptors of the queue follow *)
(* current_desc and have not been cleared; those behind them come before   *)
(* it, so that what is left in flight there is never taken for current.    *)
InLine(l) ==
  /\ \A k \in 1 .. l :
       /\ queue[k] = current_desc + (IF done = {} THEN 0 ELSE 1) + k - 1
       /\ dcp[queue[k]].src = Src + At(k) /\ dcp[queue[k]].dst = Dst + At(k)
       /\ dcp[queue[k]].len > 0 /\ At(k + 1) <= size
  /\ \A k \in l + 1 .. Len(queue) : queue[k] < current_desc
  /\ xfr_size > 0 => end_desc = current_desc - 1

Queued(i) == \E k \in 1 .. Len(queue) : queue[k] = i

Aborting ==
  /\ inc \in 1 .. N /\ done \subseteq {current_desc}
  /\ \A i \in Descriptors : /\ dcp[i].irq <=> i \in done \/ Queued(i)
                            /\ Queued(i) => i >= inc /\ i \notin done
  /\ \A j, k \in 1 .. Len(queue) : queue[j] = queue[k] => j = k
  /\ done # {} \/ fault # "none" => state = "IN_PROGRESS" /\ current_desc >= inc
  /\ fault # "none" => queue # << >> /\ Head(queue) = current_desc
  /\ IF state = "IN_PROGRESS"
     THEN /\ reported = "none"
          /\ current_desc >= inc => \E l \in 0 .. Len(queue) : InLine(l)
     ELSE queue = << >> \/ current_desc < inc

Bookkeeping == IF pc = "abort" THEN Aborting ELSE inc = 0 /\ InTurn

(* The error handler looks for the cause of an error at the descriptor     *)
(* that has it.                                                            *)
ErrorFound ==
  ErrorPending /\ ~CompletePending => Head(queue) = current_desc

(* No descriptor is in flight when a new transfer may be started. *)
EndsIdle == pc = "idle" /\ state # "IN_PROGRESS" => queue = << >> /\ ~CompletePending

(* The driver implements the promise of mss_hpdma.h. *)
TRANSFER == INSTANCE Transfer WITH aborting <- pc = "abort"
ImplementsTransfer == TRANSFER!Spec

(* A transfer that is not paused for good ends. *)
Paused == queue # << >> /\ dcp[Head(queue)].pause
TransferEnds ==
  <>[]~Paused => (state = "IN_PROGRESS" ~> state # "IN_PROGRESS")

=============================================================================
