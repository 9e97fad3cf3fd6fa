-------------------------------- MODULE Board --------------------------------
(***************************************************************************)
(* The small drivers on their processor: timers, GPIO and the settings of  *)
(* a UART.  The thread and the interrupt handlers of the application make  *)
(* the accesses of their calls one at a time; between any two of them a    *)
(* timer expires, a port sees the event it waits for, a buffered write     *)
(* reaches its register or an interrupt is taken.  A handler runs to its   *)
(* end before the thread goes on, and no other preempts it.                *)
(*                                                                         *)
(* The registers of the three drivers are disjoint, but for SOFT_RST_CR,   *)
(* so a behaviour uses the ones of one driver, and the timers either as    *)
(* two of 32 bits or as one of 64 (OneDriver).                             *)
(***************************************************************************)
EXTENDS MssTimer, MssGpio, UartConfig

CONSTANT MaxIoCalls      \* bound on the calls of timer and GPIO functions

VARIABLES
  uses,               \* the driver this behaviour is about
  io,                 \* the registers
  armed,              \* timers that have a count to run down
  posted,             \* a clearing write on its way to its register
  enabled, pending,   \* the NVIC
  active,             \* the interrupt whose handler runs, or "none"
  todo, loaded,       \* accesses to make; what a load got: thread and handler
  doing,              \* the call of the thread: a port it drives, or interrupts it
                      \* initialises
  due,                \* events no handler has been entered for, nor forgotten
  ioCalls

hardware  == <<io, armed, posted, enabled, pending>>
processor == <<active, todo, loaded, doing, ioCalls>>
peripherals == <<hardware, processor, due>>
board == <<uses, peripherals, config>>

Timers == {"TIM1", "TIM2", "TIM64"}
Irqs == {"Timer1", "Timer2"} \cup Ports
Registers == Timers \cup Ports \cup {"SOFT_RST_CR", "TIM64_MODE", "RIS", "GPIO_OUT", "GPIO_IRQ"}
LoadRegister == [TIM1_LOADVAL |-> "TIM1", TIM2_LOADVAL |-> "TIM2", TIM64_LOADVAL |-> "TIM64"]
NoPost == [kind |-> "none"]
Drives(p, l) == [port |-> p, level |-> l, inits |-> {}]
Inits(irqs) == [port |-> "none", level |-> "none", inits |-> irqs]
Other == Inits({})

-----------------------------------------------------------------------------
(* The peripherals. *)

(* A block in reset has its registers cleared and takes no writes. *)
Held(r) ==
  LET reset == r["SOFT_RST_CR"]
      timer == Timers \cup {"TIM64_MODE", "RIS"}
  IN  [x \in Registers |->
         IF \/ x \in timer /\ "TIMER" \in reset
            \/ x \notin timer \cup {"SOFT_RST_CR"} /\ reset \cap (GPIO_BYTES \cup {"GPIO"}) # {}
         THEN {} ELSE r[x]]

Runs64(r) == r["TIM64_MODE"] # {}
Rings(r, t) == t \in r["RIS"] /\ "INTEN" \in r[t]
Line(r, irq) ==
  CASE irq = "Timer1" -> Rings(r, IF Runs64(r) THEN "TIM64" ELSE "TIM1")
    [] irq = "Timer2" -> ~Runs64(r) /\ Rings(r, "TIM2")
    [] OTHER -> irq \in r["GPIO_IRQ"] /\ "INTEN" \in r[irq]

(* A line that rises, or that is high while its handler does not run, is   *)
(* pending.                                                                *)
Latched(r, irq, next, running) == Line(next, irq) /\ (~Line(r, irq) \/ running # irq)
Becomes(next, running, cleared) ==
  /\ io' = next
  /\ pending' = (pending \ cleared) \cup {i \in Irqs : Latched(io, i, next, running)}

(* An initialisation forgets the events of before, from where it disables  *)
(* the interrupt to where it returns.                                      *)
Forgets == IF todo["thread"] = << >> THEN {} ELSE doing.inits \ enabled

Expire ==
  /\ \E t \in armed :
       /\ "ENABLE" \in io[t] /\ (Runs64(io) <=> t = "TIM64")
       /\ Becomes([io EXCEPT !["RIS"] = @ \cup {t}], active, {})
       /\ armed' = IF "ONE_SHOT" \in io[t] THEN armed \ {t} ELSE armed
       /\ due' = due \cup ({IF t = "TIM2" THEN "Timer2" ELSE "Timer1"} \ Forgets)
  /\ UNCHANGED <<posted, enabled, processor>>

PortEvent ==
  /\ \E p \in Ports : /\ "INTEN" \in io[p]
                      /\ Becomes([io EXCEPT !["GPIO_IRQ"] = @ \cup {p}], active, {})
                      /\ due' = due \cup {p}
  /\ UNCHANGED <<armed, posted, enabled, processor>>

Drain ==
  /\ posted # NoPost /\ posted' = NoPost
  /\ Becomes([io EXCEPT ![posted.reg] = @ \ {posted.bit}], active, {})
  /\ UNCHANGED <<armed, enabled, due, processor>>

-----------------------------------------------------------------------------
(* The accesses. *)

Running == IF active = "none" THEN "thread" ELSE "handler"
Next1 == todo' = [todo EXCEPT ![Running] = Tail(@)]
Access == Head(todo[Running])

(* An access of this kind is next; the ones before it have been made. *)
At(kind) == todo[Running] # << >> /\ Access.kind = kind /\ posted = NoPost

Load ==
  /\ At("load") /\ Next1
  /\ loaded' = [loaded EXCEPT ![Running] = (io[Access.reg] \ Access.clear) \cup Access.set]
  /\ UNCHANGED <<hardware, active, doing, due, ioCalls>>

StoreReg ==
  /\ \/ At("store") /\ Becomes(Held([io EXCEPT ![Access.reg] = loaded[Running]]), active, {})
     \/ At("bit") /\ Becomes(Held([io EXCEPT ![Access.reg] =
                       IF Access.on THEN @ \cup {Access.bit} ELSE @ \ {Access.bit}]), active, {})
  /\ Next1
  /\ UNCHANGED <<armed, posted, enabled, active, loaded, doing, due, ioCalls>>

WriteReg ==
  /\ At("write") /\ Next1
  /\ IF Access.reg \in Registers
     THEN Becomes(Held([io EXCEPT ![Access.reg] = Access.value]), active, {})
     ELSE UNCHANGED <<io, pending>>
  /\ armed' = armed \cup {LoadRegister[x] : x \in {Access.reg} \cap DOMAIN LoadRegister}
  /\ UNCHANGED <<posted, enabled, active, loaded, doing, due, ioCalls>>

ClearReg ==
  /\ At("clear") /\ Next1
  /\ posted' = Access
  /\ UNCHANGED <<io, armed, enabled, pending, active, loaded, doing, due, ioCalls>>

(* A write to the NVIC, and a barrier, wait for the writes before them. *)
NvicWrite ==
  /\ At("nvic") /\ Next1
  /\ enabled' = CASE Access.op = "enable"  -> enabled \cup {Access.irq}
                  [] Access.op = "disable" -> enabled \ {Access.irq}
                  [] OTHER -> enabled
  /\ IF Access.op = "clear"
     THEN Becomes(io, active, {Access.irq}) ELSE UNCHANGED <<io, pending>>
  /\ due' = IF Access.op = "disable" THEN due \ ({Access.irq} \cap doing.inits) ELSE due
  /\ UNCHANGED <<armed, posted, active, loaded, doing, ioCalls>>

Barrier == /\ At("dsb") /\ Next1
           /\ UNCHANGED <<hardware, active, loaded, doing, due, ioCalls>>

-----------------------------------------------------------------------------
(* The application. *)

ClearOf(irq) ==
  CASE irq = "Timer1" -> IF Runs64(io) THEN MSS_TIM64_clear_irq ELSE MSS_TIM1_clear_irq
    [] irq = "Timer2" -> MSS_TIM2_clear_irq
    [] OTHER -> MSS_GPIO_clear_irq(irq)

Enter ==
  /\ active = "none"
  /\ \E irq \in pending \cap enabled :
       /\ active' = irq /\ pending' = pending \ {irq} /\ due' = due \ {irq}
       /\ todo' = [todo EXCEPT !["handler"] = ClearOf(irq) \o HandlerReturn]
  /\ UNCHANGED <<io, armed, posted, enabled, loaded, doing, ioCalls>>

(* The handler may return before its last write is in its register. *)
Return ==
  /\ active # "none" /\ Access.kind = "return" /\ Next1
  /\ active' = "none"
  /\ Becomes(io, "none", {})
  /\ UNCHANGED <<armed, posted, enabled, loaded, doing, due, ioCalls>>

Call(accesses, what) ==
  /\ active = "none" /\ todo["thread"] = << >> /\ posted = NoPost
  /\ ioCalls < MaxIoCalls /\ ioCalls' = ioCalls + 1
  /\ todo' = [todo EXCEPT !["thread"] = accesses]
  /\ doing' = what
  /\ UNCHANGED <<hardware, active, loaded, due>>

CallTimer32 ==
  \/ \E one_shot \in BOOLEAN : \/ Call(MSS_TIM1_init(one_shot), Inits({"Timer1"}))
                               \/ Call(MSS_TIM2_init(one_shot), Inits({"Timer2"}))
  \/ /\ "TIMER" \notin io["SOFT_RST_CR"] /\ ~Runs64(io)
     /\ \E accesses \in
            {MSS_TIM1_start, MSS_TIM1_stop, MSS_TIM1_load_immediate,
             MSS_TIM1_load_background, MSS_TIM1_enable_irq, MSS_TIM1_disable_irq,
             MSS_TIM1_clear_irq, MSS_TIM2_start, MSS_TIM2_stop,
             MSS_TIM2_load_immediate, MSS_TIM2_load_background,
             MSS_TIM2_enable_irq, MSS_TIM2_disable_irq, MSS_TIM2_clear_irq} :
          Call(accesses, Other)

(* MSS_TIM64_init does not clear TIM64_RIS: an event from before it is     *)
(* still due.                                                              *)
CallTimer64 ==
  \/ \E one_shot \in BOOLEAN : Call(MSS_TIM64_init(one_shot), Other)
  \/ /\ Runs64(io)
     /\ \E accesses \in
            {MSS_TIM64_start, MSS_TIM64_stop, MSS_TIM64_load_immediate,
             MSS_TIM64_load_background, MSS_TIM64_enable_irq,
             MSS_TIM64_disable_irq, MSS_TIM64_clear_irq} :
          Call(accesses, Other)

CallPort(p) ==
  \/ \E level \in {"HIGH", "LOW", "HIGH_Z"} :
       Call(MSS_GPIO_drive_inout(p, level), Drives(p, level))
  \/ \E level \in {"HIGH", "LOW"} :
       Call(MSS_GPIO_set_output(p, level = "HIGH"), Drives(p, level))
  \/ \E value \in {{}, {"OUTBUF"}} :
       Call(MSS_GPIO_config(p, value), Other)
  \/ \E accesses \in {MSS_GPIO_enable_irq(p), MSS_GPIO_disable_irq(p),
                      MSS_GPIO_clear_irq(p)} :
       Call(accesses, Other)

CallGpio ==
  \/ Call(MSS_GPIO_init, Inits(Ports))
  \/ /\ io["SOFT_RST_CR"] \cap (GPIO_BYTES \cup {"GPIO"}) = {}
     /\ \/ \E ports \in SUBSET Ports : Call(MSS_GPIO_set_outputs(ports), Other)
        \/ \E p \in Ports : CallPort(p)

-----------------------------------------------------------------------------
BoardInit ==
  /\ uses \in {"timer32", "timer64", "gpio", "uart"} /\ ConfigInit
  /\ uses # "uart" => uart = 0 /\ clock = silicon_workarounds(CHOOSE c \in Clocks : TRUE)
  /\ io = [x \in Registers |-> IF x = "SOFT_RST_CR" THEN {"TIMER", "GPIO"} \cup GPIO_BYTES
                                                    ELSE {}]
  /\ armed = Timers /\ posted = NoPost
  /\ enabled = {} /\ pending = {} /\ active = "none"
  /\ todo = [w \in {"thread", "handler"} |-> << >>]
  /\ loaded = [w \in {"thread", "handler"} |-> {}]
  /\ doing = Other /\ due = {} /\ ioCalls = 0

Hardware == Expire \/ PortEvent \/ Drain
Accesses == Load \/ StoreReg \/ WriteReg \/ ClearReg \/ NvicWrite \/ Barrier
OneDriver == \/ uses = "timer32" /\ CallTimer32
             \/ uses = "timer64" /\ CallTimer64
             \/ uses = "gpio" /\ CallGpio

BoardNext ==
  /\ UNCHANGED uses
  /\ \/ (Hardware \/ Accesses \/ Enter \/ Return \/ OneDriver) /\ UNCHANGED config
     \/ uses = "uart" /\ ConfigNext /\ UNCHANGED peripherals

BoardSpec == BoardInit /\ [][BoardNext]_board

-----------------------------------------------------------------------------
(* The handler of a timer or of a port is entered for an event of its own: *)
(* never again for one it has been entered for, because it returned before *)
(* the source was clear, and, but for the 64-bit timer, never for one from *)
(* before the initialisation of its driver.                                *)
NoStaleInterrupt == [][Enter => active' \in due]_board

(* A port changes its level, or begins to drive, only in a call that names *)
(* it, and a call that asks for a level begins to drive with that level.   *)
DrivesAsAsked ==
  [][StoreReg /\ "GPIO" \notin io'["SOFT_RST_CR"] =>
       \A p \in Ports :
         /\ (p \in io'["GPIO_OUT"]) # (p \in io["GPIO_OUT"]) => doing.port = p
         /\ "OUTBUF" \in io'[p] \ io[p] =>
              /\ doing.port = p
              /\ (p \in io'["GPIO_OUT"]) <=> doing.level = "HIGH"]_board

=============================================================================
