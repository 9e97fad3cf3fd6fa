------------------------------ MODULE SysCalls ------------------------------
(***************************************************************************)
(* What the services of mss_sys_services.c do around their exchange with   *)
(* the System Controller: the clock dividers and the eNVM configuration    *)
(* that Flash*Freeze, digest checks, ISP and IAP change and give back, the *)
(* lock of eNVM-1 that the PUF services leave behind, and services that    *)
(* call other services.                                                    *)
(*                                                                         *)
(* The exchange itself is one answer to one command, which is what module  *)
(* SysServices checks of the COMM_BLK driver.  The dividers are those of   *)
(* APB0, APB1, the M3 clock and FIC64.  The controller is external: it     *)
(* enters and leaves Flash*Freeze for every service that switches clocks,  *)
(* unless it refuses the service.                                          *)
(***************************************************************************)
EXTENDS SysCatalogue

CONSTANTS Devices,      \* [family, revision, div]: the divider fields of the design
          Requests,     \* what the application calls: [todo, main], the services
                        \* a function goes through and which one it is named for
          MaxCalls,     \* bound on its calls
          Disabled      \* services that the controller may refuse

VARIABLES device,
          div, standby,         \* MSSDDR_FACC1_CR: dividers, FACC_GLMUX_SEL
          envm, facc2,          \* ENVM_CR, MSSDDR_FACC2_CR: "design" or "program"
          divisor,              \* saved by clk_switching_fix
          saved,                \* g_initial_mssddr_facc1_cr, .._envm_cr, .._facc2_cr
          call,                 \* the request under way, where it is, its results
          busy,                 \* g_request_in_progress
          programming,          \* g_mode # MSS_SYS_PROG_AUTHENTICATE
          isr,                  \* position of revert_clk_config, field 0: not running
          sent, phase,          \* controller: the service it performs, how far
          answers,              \* what it answered to the services of the request
          enrolled,             \* it holds the lock of eNVM-1
          ispDone, calls,
          spoilt                \* a programming service met CLK_DIVISOR_ERROR

registers == <<div, standby, envm, facc2>>
kept      == <<divisor, saved, programming>>
controller == <<sent, phase, answers, enrolled, ispDone>>
calling   == <<device, registers, kept, call, busy, isr, controller, calls, spoilt>>

Wide   == "010/025/050/090/150"

(* A divider field has three bits.                                         *)
ASSUME DevicesAssumption ==
  Devices \subseteq [family : {Wide, "005", "060", "other"}, revision : Nat,
                     div : [1 .. 4 -> 0 .. 7]]

Nobody == Service(999, "none", 0, 0)
Idle   == [at |-> "idle", todo |-> << >>, main |-> 1, n |-> 1, field |-> 1, k |-> 1, result |-> "none"]

(* MSS_SYS_init takes the dividers of the design for a default. *)
SysCallsInit ==
  /\ device \in Devices
  /\ div = device.div /\ standby = FALSE /\ envm = "design" /\ facc2 = "design"
  /\ divisor = <<0, 0, 0, 0>>
  /\ saved = [div |-> device.div, standby |-> FALSE, envm |-> "design", facc2 |-> "design"]
  /\ call = Idle /\ busy = FALSE /\ programming = FALSE /\ isr = [field |-> 0, k |-> 0]
  /\ sent = Nobody /\ phase = "idle" /\ answers = <<"none", "none">> /\ enrolled = FALSE
  /\ ispDone = TRUE /\ calls = 0 /\ spoilt = FALSE

-----------------------------------------------------------------------------
(* Mutant: the sequence from divided by four takes a short cut. *)
ShortSequence(val) ==
  CASE val = 0 -> <<0, 1, 5, 7>>     [] val = 1 -> <<1, 5, 7>>
    [] val = 2 -> <<2, 1, 5, 7>>     [] val = 4 -> <<4, 6, 7>>
    [] val = 5 -> <<5, 7>>           [] val = 6 -> <<6, 7>>
    [] OTHER   -> << >>

(* The values a divider of M2S005 is taken through, to divided by 32. *)
determine_seq(val) ==
  CASE val = 0 -> <<0, 1, 5, 7>>     [] val = 1 -> <<1, 5, 7>>
    [] val = 2 -> <<2, 3, 1, 5, 7>>  [] val = 4 -> <<4, 6, 7>>
    [] val = 5 -> <<5, 7>>           [] val = 6 -> <<6, 7>>
    [] OTHER   -> << >>

Now     == call.todo[call.n]
Free    == isr.field = 0
Step(c) == Free /\ call' = c
Go(at)  == Step([call EXCEPT !.at = at])

(* A service is over: the next one of the request, or the caller.  What    *)
(* the request returns is the result of the service that it is named for.  *)
Over(result) ==
  [call EXCEPT !.at = IF call.n = Len(call.todo) THEN "idle" ELSE "start",
               !.n = IF @ = Len(call.todo) THEN 1 ELSE @ + 1,
               !.field = 1, !.k = 1,
               !.result = IF call.n = call.main THEN result ELSE @]

(* Functions that are a service by themselves; that make the controller    *)
(* give the lock of eNVM-1 back, by asking for the number of keys; and     *)
(* that check the digest of the fabric first, to verify a bitstream.       *)
Alone(s) == [todo |-> <<s>>, main |-> 1]

(* Mutant: the lock is left with the controller. *)
NotUnlocking(s) == Alone(s)

Unlocking(s) == [todo |-> <<s, MSS_SYS_puf_get_number_of_keys>>, main |-> 1]
Verifying(s) == [todo |-> <<MSS_SYS_check_digest(TRUE), s>>, main |-> 2]

(* What the driver offers: an application cannot ask for anything else.    *)
Interface ==
  {Alone(s) : s \in Services} \cup {Unlocking(s) : s \in Enrolling}
    \cup {Verifying(MSS_SYS_initiate_iap(FALSE)), Verifying(MSS_SYS_start_isp(FALSE))}

ASSUME RequestsAssumption == Requests \subseteq Interface

(* The application calls a service when none is under way. *)
Request ==
  /\ Free /\ call.at = "idle" /\ ispDone /\ phase = "idle" /\ calls < MaxCalls
  /\ \E r \in Requests :
       call' = [Idle EXCEPT !.at = "start", !.todo = r.todo, !.main = r.main]
  /\ calls' = calls + 1 /\ answers' = <<"none", "none">>
  /\ UNCHANGED <<device, registers, kept, busy, isr, sent, phase, enrolled, ispDone, spoilt>>

(* The ASSERTs on the device version. *)
Lacks(s) == device.family = Wide /\ device.revision < s.missing

Refused == /\ call.at = "start" /\ Lacks(Now)
           /\ Go("asserted")
           /\ UNCHANGED <<device, registers, kept, busy, isr, controller, calls, spoilt>>

(* ISP and IAP save the configuration of the eNVM and of its clocks, and   *)
(* set the highest frequency range and both oscillators.                   *)
Prepare ==
  /\ saved' = [saved EXCEPT !.envm = envm, !.facc2 = facc2]
  /\ envm' = "program" /\ facc2' = "program"

(* Mutant: ISP is started without it. *)
PreparedForIap(s) == s.programs /\ s.how # "paged"

Prepared(s) == s.programs

(* What comes in front of the command.  Flash*Freeze saves FACC1.          *)
Start ==
  /\ call.at = "start" /\ ~Lacks(Now)
  /\ Go(IF Now.switches THEN "clocks" ELSE "send")
  /\ programming' = IF Now.how = "paged" THEN Now.programs ELSE programming
  /\ IF Prepared(Now) THEN Prepare
     ELSE /\ saved' = IF Now.op = MSS_SYS_flash_freeze.op
                      THEN [saved EXCEPT !.div = div, !.standby = standby] ELSE saved
          /\ UNCHANGED <<envm, facc2>>
  /\ UNCHANGED <<device, div, standby, divisor, busy, isr, controller, calls, spoilt>>

-----------------------------------------------------------------------------
DividedBy32 == 6

(* clk_switching_fix.  M2S005 is taken through the sequences one write at  *)
(* a time, each field saved before it changes.                             *)
DivideWide ==
  /\ device.family = Wide
  /\ div' = [i \in 1 .. 4 |-> DividedBy32] /\ standby' = TRUE
  /\ Go("send")
  /\ UNCHANGED <<divisor, spoilt>>

DivideInSequence ==
  /\ device.family = "005"
  /\ LET f   == call.field
         val == IF call.k = 1 THEN div[f] ELSE divisor[f]
         seq == determine_seq(val)
         k   == call.k + 1
     IN  \/ /\ f <= 4
            /\ divisor' = [divisor EXCEPT ![f] = val]
            /\ div' = IF k <= Len(seq) THEN [div EXCEPT ![f] = seq[k]] ELSE div
            /\ Step(IF k < Len(seq) THEN [call EXCEPT !.k = k]
                    ELSE [call EXCEPT !.field = f + 1, !.k = 1])
            /\ UNCHANGED standby
         \/ /\ f = 5
            /\ standby' = TRUE /\ Go("send")
            /\ UNCHANGED <<div, divisor>>
  /\ UNCHANGED spoilt

CheckDividers ==
  /\ device.family = "060"
  /\ divisor' = div
  /\ IF \A i \in 1 .. 4 : div[i] = div[1] /\ div[i] <= 5
     THEN Go("send") /\ UNCHANGED spoilt
     ELSE Step(Over("CLK_DIVISOR_ERROR")) /\ spoilt' = (spoilt \/ Now.programs)
  /\ UNCHANGED <<div, standby>>

OtherDevice ==
  /\ device.family \notin {Wide, "005", "060"}
  /\ Go("send")
  /\ UNCHANGED <<div, standby, divisor, spoilt>>

clk_switching_fix ==
  /\ call.at = "clocks"
  /\ DivideWide \/ DivideInSequence \/ CheckDividers \/ OtherDevice
  /\ UNCHANGED <<device, envm, facc2, saved, programming, busy, isr, controller, calls>>

-----------------------------------------------------------------------------
(* signal_request_start and the command. *)
Send ==
  /\ call.at = "send" /\ ~busy
  /\ busy' = TRUE
  /\ sent' = Now /\ phase' = "work"
  /\ Step(IF Now.how = "paged" THEN Over("SUCCESS") ELSE [call EXCEPT !.at = "wait"])
  /\ ispDone' = (ispDone /\ Now.how # "paged")
  /\ UNCHANGED <<device, registers, kept, isr, answers, enrolled, calls, spoilt>>

GivenBack == envm' = saved.envm /\ facc2' = saved.facc2

(* The response; IAP gives the configuration back. *)
Return ==
  /\ call.at = "wait" /\ ~busy
  /\ Step(Over(answers[call.n]))
  /\ IF Now.programs THEN GivenBack ELSE UNCHANGED <<envm, facc2>>
  /\ UNCHANGED <<device, div, standby, kept, busy, isr, controller, calls, spoilt>>

-----------------------------------------------------------------------------
(* Mutant: the walk back stops one short. *)
SecondOfSequence == 2

FirstOfSequence == 1

(* revert_clk_config, called by asynchronous_event_handler in the          *)
(* interrupt: the sequences are walked backwards, the standby clock is     *)
(* left last.                                                              *)
NoRevert == [field |-> 0, k |-> 0]
Revert(f) == [field |-> f, k |-> IF f <= 4 THEN Len(determine_seq(divisor[f])) ELSE 0]

revert_clk_config ==
  /\ isr.field > 0
  /\ \/ /\ device.family = Wide
        /\ div' = saved.div /\ standby' = saved.standby /\ isr' = NoRevert
     \/ /\ device.family = "005" /\ isr.field <= 4
        /\ LET f == isr.field
           IN  IF isr.k < FirstOfSequence
               THEN isr' = Revert(f + 1) /\ UNCHANGED div
               ELSE /\ div' = [div EXCEPT ![f] = determine_seq(divisor[f])[isr.k]]
                    /\ isr' = [isr EXCEPT !.k = @ - 1]
        /\ UNCHANGED standby
     \/ /\ device.family = "005" /\ isr.field = 5
        /\ standby' = FALSE /\ isr' = NoRevert /\ UNCHANGED div
     \/ /\ device.family \notin {Wide, "005"}
        /\ isr' = NoRevert /\ UNCHANGED <<div, standby>>
  /\ UNCHANGED <<device, envm, facc2, kept, call, busy, controller, calls, spoilt>>

-----------------------------------------------------------------------------
(* The System Controller.  It enters and leaves Flash*Freeze, or the state *)
(* like it that the check of the fabric and its programming need, and      *)
(* sends the exit event.  It answers after that, or refuses the service.   *)
Freeze ==
  /\ Free /\ phase = "work" /\ sent.switches
  /\ phase' = "frozen" /\ standby' = TRUE
  /\ UNCHANGED <<device, div, envm, facc2, kept, call, busy, isr, sent, answers, enrolled,
                 ispDone, calls, spoilt>>

Thaw ==
  /\ Free /\ phase = "frozen"
  /\ phase' = "thawed" /\ standby' = FALSE
  /\ isr' = Revert(1)
  /\ UNCHANGED <<device, div, envm, facc2, kept, call, busy, sent, answers, enrolled,
                 ispDone, calls, spoilt>>

(* request_completion_handler, or isp_sys_completion_handler, which leaves *)
(* g_request_in_progress as it is.                                         *)
Complete(answer) ==
  /\ answers' = IF sent.how = "paged" THEN answers ELSE [answers EXCEPT ![call.n] = answer]
  /\ phase' = "idle"
  /\ IF sent.how = "paged"
     THEN /\ ispDone' = TRUE /\ UNCHANGED busy
          /\ IF programming THEN GivenBack ELSE UNCHANGED <<envm, facc2>>
     ELSE busy' = FALSE /\ UNCHANGED <<ispDone, envm, facc2>>
  /\ UNCHANGED <<device, div, standby, kept, call, isr, sent, calls, spoilt>>

Answer ==
  /\ Free /\ phase = (IF sent.switches THEN "thawed" ELSE "work")
  /\ \E answer \in {"SUCCESS", "FAILURE"} : Complete(answer)
  /\ enrolled' = CASE sent \in Enrolling -> TRUE
                   [] sent = MSS_SYS_puf_get_number_of_keys -> FALSE
                   [] OTHER -> enrolled

Refuse ==
  /\ Free /\ phase = "work" /\ sent \in Disabled
  /\ Complete("DISABLED_BY_USER")
  /\ UNCHANGED enrolled

SysCallsNext ==
  \/ Request \/ Refused \/ Start \/ clk_switching_fix \/ Send \/ Return
  \/ revert_clk_config \/ Freeze \/ Thaw \/ Answer \/ Refuse

SysCallsSpec == SysCallsInit /\ [][SysCallsNext]_calling

-----------------------------------------------------------------------------
Quiet == call.at = "idle" /\ Free /\ phase = "idle"

(* The parameter block of the service under way is well formed: nothing is *)
(* written behind it or twice.                                             *)
BlockWellFormed == call.at = "send" => WellFormed(Now)

(* Whatever services ran one behind the other and within each other, the   *)
(* clock dividers are those of the design when none is under way; the eNVM *)
(* and its clocks too, but behind a service that could not divide its      *)
(* clocks.                                                                 *)
ClocksRestored ==
  Quiet => /\ div = device.div /\ ~standby
           /\ ~spoilt => envm = "design" /\ facc2 = "design"

(* While the controller programs the device the eNVM is at its highest     *)
(* frequency range, and the clocks that it switches are divided by 32 or   *)
(* all alike.                                                              *)
ProgramsPrepared ==
  phase \in {"work", "frozen"} /\ sent.switches =>
    /\ sent.programs => envm = "program" /\ facc2 = "program"
    /\ \/ \A i \in 1 .. 4 : div[i] \in {3, 6, 7}
       \/ device.family = "060" /\ \A i \in 1 .. 4 : div[i] = div[1]
       \/ device.family = "other"

(* No request leaves eNVM-1 locked by the controller.                      *)
LockReleased == Quiet => ~enrolled

(* On M2S005 a divider changes one bit at a time, there and back.          *)
Bits(n) == {b \in {1, 2, 4} : (n \div b) % 2 = 1}
OneBitAtATime ==
  [][device.family = "005" =>
       \A i \in 1 .. 4 : div'[i] # div[i] =>
         \E b \in {1, 2, 4} : Bits(div'[i]) = (Bits(div[i]) \cup {b}) \ (Bits(div[i]) \cap {b})]_calling

=============================================================================
