------------------------------ MODULE SidBridge ------------------------------
(***************************************************************************)
(* The AHB-Lite to MOS 6581 (SID) bridge of hdl/SID_BRIDGE.vhd.            *)
(*                                                                         *)
(* One step is one rising edge of HCLK: the registered record `reg` takes  *)
(* the value next_reg.  Every step runs the sid_clk divider and exactly    *)
(* one branch of the bus state machine; a step with HRESETN low loads      *)
(* reset_reg instead.  The inputs of the entity are parameters of the      *)
(* actions, so that the module can be driven by an arbitrary environment   *)
(* (Next below) or by the bus fabric (module SidSystem).                   *)
(*                                                                         *)
(* Only the inputs that the process reads appear: HTRANS, HREADYIN, HSIZE, *)
(* HBURST, HPROT and HMASTLOCK are in its sensitivity list and are never   *)
(* looked at.  Of HADDR the process uses bit 14 and bits 6..2.             *)
(***************************************************************************)
EXTENDS Integers

CONSTANTS Words,      \* values HWDATA can take
          Bytes,      \* values the SID data pads can carry when read
          Index,      \* values of HADDR(6 downto 2)
          ResetFreq   \* reset value of sid_freq ("00100011" in the source)

ASSUME WordsAssumption == Words \subseteq Nat
ASSUME BytesAssumption == Bytes \subseteq 0 .. 255
ASSUME IndexAssumption == Index \subseteq 0 .. 31
ASSUME FreqAssumption  == ResetFreq \in 0 .. 255

VARIABLES state, REG_ADDR, sid_freq, sid_clk_cntr, HRDATA, HREADYOUT,
          sid_addr, sid_data_o, sid_data_oe, sid_cs_n, sid_rw, sid_rst_n,
          sid_clk

bus     == <<HRDATA, HREADYOUT>>
ctl     == <<sid_rst_n, sid_freq>>
strobe  == <<sid_cs_n, sid_rw>>
divider == <<sid_clk_cntr, sid_clk>>
bridge  == <<state, REG_ADDR, ctl, divider, bus, sid_addr, sid_data_o,
             sid_data_oe, strobe>>

ReadStates  == {"st_read_sid_st1", "st_read_sid_st2", "st_read_sid_st3",
                "st_read_sid_st4", "st_read_sid_st5", "st_read_sid_st6"}
WriteStates == {"st_write_sid_st1", "st_write_sid_st2", "st_write_sid_st3",
                "st_write_sid_st4", "st_write_sid_st5", "st_write_sid_st6"}
States      == {"st_idle", "st_write_reg"} \cup ReadStates \cup WriteStates

(* What the entity samples on its bus side and on the data pads. *)
Inputs == [HSEL : {0, 1}, a14 : {0, 1}, idx : Index, HWRITE : {0, 1},
           HWDATA : Words, pads : Bytes]

-----------------------------------------------------------------------------
(* reset_reg.  REG_ADDR is '-' there: any value the synthesis picks. *)
Init ==
  /\ state = "st_idle"
  /\ REG_ADDR \in 0 .. 3
  /\ sid_freq = ResetFreq
  /\ sid_clk_cntr = 0 /\ sid_clk = 0
  /\ HRDATA = 0 /\ HREADYOUT = 1
  /\ sid_addr = 0 /\ sid_data_o = 0 /\ sid_data_oe = 0
  /\ sid_cs_n = 1 /\ sid_rw = 0
  /\ sid_rst_n = 0

Reset ==
  /\ state' = "st_idle"
  /\ REG_ADDR' \in 0 .. 3
  /\ sid_freq' = ResetFreq
  /\ sid_clk_cntr' = 0 /\ sid_clk' = 0
  /\ HRDATA' = 0 /\ HREADYOUT' = 1
  /\ sid_addr' = 0 /\ sid_data_o' = 0 /\ sid_data_oe' = 0
  /\ sid_cs_n' = 1 /\ sid_rw' = 0
  /\ sid_rst_n' = 0

-----------------------------------------------------------------------------
(* Mutants of the divider: one count late, one count early. *)
LateDivider ==
  IF sid_clk_cntr <= sid_freq
  THEN sid_clk_cntr' = sid_clk_cntr + 1 /\ sid_clk' = sid_clk
  ELSE sid_clk_cntr' = 0 /\ sid_clk' = 1 - sid_clk
EarlyDivider ==
  IF sid_clk_cntr + 1 < sid_freq
  THEN sid_clk_cntr' = sid_clk_cntr + 1 /\ sid_clk' = sid_clk
  ELSE sid_clk_cntr' = 0 /\ sid_clk' = 1 - sid_clk

(* The divider: sid_clk toggles every sid_freq + 1 edges of HCLK, or at    *)
(* once when sid_freq has been lowered below the running count.            *)
Divider ==
  IF sid_clk_cntr < sid_freq
  THEN sid_clk_cntr' = sid_clk_cntr + 1 /\ sid_clk' = sid_clk
  ELSE sid_clk_cntr' = 0 /\ sid_clk' = 1 - sid_clk

-----------------------------------------------------------------------------
(* st_idle: the only state that looks at HSEL. *)
Deselected(b) ==
  /\ state = "st_idle" /\ b.HSEL = 0
  /\ sid_data_oe' = 0
  /\ UNCHANGED <<state, REG_ADDR, ctl, bus, sid_addr, sid_data_o, strobe>>

AcceptRegWrite(b) ==
  /\ state = "st_idle" /\ b.HSEL = 1 /\ b.a14 = 0 /\ b.HWRITE = 1
  /\ sid_data_oe' = 0 /\ HREADYOUT' = 1
  /\ REG_ADDR' = b.idx % 4
  /\ state' = "st_write_reg"
  /\ UNCHANGED <<ctl, HRDATA, sid_addr, sid_data_o, strobe>>

RegValue(r) == CASE r = 0 -> sid_rst_n [] r = 1 -> sid_freq [] OTHER -> 0

AcceptRegRead(b) ==
  /\ state = "st_idle" /\ b.HSEL = 1 /\ b.a14 = 0 /\ b.HWRITE = 0
  /\ sid_data_oe' = 0 /\ HREADYOUT' = 1
  /\ REG_ADDR' = b.idx % 4
  /\ HRDATA' = RegValue(b.idx % 4)
  /\ UNCHANGED <<state, ctl, sid_addr, sid_data_o, strobe>>

(* Mutant: the bus is not held when the access is accepted. *)
AcceptSidUnheld(b) ==
  /\ state = "st_idle" /\ b.HSEL = 1 /\ b.a14 = 1
  /\ sid_data_oe' = 0 /\ HREADYOUT' = 1
  /\ sid_addr' = b.idx
  /\ state' = IF b.HWRITE = 1 THEN "st_write_sid_st1" ELSE "st_read_sid_st1"
  /\ UNCHANGED <<REG_ADDR, ctl, HRDATA, sid_data_o, strobe>>

AcceptSid(b) ==
  /\ state = "st_idle" /\ b.HSEL = 1 /\ b.a14 = 1
  /\ sid_data_oe' = 0 /\ HREADYOUT' = 0
  /\ sid_addr' = b.idx
  /\ state' = IF b.HWRITE = 1 THEN "st_write_sid_st1" ELSE "st_read_sid_st1"
  /\ UNCHANGED <<REG_ADDR, ctl, HRDATA, sid_data_o, strobe>>

WriteReg(b) ==
  /\ state = "st_write_reg"
  /\ sid_rst_n' = IF REG_ADDR = 0 THEN b.HWDATA % 2 ELSE sid_rst_n
  /\ sid_freq' = IF REG_ADDR = 1 THEN b.HWDATA % 256 ELSE sid_freq
  /\ state' = "st_idle"
  /\ UNCHANGED <<REG_ADDR, bus, sid_addr, sid_data_o, sid_data_oe, strobe>>

-----------------------------------------------------------------------------
(* A read of the SID: select it while sid_clk is low, wait for a high and  *)
(* the next low phase, sample the pads, hold for three edges.              *)
ReadSt1 ==
  /\ state = "st_read_sid_st1"
  /\ sid_data_oe' = 0
  /\ IF sid_clk = 0
     THEN sid_cs_n' = 0 /\ sid_rw' = 1 /\ state' = "st_read_sid_st2"
     ELSE UNCHANGED <<strobe, state>>
  /\ UNCHANGED <<REG_ADDR, ctl, bus, sid_addr, sid_data_o>>

ReadSt2 ==
  /\ state = "st_read_sid_st2"
  /\ state' = IF sid_clk = 1 THEN "st_read_sid_st3" ELSE state
  /\ UNCHANGED <<REG_ADDR, ctl, bus, sid_addr, sid_data_o, sid_data_oe, strobe>>

(* Mutant: the pads are sampled without waiting for the falling edge. *)
ReadSt3Early(b) ==
  /\ state = "st_read_sid_st3"
  /\ HRDATA' = b.pads /\ state' = "st_read_sid_st4"
  /\ UNCHANGED <<REG_ADDR, ctl, HREADYOUT, sid_addr, sid_data_o, sid_data_oe,
                 strobe>>

ReadSt3(b) ==
  /\ state = "st_read_sid_st3"
  /\ IF sid_clk = 0
     THEN HRDATA' = b.pads /\ state' = "st_read_sid_st4"
     ELSE UNCHANGED <<HRDATA, state>>
  /\ UNCHANGED <<REG_ADDR, ctl, HREADYOUT, sid_addr, sid_data_o, sid_data_oe,
                 strobe>>

(* Mutants of WriteSt1: the direction of a read, a data register too wide. *)
WriteSt1Reads(b) ==
  /\ state = "st_write_sid_st1"
  /\ sid_data_o' = b.HWDATA % 256 /\ sid_data_oe' = 0
  /\ IF sid_clk = 0
     THEN sid_cs_n' = 0 /\ sid_rw' = 1 /\ state' = "st_write_sid_st2"
     ELSE UNCHANGED <<strobe, state>>
  /\ UNCHANGED <<REG_ADDR, ctl, bus, sid_addr>>
(* A write: the data register follows HWDATA until the SID is selected,    *)
(* the pads are driven from the high phase of sid_clk to the end.          *)
WriteSt1(b) ==
  /\ state = "st_write_sid_st1"
  /\ sid_data_o' = b.HWDATA % 256 /\ sid_data_oe' = 0
  /\ IF sid_clk = 0
     THEN sid_cs_n' = 0 /\ sid_rw' = 0 /\ state' = "st_write_sid_st2"
     ELSE UNCHANGED <<strobe, state>>
  /\ UNCHANGED <<REG_ADDR, ctl, bus, sid_addr>>

(* Mutant: the pads are not driven. *)
WriteSt2Undriven ==
  /\ state = "st_write_sid_st2"
  /\ state' = IF sid_clk = 1 THEN "st_write_sid_st3" ELSE state
  /\ UNCHANGED <<REG_ADDR, ctl, bus, sid_addr, sid_data_o, sid_data_oe, strobe>>

WriteSt2 ==
  /\ state = "st_write_sid_st2"
  /\ IF sid_clk = 1
     THEN sid_data_oe' = 1 /\ state' = "st_write_sid_st3"
     ELSE UNCHANGED <<sid_data_oe, state>>
  /\ UNCHANGED <<REG_ADDR, ctl, bus, sid_addr, sid_data_o, strobe>>

WriteSt3 ==
  /\ state = "st_write_sid_st3"
  /\ state' = IF sid_clk = 0 THEN "st_write_sid_st4" ELSE state
  /\ UNCHANGED <<REG_ADDR, ctl, bus, sid_addr, sid_data_o, sid_data_oe, strobe>>

(* The two hold states of each access. *)
Hold(from, to) ==
  /\ state = from
  /\ state' = to
  /\ UNCHANGED <<REG_ADDR, ctl, bus, sid_addr, sid_data_o, sid_data_oe, strobe>>

ReadHold  == \/ Hold("st_read_sid_st4", "st_read_sid_st5")
             \/ Hold("st_read_sid_st5", "st_read_sid_st6")
WriteHold == \/ Hold("st_write_sid_st4", "st_write_sid_st5")
             \/ Hold("st_write_sid_st5", "st_write_sid_st6")

ReadSt6 ==
  /\ state = "st_read_sid_st6"
  /\ HREADYOUT' = 1 /\ sid_cs_n' = 1 /\ sid_rw' = 1
  /\ state' = "st_idle"
  /\ UNCHANGED <<REG_ADDR, ctl, HRDATA, sid_addr, sid_data_o, sid_data_oe>>

(* Mutant: the write is never acknowledged. *)
WriteSt6Silent ==
  /\ state = "st_write_sid_st6"
  /\ sid_data_oe' = 0
  /\ sid_cs_n' = 1 /\ sid_rw' = 1
  /\ state' = "st_idle"
  /\ UNCHANGED <<REG_ADDR, ctl, bus, sid_addr, sid_data_o>>

WriteSt6 ==
  /\ state = "st_write_sid_st6"
  /\ sid_data_oe' = 0
  /\ HREADYOUT' = 1 /\ sid_cs_n' = 1 /\ sid_rw' = 1
  /\ state' = "st_idle"
  /\ UNCHANGED <<REG_ADDR, ctl, HRDATA, sid_addr, sid_data_o>>

-----------------------------------------------------------------------------
(* One edge of HCLK with HRESETN high and the inputs b. *)
ReadSid(b)  == ReadSt1 \/ ReadSt2 \/ ReadSt3(b) \/ ReadHold \/ ReadSt6
WriteSid(b) == WriteSt1(b) \/ WriteSt2 \/ WriteSt3 \/ WriteHold \/ WriteSt6
Idle(b)     == \/ Deselected(b) \/ AcceptRegWrite(b) \/ AcceptRegRead(b)
               \/ AcceptSid(b)

Clock(b) ==
  /\ Divider
  /\ Idle(b) \/ WriteReg(b) \/ ReadSid(b) \/ WriteSid(b)

Next == Reset \/ \E b \in Inputs : Clock(b)

Spec == Init /\ [][Next]_bridge

-----------------------------------------------------------------------------
(* The 6581 looks at its bus while sid_clk, its phi2, is high and sid_cs_n *)
(* is low, and latches a write when that window closes.                    *)
Window(clk, cs_n) == clk = 1 /\ cs_n = 0
WindowCloses == Window(sid_clk, sid_cs_n) /\ ~Window(sid_clk', sid_cs_n')

=============================================================================
