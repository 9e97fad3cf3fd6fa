------------------------------ MODULE SidTiming ------------------------------
(***************************************************************************)
(* The timing of an access to the SID, as the bus and the chip see it: two *)
(* history variables on top of SidBridge, and the properties of the bridge *)
(* alone, for every sequence of bus inputs.                                *)
(***************************************************************************)
EXTENDS SidBridge

VARIABLES stall,    \* edges of HCLK since HREADYOUT went low, 0 when high
          windows   \* windows closed since the current access was accepted

timing == <<bridge, stall, windows>>

History ==
  /\ stall' = IF HREADYOUT' = 0 THEN stall + 1 ELSE 0
  /\ windows' = IF HREADYOUT = 1 THEN 0
                ELSE IF WindowCloses THEN windows + 1 ELSE windows

TimingInit == Init /\ stall = 0 /\ windows = 0
ResetStep == Reset /\ History
ClockStep == (\E b \in Inputs : Clock(b)) /\ History
TimingNext == ResetStep \/ ClockStep

TimingSpec == TimingInit /\ [][TimingNext]_timing

-----------------------------------------------------------------------------
Period == sid_freq + 1      \* edges of HCLK in one phase of sid_clk

(* Edges of HCLK until sid_clk toggles. *)
UntilToggle == IF sid_clk_cntr < sid_freq THEN Period - sid_clk_cntr ELSE 1

St1 == {"st_read_sid_st1", "st_write_sid_st1"}
St2 == {"st_read_sid_st2", "st_write_sid_st2"}
St3 == {"st_read_sid_st3", "st_write_sid_st3"}
St4 == {"st_read_sid_st4", "st_write_sid_st4"}
St5 == {"st_read_sid_st5", "st_write_sid_st5"}
St6 == {"st_read_sid_st6", "st_write_sid_st6"}

(* Edges of HCLK until the current access is acknowledged. *)
Latency ==
  IF      state \in St1 /\ sid_clk = 1          THEN UntilToggle + 2 * Period + 4
  ELSE IF state \in St1 \cup St2 /\ sid_clk = 0 THEN UntilToggle + Period + 4
  ELSE IF state \in St2 \cup St3 /\ sid_clk = 1 THEN UntilToggle + 4
  ELSE IF state \in St3                         THEN 4
  ELSE IF state \in St4                         THEN 3
  ELSE IF state \in St5                         THEN 2
  ELSE                                               1

-----------------------------------------------------------------------------
(* Every register stays within the range its VHDL subtype declares, and    *)
(* the state machine never reaches st_error or st_read_reg.                *)
TypeOK ==
  /\ state \in States
  /\ REG_ADDR \in 0 .. 3
  /\ sid_freq \in 0 .. 255 /\ sid_clk_cntr \in 0 .. 255 /\ sid_clk \in {0, 1}
  /\ HRDATA \in 0 .. 255 /\ HREADYOUT \in {0, 1}
  /\ sid_addr \in 0 .. 31 /\ sid_data_o \in 0 .. 255 /\ sid_data_oe \in {0, 1}
  /\ sid_cs_n \in {0, 1} /\ sid_rw \in {0, 1} /\ sid_rst_n \in {0, 1}
  /\ stall \in Nat /\ windows \in Nat

SelectedRead  == ReadStates \ {"st_read_sid_st1"}
SelectedWrite == WriteStates \ {"st_write_sid_st1"}
Driving       == SelectedWrite \ {"st_write_sid_st2"}

(* The bridge never drives the data pads while the SID is selected for     *)
(* reading, when the chip drives them: whatever resets and accesses follow *)
(* each other, the bidirectional buffers never fight the chip.             *)
NoContention == ~(sid_data_oe = 1 /\ sid_cs_n = 0 /\ sid_rw = 1)

(* The registered pins agree with the state machine in every state: the    *)
(* bus is held exactly while an access is under way, the SID is selected   *)
(* from st2 to st6 and never otherwise, in the direction of the access,    *)
(* and the pads are driven from st3 to st6 of a write only.  No order of   *)
(* accesses and resets leaves the bus hung, the SID selected or the pads   *)
(* driven.                                                                 *)
PinsFollowState ==
  /\ HREADYOUT = 0 <=> state \in ReadStates \cup WriteStates
  /\ sid_cs_n = 0 <=> state \in SelectedRead \cup SelectedWrite
  /\ state \in SelectedRead => sid_rw = 1
  /\ state \in SelectedWrite => sid_rw = 0
  /\ sid_data_oe = 1 <=> state \in Driving

(* However the divider stands when the access arrives, and whatever        *)
(* sid_freq software has set before, the bus is held for at most three     *)
(* phases of sid_clk and four edges of HCLK.                               *)
StallBounded == stall <= 3 * Period + 4

(* The latency of an access is decided when it is accepted: every edge      *)
(* spends one of the edges it still needs, and the two together never      *)
(* exceed three phases of sid_clk and five edges.                          *)
StallBudget ==
  IF HREADYOUT = 0 THEN stall >= 1 /\ stall + Latency <= 3 * Period + 5
                   ELSE stall = 0

(* Software keeps sid_freq at 3 or more: nothing in the bridge enforces it. *)
SafeDivider == ResetFreq >= 3 /\ \A w \in Words : w % 256 >= 3

(* Where the divider stands in the states that follow a toggle of sid_clk, *)
(* and how many windows the chip has seen by then, for sid_freq >= 3: the  *)
(* low phase is long enough for the three hold edges.                      *)
Phase(clk, cntr) == sid_clk = clk /\ sid_clk_cntr = cntr

WindowsCounted ==
  /\ sid_freq >= 3
  /\ state \in St1 => windows = 0
  /\ state \in St2 =>
       windows = 0 /\ (sid_clk = 1 => sid_clk_cntr = 0)
  /\ state \in St3 =>
       \/ windows = 0 /\ sid_clk = 1
       \/ windows = 1 /\ Phase(0, 0)
  /\ state \in St4 => windows = 1 /\ Phase(0, 1)
  /\ state \in St5 => windows = 1 /\ Phase(0, 2)
  /\ state \in St6 => windows = 1 /\ Phase(0, 3)

(* An access that completes has shown the chip exactly one window; a       *)
(* second one would apply a write twice.  Holds for sid_freq >= 3: the     *)
(* three hold edges must fit in the low phase of sid_clk.                  *)
OneWindow ==
  [][ClockStep /\ state \in St6
       => windows' = 1]_timing

(* When a window closes the address, the direction, the select and, for a  *)
(* write, the driven data are what they were before and stay: the chip     *)
(* latches a stable bus.                                                   *)
PinsHeld ==
  [][ClockStep /\ WindowCloses =>
       /\ UNCHANGED <<sid_addr, sid_cs_n, sid_rw, sid_data_o, sid_data_oe>>
       /\ sid_rw = 0 => sid_data_oe = 1]_timing

=============================================================================
