------------------------------ MODULE SidProofs ------------------------------
(***************************************************************************)
(* Theorems about SidTiming, for every set of inputs and every reset value *)
(* of the divider: what the bridge does to the bus and to the chip,        *)
(* whatever its inputs.  And about SidSystem: an access is started once,   *)
(* with its own address, while it is in its data phase, and what software  *)
(* sees of the bridge is what SidPort says of it, for every set of         *)
(* transfers, every wait of SDRAM and every byte the chip answers with.    *)
(***************************************************************************)
EXTENDS SidTiming, SidSystem, TLAPS

-----------------------------------------------------------------------------
(* The bridge alone. *)

(* What one edge does to the state machine, by group of states.  The       *)
(* divider is a conjunct of every one of them.                             *)
LEMMA ClockCases ==
  ASSUME NEW b, Clock(b)
  PROVE  /\ Divider
         /\ \/ Deselected(b) \/ AcceptRegWrite(b) \/ AcceptRegRead(b)
            \/ AcceptSid(b) \/ WriteReg(b)
            \/ ReadSt1 \/ ReadSt2 \/ ReadSt3(b) \/ ReadHold \/ ReadSt6
            \/ WriteSt1(b) \/ WriteSt2 \/ WriteSt3 \/ WriteHold \/ WriteSt6
  BY DEF Clock, Idle, ReadSid, WriteSid

LEMMA DividerTyped ==
  ASSUME TypeOK, Divider
  PROVE  sid_clk_cntr' \in 0 .. 255 /\ sid_clk' \in {0, 1}
  BY DEF TypeOK, Divider

LEMMA HistoryTyped ==
  ASSUME TypeOK, History
  PROVE  stall' \in Nat /\ windows' \in Nat
  BY DEF TypeOK, History

LEMMA InputsTyped ==
  ASSUME NEW b \in Inputs
  PROVE  /\ b.idx \in 0 .. 31 /\ b.idx % 4 \in 0 .. 3
         /\ b.HWDATA % 2 \in {0, 1} /\ b.HWDATA % 256 \in 0 .. 255
         /\ b.pads \in 0 .. 255
  <1>1. /\ b.idx \in 0 .. 31 /\ b.HWDATA \in Nat /\ b.pads \in 0 .. 255
    <2>1. b.idx \in Index /\ b.HWDATA \in Words /\ b.pads \in Bytes
      BY DEF Inputs
    <2> QED BY <2>1, WordsAssumption, BytesAssumption, IndexAssumption, Zenon
  <1>2. ASSUME NEW n \in Nat
        PROVE  n % 4 \in 0 .. 3 /\ n % 2 \in {0, 1} /\ n % 256 \in 0 .. 255
    <2>1. n % 4 \in 0 .. 3
      OBVIOUS
    <2>2. n % 2 \in {0, 1}
      OBVIOUS
    <2>3. n % 256 \in 0 .. 255
      OBVIOUS
    <2> QED BY <2>1, <2>2, <2>3
  <1>3. b.idx \in Nat
    BY <1>1
  <1> QED BY <1>1, <1>2, <1>3

(* An edge without reset keeps every register in its range. *)
LEMMA ClockTyped ==
  ASSUME TypeOK, ClockStep
  PROVE  TypeOK'
  <1>1. PICK b \in Inputs : Clock(b) BY DEF ClockStep
  <1>2. sid_clk_cntr' \in 0 .. 255 /\ sid_clk' \in {0, 1}
    BY <1>1, ClockCases, DividerTyped
  <1>3. stall' \in Nat /\ windows' \in Nat BY HistoryTyped DEF ClockStep
  <1>4. /\ b.idx \in 0 .. 31 /\ b.idx % 4 \in 0 .. 3
        /\ b.HWDATA % 2 \in {0, 1} /\ b.HWDATA % 256 \in 0 .. 255
        /\ b.pads \in 0 .. 255
    BY InputsTyped
  <1> USE <1>2, <1>3, <1>4
  <1> USE DEF TypeOK, States, ReadStates, WriteStates, bus, ctl, strobe
  <1>5. CASE Deselected(b) BY <1>5 DEF Deselected
  <1>6. CASE AcceptRegWrite(b) BY <1>6 DEF AcceptRegWrite
  <1>7. CASE AcceptRegRead(b) BY <1>7 DEF AcceptRegRead, RegValue
  <1>8. CASE AcceptSid(b) BY <1>8 DEF AcceptSid
  <1>9. CASE WriteReg(b) BY <1>9 DEF WriteReg
  <1>10. CASE ReadSt1 BY <1>10 DEF ReadSt1
  <1>11. CASE ReadSt2 BY <1>11 DEF ReadSt2
  <1>12. CASE ReadSt3(b) BY <1>12 DEF ReadSt3
  <1>13. CASE ReadHold BY <1>13 DEF ReadHold, Hold
  <1>14. CASE ReadSt6 BY <1>14 DEF ReadSt6
  <1>15. CASE WriteSt1(b) BY <1>15 DEF WriteSt1
  <1>16. CASE WriteSt2 BY <1>16 DEF WriteSt2
  <1>17. CASE WriteSt3 BY <1>17 DEF WriteSt3
  <1>18. CASE WriteHold BY <1>18 DEF WriteHold, Hold
  <1>19. CASE WriteSt6 BY <1>19 DEF WriteSt6
  <1> QED
    BY <1>1, <1>5, <1>6, <1>7, <1>8, <1>9, <1>10, <1>11, <1>12, <1>13,
       <1>14, <1>15, <1>16, <1>17, <1>18, <1>19, ClockCases

LEMMA ResetTyped ==
  ASSUME TypeOK, ResetStep
  PROVE  TypeOK'
  <1>1. stall' \in Nat /\ windows' \in Nat BY HistoryTyped DEF ResetStep
  <1> QED
    BY <1>1, FreqAssumption
    DEF ResetStep, Reset, TypeOK, States, ReadStates, WriteStates

(* Type correctness: every register stays within the range of its VHDL     *)
(* subtype, and the state machine within the states its branches assign.   *)
THEOREM Typing == TimingSpec => []TypeOK
  <1>1. TimingInit => TypeOK
    BY FreqAssumption
    DEF TimingInit, Init, TypeOK, States, ReadStates, WriteStates
  <1>2. TypeOK /\ [TimingNext]_timing => TypeOK'
    <2> SUFFICES ASSUME TypeOK, [TimingNext]_timing PROVE TypeOK' OBVIOUS
    <2>1. CASE ResetStep BY <2>1, ResetTyped
    <2>2. CASE ClockStep BY <2>2, ClockTyped
    <2>3. CASE UNCHANGED timing
      BY <2>3 DEF TypeOK, timing, bridge, bus, ctl, strobe, divider
    <2> QED BY <2>1, <2>2, <2>3 DEF TimingNext
  <1> QED BY <1>1, <1>2, PTL DEF TimingSpec

-----------------------------------------------------------------------------
(* The pins follow the state machine through every edge.  The hypothesis   *)
(* on types is needed where a register keeps its value: HREADYOUT is 0 or  *)
(* 1 and nothing else.                                                     *)
LEMMA ClockPins ==
  ASSUME TypeOK, PinsFollowState, ClockStep
  PROVE  PinsFollowState'
  <1>1. PICK b \in Inputs : Clock(b) BY DEF ClockStep
  <1> USE DEF TypeOK, PinsFollowState, SelectedRead, SelectedWrite, Driving,
              States, ReadStates, WriteStates, bus, ctl, strobe
  <1>2. CASE Deselected(b) BY <1>2 DEF Deselected
  <1>3. CASE AcceptRegWrite(b) BY <1>3 DEF AcceptRegWrite
  <1>4. CASE AcceptRegRead(b) BY <1>4 DEF AcceptRegRead
  <1>5. CASE AcceptSid(b) BY <1>5 DEF AcceptSid
  <1>6. CASE WriteReg(b) BY <1>6 DEF WriteReg
  <1>7. CASE ReadSt1 BY <1>7 DEF ReadSt1
  <1>8. CASE ReadSt2 BY <1>8 DEF ReadSt2
  <1>9. CASE ReadSt3(b) BY <1>9 DEF ReadSt3
  <1>10. CASE ReadHold BY <1>10 DEF ReadHold, Hold
  <1>11. CASE ReadSt6 BY <1>11 DEF ReadSt6
  <1>12. CASE WriteSt1(b) BY <1>12 DEF WriteSt1
  <1>13. CASE WriteSt2 BY <1>13 DEF WriteSt2
  <1>14. CASE WriteSt3 BY <1>14 DEF WriteSt3
  <1>15. CASE WriteHold BY <1>15 DEF WriteHold, Hold
  <1>16. CASE WriteSt6 BY <1>16 DEF WriteSt6
  <1> QED
    BY <1>1, <1>2, <1>3, <1>4, <1>5, <1>6, <1>7, <1>8, <1>9, <1>10, <1>11,
       <1>12, <1>13, <1>14, <1>15, <1>16, ClockCases

THEOREM PinsInvariant == TimingSpec => []PinsFollowState
  <1>1. TimingInit => PinsFollowState
    BY DEF TimingInit, Init, PinsFollowState, SelectedRead, SelectedWrite,
           Driving, ReadStates, WriteStates
  <1>2. TypeOK /\ PinsFollowState /\ [TimingNext]_timing => PinsFollowState'
    <2> SUFFICES ASSUME TypeOK, PinsFollowState, [TimingNext]_timing
                 PROVE  PinsFollowState'
      OBVIOUS
    <2>1. CASE ResetStep
      BY <2>1 DEF ResetStep, Reset, PinsFollowState, SelectedRead,
                  SelectedWrite, Driving, ReadStates, WriteStates
    <2>2. CASE ClockStep BY <2>2, ClockPins
    <2>3. CASE UNCHANGED timing
      BY <2>3 DEF PinsFollowState, timing, bridge, bus, strobe
    <2> QED BY <2>1, <2>2, <2>3 DEF TimingNext
  <1> QED BY <1>1, <1>2, Typing, PTL DEF TimingSpec

(* No bus contention: for every order of accesses and resets the bridge    *)
(* and the chip never drive the data pads together.                        *)
THEOREM NoContentionAlways == TimingSpec => []NoContention
  <1>1. PinsFollowState => NoContention
    BY DEF PinsFollowState, NoContention, Driving
  <1> QED BY <1>1, PinsInvariant, PTL

-----------------------------------------------------------------------------
(* Every edge of a stalled access spends one edge of its latency.          *)
LEMMA ClockStall ==
  ASSUME TypeOK, PinsFollowState, StallBudget, ClockStep
  PROVE  StallBudget'
  <1>1. PICK b \in Inputs : Clock(b) BY DEF ClockStep
  <1>2. Divider BY <1>1, ClockCases
  <1>3. stall' = IF HREADYOUT' = 0 THEN stall + 1 ELSE 0
    BY DEF ClockStep, History
  <1> USE <1>2, <1>3
  <1> USE DEF TypeOK, PinsFollowState, StallBudget, Latency, St1, St2,
              St3, St4, St5, UntilToggle, Period, Divider, States, ReadStates, WriteStates, bus, ctl,
              strobe
  <1>4. CASE Deselected(b) BY <1>4 DEF Deselected
  <1>5. CASE AcceptRegWrite(b) BY <1>5 DEF AcceptRegWrite
  <1>6. CASE AcceptRegRead(b) BY <1>6 DEF AcceptRegRead
  <1>7. CASE AcceptSid(b) BY <1>7 DEF AcceptSid
  <1>8. CASE WriteReg(b) BY <1>8 DEF WriteReg
  <1>9. CASE ReadSt1 BY <1>9 DEF ReadSt1
  <1>10. CASE ReadSt2 BY <1>10 DEF ReadSt2
  <1>11. CASE ReadSt3(b) BY <1>11 DEF ReadSt3
  <1>12. CASE ReadHold BY <1>12 DEF ReadHold, Hold
  <1>13. CASE ReadSt6 BY <1>13 DEF ReadSt6
  <1>14. CASE WriteSt1(b) BY <1>14 DEF WriteSt1
  <1>15. CASE WriteSt2 BY <1>15 DEF WriteSt2
  <1>16. CASE WriteSt3 BY <1>16 DEF WriteSt3
  <1>17. CASE WriteHold BY <1>17 DEF WriteHold, Hold
  <1>18. CASE WriteSt6 BY <1>18 DEF WriteSt6
  <1> QED
    BY <1>1, <1>4, <1>5, <1>6, <1>7, <1>8, <1>9, <1>10, <1>11, <1>12,
       <1>13, <1>14, <1>15, <1>16, <1>17, <1>18, ClockCases

THEOREM StallInvariant == TimingSpec => []StallBudget
  <1>1. TimingInit => StallBudget BY DEF TimingInit, Init, StallBudget
  <1>2. TypeOK /\ PinsFollowState /\ StallBudget /\ [TimingNext]_timing
          => StallBudget'
    <2> SUFFICES ASSUME TypeOK, PinsFollowState, StallBudget,
                        [TimingNext]_timing
                 PROVE  StallBudget'
      OBVIOUS
    <2>1. CASE ResetStep
      BY <2>1 DEF ResetStep, Reset, History, StallBudget
    <2>2. CASE ClockStep BY <2>2, ClockStall
    <2>3. CASE UNCHANGED timing
      BY <2>3 DEF StallBudget, Latency, UntilToggle, Period, timing, bridge,
                  bus, ctl, divider
    <2> QED BY <2>1, <2>2, <2>3 DEF TimingNext
  <1> QED BY <1>1, <1>2, Typing, PinsInvariant, PTL DEF TimingSpec

(* Bounded stall: however the divider stands and whatever sid_freq is, the *)
(* bus is held for at most three phases of sid_clk and four edges.         *)
THEOREM StallBoundedAlways == TimingSpec => []StallBounded
  <1>1. TypeOK /\ PinsFollowState /\ StallBudget => StallBounded
    <2> SUFFICES ASSUME TypeOK, PinsFollowState, StallBudget
                 PROVE  StallBounded
      OBVIOUS
    <2>1. HREADYOUT = 0 => Latency >= 1
      BY DEF TypeOK, Latency, UntilToggle, Period
    <2> QED
      BY <2>1 DEF TypeOK, StallBudget, StallBounded, Latency, UntilToggle, Period
  <1> QED BY <1>1, Typing, PinsInvariant, StallInvariant, PTL

-----------------------------------------------------------------------------
(* With room for the hold edges in a low phase of sid_clk, an edge keeps   *)
(* the count of windows and the position of the divider in step with the   *)
(* state machine.                                                          *)
LEMMA ClockWindows ==
  ASSUME SafeDivider, TypeOK, PinsFollowState, WindowsCounted, ClockStep
  PROVE  WindowsCounted'
  <1>1. PICK b \in Inputs : Clock(b) BY DEF ClockStep
  <1>2. Divider BY <1>1, ClockCases
  <1>3. windows' = IF HREADYOUT = 1 THEN 0
                   ELSE IF WindowCloses THEN windows + 1 ELSE windows
    BY DEF ClockStep, History
  <1>4. b.HWDATA % 256 >= 3 BY DEF SafeDivider, Inputs
  <1>5. b.HWDATA % 256 \in 0 .. 255 BY InputsTyped
  <1> USE <1>2, <1>3, <1>4, <1>5
  <1> USE DEF TypeOK, PinsFollowState, WindowsCounted, Phase, St1, St2,
              St3, St4, St5, St6, WindowCloses, Window, SelectedRead, SelectedWrite, Divider, States,
              ReadStates, WriteStates, bus, ctl, strobe
  <1>6. CASE Deselected(b) BY <1>6 DEF Deselected
  <1>7. CASE AcceptRegWrite(b) BY <1>7 DEF AcceptRegWrite
  <1>8. CASE AcceptRegRead(b) BY <1>8 DEF AcceptRegRead
  <1>9. CASE AcceptSid(b) BY <1>9 DEF AcceptSid
  <1>10. CASE WriteReg(b) BY <1>10 DEF WriteReg
  <1>11. CASE ReadSt1 BY <1>11 DEF ReadSt1
  <1>12. CASE ReadSt2 BY <1>12 DEF ReadSt2
  <1>13. CASE ReadSt3(b) BY <1>13 DEF ReadSt3
  <1>14. CASE ReadHold BY <1>14 DEF ReadHold, Hold
  <1>15. CASE ReadSt6 BY <1>15 DEF ReadSt6
  <1>16. CASE WriteSt1(b) BY <1>16 DEF WriteSt1
  <1>17. CASE WriteSt2 BY <1>17 DEF WriteSt2
  <1>18. CASE WriteSt3 BY <1>18 DEF WriteSt3
  <1>19. CASE WriteHold BY <1>19 DEF WriteHold, Hold
  <1>20. CASE WriteSt6 BY <1>20 DEF WriteSt6
  <1> QED
    BY <1>1, <1>6, <1>7, <1>8, <1>9, <1>10, <1>11, <1>12, <1>13, <1>14,
       <1>15, <1>16, <1>17, <1>18, <1>19, <1>20, ClockCases

THEOREM WindowsInvariant == SafeDivider /\ TimingSpec => []WindowsCounted
  <1> SUFFICES ASSUME SafeDivider PROVE TimingSpec => []WindowsCounted
    OBVIOUS
  <1>1. TimingInit => WindowsCounted
    BY FreqAssumption DEF SafeDivider, TimingInit, Init, WindowsCounted, St1, St2, St3,
                           St4, St5, St6
  <1>2. TypeOK /\ PinsFollowState /\ WindowsCounted /\ [TimingNext]_timing
          => WindowsCounted'
    <2> SUFFICES ASSUME TypeOK, PinsFollowState, WindowsCounted,
                        [TimingNext]_timing
                 PROVE  WindowsCounted'
      OBVIOUS
    <2>1. CASE ResetStep
      BY <2>1, FreqAssumption
      DEF SafeDivider, ResetStep, Reset, WindowsCounted, St1, St2, St3, St4,
          St5, St6
    <2>2. CASE ClockStep BY <2>2, ClockWindows
    <2>3. CASE UNCHANGED timing
      BY <2>3 DEF WindowsCounted, Phase, timing, bridge, ctl, divider
    <2> QED BY <2>1, <2>2, <2>3 DEF TimingNext
  <1> QED BY <1>1, <1>2, Typing, PinsInvariant, PTL DEF TimingSpec

(* Exactly one window: with sid_freq >= 3 an access that completes has     *)
(* shown the chip one window, so a write is latched once.                  *)
THEOREM OneWindowAlways == SafeDivider /\ TimingSpec => OneWindow
  <1>1. TypeOK /\ PinsFollowState /\ WindowsCounted /\ [TimingNext]_timing
          => [ClockStep /\ state \in St6
                => windows' = 1]_timing
    BY DEF TypeOK, PinsFollowState, WindowsCounted, Phase, St6, ClockStep, History,
           WindowCloses, Window, ReadStates, WriteStates
  <1> QED
    BY <1>1, Typing, PinsInvariant, WindowsInvariant, PTL
    DEF TimingSpec, OneWindow

-----------------------------------------------------------------------------
(* A window is open only in a state that follows the selection: no edge    *)
(* that closes it moves the address, the direction or the data.            *)
LEMMA ClosingHolds ==
  ASSUME TypeOK, PinsFollowState, WindowsCounted, ClockStep, WindowCloses
  PROVE  /\ UNCHANGED <<sid_addr, sid_cs_n, sid_rw, sid_data_o, sid_data_oe>>
         /\ sid_rw = 0 => sid_data_oe = 1
  <1>1. PICK b \in Inputs : Clock(b) BY DEF ClockStep
  <1>2. Divider BY <1>1, ClockCases
  <1>3. /\ state \in St2 \cup St3 /\ sid_clk = 1 /\ sid_cs_n = 0
        /\ sid_freq >= 3 /\ (state \in St2 => sid_clk_cntr = 0)
    BY DEF TypeOK, PinsFollowState, WindowsCounted, Phase, WindowCloses,
           Window, SelectedRead, SelectedWrite, States, ReadStates, WriteStates,
           St1, St2, St3, St4, St5, St6
  <1>4. sid_cs_n' = 0
    BY <1>1, <1>3, ClockCases
    DEF St2, St3, Deselected, AcceptRegWrite, AcceptRegRead, AcceptSid, WriteReg,
        ReadSt1, ReadSt2, ReadSt3, ReadHold, Hold, ReadSt6, WriteSt1, WriteSt2,
        WriteSt3, WriteHold, WriteSt6, strobe
  <1>5. sid_clk' = 0 BY <1>3, <1>4, <1>2 DEF WindowCloses, Window, Divider
  <1>6. state \in St3
    BY <1>2, <1>3, <1>5 DEF Divider, TypeOK
  <1>7. sid_rw = 0 => sid_data_oe = 1
    BY <1>6 DEF St3, PinsFollowState, SelectedRead, Driving, SelectedWrite,
                ReadStates, WriteStates
  <1>8. UNCHANGED <<sid_addr, sid_cs_n, sid_rw, sid_data_o, sid_data_oe>>
    BY <1>1, <1>6, ClockCases
    DEF St3, Deselected, AcceptRegWrite, AcceptRegRead, AcceptSid, WriteReg,
        ReadSt1, ReadSt2, ReadSt3, ReadHold, Hold, ReadSt6, WriteSt1, WriteSt2,
        WriteSt3, WriteHold, WriteSt6, strobe
  <1> QED BY <1>7, <1>8

(* A stable bus: with sid_freq >= 3, when a window closes the address, the *)
(* select, the direction and the driven data stay as they are, so that the *)
(* chip latches what software wrote where software wrote it.               *)
THEOREM PinsHeldAlways == SafeDivider /\ TimingSpec => PinsHeld
  <1>1. TypeOK /\ PinsFollowState /\ WindowsCounted /\ [TimingNext]_timing
          => [ClockStep /\ WindowCloses =>
                /\ UNCHANGED <<sid_addr, sid_cs_n, sid_rw, sid_data_o,
                               sid_data_oe>>
                /\ sid_rw = 0 => sid_data_oe = 1]_timing
    BY ClosingHolds
  <1> QED
    BY <1>1, Typing, PinsInvariant, WindowsInvariant, PTL
    DEF TimingSpec, PinsHeld

-----------------------------------------------------------------------------
(* The bridge on its bus. *)

(* What is asked of the master, because the bridge looks at HSEL alone: no *)
(* address is driven behind a write to one of its registers, nor one of    *)
(* the bridge behind another slave, which may wait.  And of its software:  *)
(* the divider is never set below 3.                                       *)
RegisterWrite(t) == t.slave = "BRIDGE" /\ t.a14 = 0 /\ t.HWRITE = 1
Disciplined ==
  /\ \A d, t \in Transfers : <<d, t>> \in Follows =>
       /\ ~RegisterWrite(d)
       /\ d.slave = "BRIDGE" \/ t.slave # "BRIDGE"
  /\ ResetFreq >= 3
  /\ \A t \in Transfers : RegisterWrite(t) /\ t.idx % 4 = 1 => t.data % 256 >= 3

-----------------------------------------------------------------------------
(* The inductive invariant. *)
SystemTypeOK ==
  /\ aph \in Transfers \cup {NoTransfer} /\ dph \in Transfers \cup {NoTransfer}
  /\ sdWait \in Nat
  /\ arb \in [Slaves -> {"DONE", "EXTEND"}] /\ dataInProg \in [Slaves -> BOOLEAN]
  /\ state \in States /\ HREADYOUT \in {0, 1}
  /\ sid_clk \in {0, 1} /\ sid_clk_cntr \in Nat /\ sid_freq \in Nat
  /\ q \in Bytes

(* The two phases of the bus: the master's second address phase is one it  *)
(* may drive there, the fabric knows the slave in the data phase, never    *)
(* has to set an address aside, and only that slave is waited for.         *)
Phases ==
  /\ dph # NoTransfer /\ aph # NoTransfer => <<dph, aph>> \in Follows
  /\ addrRegSM = "IDLE" /\ SDATASEL = dph.slave
  /\ \A s \in Slaves : /\ dph.slave = s => dataInProg[s]
                       /\ arb[s] = "EXTEND" => aph.slave = s
                       /\ rdy[s] = 0 => dph.slave = s

(* The bridge is at work on the access in the data phase, and on no other; *)
(* an access it is done with has its result on the bus.                    *)
Reads  == state \in ReadStates
Writes == state \in WriteStates
Agreement ==
  /\ HREADYOUT = 0 <=> Reads \/ Writes
  /\ Reads \/ Writes => /\ BridgeOp /\ dph.a14 = 1 /\ sid_addr = dph.idx
                        /\ dph.HWRITE = IF Writes THEN 1 ELSE 0
  /\ state = "st_write_reg" =>
       /\ BridgeOp /\ RegisterWrite(dph) /\ REG_ADDR = dph.idx % 4 /\ aph = NoTransfer
  /\ state = "st_idle" /\ BridgeOp =>
       /\ ~RegisterWrite(dph)
       /\ dph.a14 = 0 => HRDATA = RegValue(dph.idx % 4)
       /\ dph.a14 = 1 /\ dph.HWRITE = 0 => HRDATA = chipRead

(* Where sid_clk stands in an access, so that its window opens once and    *)
(* closes once, ahead of the last states.                                  *)
Windows ==
  /\ sid_freq >= 3
  /\ state \in {"st_idle", "st_write_reg", "st_read_sid_st1", "st_write_sid_st1"} => sid_cs_n = 1
  /\ state \in (ReadStates \cup WriteStates) \ {"st_read_sid_st1", "st_write_sid_st1"} =>
       sid_cs_n = 0 /\ sid_rw = IF Reads THEN 1 ELSE 0
  /\ state \in {"st_read_sid_st2", "st_write_sid_st2"} /\ sid_clk = 1 => sid_clk_cntr = 0
  /\ state \in {"st_read_sid_st3", "st_write_sid_st3"} /\ sid_clk = 0 => sid_clk_cntr = 0
  /\ state \in {"st_read_sid_st4", "st_write_sid_st4"} => sid_clk = 0 /\ sid_clk_cntr = 1
  /\ state \in {"st_read_sid_st5", "st_write_sid_st5"} => sid_clk = 0 /\ sid_clk_cntr = 2
  /\ state \in {"st_read_sid_st6", "st_write_sid_st6"} => sid_clk = 0 /\ sid_clk_cntr = 3

(* What is on the data lines of the chip, and in it: a write has its byte  *)
(* out, a read its answer, until the bridge has it and the bus.            *)
Data ==
  /\ sid_rst_n = 0 => file = Cleared
  /\ Reads => sid_data_oe = 0
  /\ state \in WriteStates \ {"st_write_sid_st1"} => sid_data_o = dph.data % 256
  /\ state = "st_write_sid_st3" => sid_data_oe = 1
  /\ state = "st_read_sid_st3" /\ sid_clk = 0 => chipRead = q
  /\ state \in {"st_read_sid_st4", "st_read_sid_st5", "st_read_sid_st6"} => HRDATA = chipRead

IInv == SystemTypeOK /\ Phases /\ Agreement /\ Windows /\ Data

-----------------------------------------------------------------------------
(* The fabric. *)

(* What becomes of the fabric's outputs where the phases are in step: no   *)
(* address is registered, a slave sees the address the master drives, and  *)
(* the master waits only for the slave in its data phase.                  *)
LEMMA Outputs ==
  ASSUME SystemTypeOK, Phases
  PROVE  /\ Gated(aph) = aph
         /\ PrevDataReady(rdy) <=> HREADY_M(rdy)
         /\ BridgeOp => (HREADY_M(rdy) <=> HREADYOUT = 1)
         /\ dph.slave = "SDRAM" => (HREADY_M(rdy) <=> sdWait = 0)
         /\ dph = NoTransfer => HREADY_M(rdy)
         /\ \A s \in Slaves : AddrInProg(s, aph) <=> aph.slave = s
         /\ HREADY_M(rdy) => \A s \in Slaves : rdy[s] = 1
         /\ ~SetsAddressAside(aph, rdy)
<1> USE SystemAssumption DEF Slaves, NoTransfer
<1>1. dph.slave \in Slaves \cup {"OTHER", "NONE"} /\ aph.slave \in Slaves \cup {"OTHER", "NONE"}
  BY DEF SystemTypeOK
<1>2. rdy["BRIDGE"] = HREADYOUT /\ rdy["SDRAM"] = IF sdWait = 0 THEN 1 ELSE 0
  BY DEF rdy
<1>3. Gated(aph) = aph BY DEF Phases, Gated
<1>4. \A s \in Slaves : AddrInProg(s, aph) <=> aph.slave = s
  BY <1>3 DEF AddrInProg, SADDRSEL, Phases
<1>5. PrevDataReady(rdy) <=> HREADY_M(rdy)
  BY <1>1 DEF PrevDataReady, HREADY_M, Phases
<1>6. BridgeOp => (HREADY_M(rdy) <=> HREADYOUT = 1)
  BY <1>2 DEF HREADY_M, Phases, BridgeOp
<1>7. dph.slave = "SDRAM" => (HREADY_M(rdy) <=> sdWait = 0)
  BY <1>2 DEF HREADY_M, Phases
<1>8. dph = NoTransfer => HREADY_M(rdy) BY DEF HREADY_M, Phases
<1>9. HREADY_M(rdy) => \A s \in Slaves : rdy[s] = 1
  <2> SUFFICES ASSUME HREADY_M(rdy), NEW s \in Slaves, rdy[s] # 1 PROVE FALSE OBVIOUS
  <2>1. rdy[s] = 0 BY <1>2 DEF SystemTypeOK
  <2>2. dph.slave = s BY <2>1 DEF Phases
  <2> QED BY <2>1, <2>2, <1>2, <1>6, <1>7 DEF BridgeOp
<1>10. ~SetsAddressAside(aph, rdy)
  BY <1>3, <1>9 DEF SetsAddressAside, AddrReady, SADDRSEL
<1> QED BY <1>3, <1>4, <1>5, <1>6, <1>7, <1>8, <1>9, <1>10

(* One edge of HCLK for master, fabric and SDRAM, with a bridge that makes *)
(* nobody wait but the access in its data phase.                           *)
LEMMA PhasesNext ==
  ASSUME SystemTypeOK, Phases, MasterAdvances \/ MasterWaits, FabricClock(aph, rdy), SdramClock,
         HREADYOUT' \in {0, 1}, HREADYOUT' = 0 => dph'.slave = "BRIDGE"
  PROVE  /\ Phases'
         /\ aph' \in Transfers \cup {NoTransfer} /\ dph' \in Transfers \cup {NoTransfer}
         /\ sdWait' \in Nat
         /\ arb' \in [Slaves -> {"DONE", "EXTEND"}] /\ dataInProg' \in [Slaves -> BOOLEAN]
<1> USE SystemAssumption DEF Slaves, NoTransfer
<1> DEFINE Ready == HREADY_M(rdy)
<1>1. dph.slave \in Slaves \cup {"OTHER", "NONE"} /\ aph.slave \in Slaves \cup {"OTHER", "NONE"}
  BY DEF SystemTypeOK
<1>2. rdy["BRIDGE"] = HREADYOUT /\ rdy["SDRAM"] = IF sdWait = 0 THEN 1 ELSE 0
  BY DEF rdy
<1>3. rdy' = [s \in Slaves |-> IF s = "BRIDGE" THEN HREADYOUT'
                               ELSE IF sdWait' = 0 THEN 1 ELSE 0]
  BY DEF rdy
<1>4. /\ Gated(aph) = aph
      /\ PrevDataReady(rdy) <=> Ready
      /\ BridgeOp => (Ready <=> HREADYOUT = 1)
      /\ dph.slave = "SDRAM" => (Ready <=> sdWait = 0)
      /\ dph = NoTransfer => Ready
      /\ \A s \in Slaves : AddrInProg(s, aph) <=> aph.slave = s
      /\ Ready => \A s \in Slaves : rdy[s] = 1
      /\ ~SetsAddressAside(aph, rdy)
  BY Outputs
<1>5. Ready => dph' = aph /\ aph' \in NextAddress(aph) BY DEF MasterAdvances, MasterWaits
<1>6. ~Ready => dph' = dph /\ aph' \in IF aph = NoTransfer THEN NextAddress(dph) ELSE {aph}
  BY DEF MasterAdvances, MasterWaits
<1> HIDE DEF Ready
<1>7. /\ aph' \in Transfers \cup {NoTransfer} /\ dph' \in Transfers \cup {NoTransfer}
      /\ dph' # NoTransfer /\ aph' # NoTransfer => <<dph', aph'>> \in Follows
  <2>1. CASE Ready BY <2>1, <1>5 DEF NextAddress, SystemTypeOK
  <2>2. CASE ~Ready BY <2>2, <1>6 DEF NextAddress, SystemTypeOK, Phases
  <2> QED BY <2>1, <2>2
<1>8. addrRegSM' = "IDLE" BY <1>4 DEF FabricClock, MasterStage, Phases
<1>9. SDATASEL' = dph'.slave
  <2>1. SDATASEL' = IF Ready THEN aph.slave ELSE SDATASEL
    BY <1>4 DEF FabricClock, MasterStage, SADDRSEL
  <2> QED BY <2>1, <1>5, <1>6 DEF Phases
<1>10. \A s \in Slaves : /\ arb'[s] = IF aph.slave = s /\ rdy[s] = 0 THEN "EXTEND" ELSE "DONE"
                         /\ dataInProg'[s] = IF rdy[s] = 1 THEN aph.slave = s ELSE dataInProg[s]
  <2>1. /\ arb' = [s \in Slaves |-> IF AddrInProg(s, aph) /\ rdy[s] = 0 THEN "EXTEND" ELSE "DONE"]
        /\ dataInProg' = [s \in Slaves |-> IF rdy[s] = 1 THEN AddrInProg(s, aph) ELSE dataInProg[s]]
    BY DEF FabricClock, SlaveStages
  <2>2. SUFFICES ASSUME NEW s \in Slaves
                 PROVE  /\ arb'[s] = IF aph.slave = s /\ rdy[s] = 0 THEN "EXTEND" ELSE "DONE"
                        /\ dataInProg'[s] = IF rdy[s] = 1 THEN aph.slave = s ELSE dataInProg[s]
    OBVIOUS
  <2>3. AddrInProg(s, aph) <=> aph.slave = s BY <1>4
  <2>4. arb'[s] = IF AddrInProg(s, aph) /\ rdy[s] = 0 THEN "EXTEND" ELSE "DONE" BY <2>1
  <2>5. dataInProg'[s] = IF rdy[s] = 1 THEN AddrInProg(s, aph) ELSE dataInProg[s] BY <2>1
  <2>6. AddrInProg(s, aph) \in BOOLEAN /\ (aph.slave = s) \in BOOLEAN BY DEF AddrInProg
  <2>7. AddrInProg(s, aph) = (aph.slave = s) BY <2>3, <2>6
  <2> QED BY <2>4, <2>5, <2>7
<1>11. arb' \in [Slaves -> {"DONE", "EXTEND"}]
  BY DEF FabricClock, SlaveStages
<1>12. dataInProg' \in [Slaves -> BOOLEAN]
  <2>1. dataInProg' = [s \in Slaves |-> IF rdy[s] = 1 THEN AddrInProg(s, aph) ELSE dataInProg[s]]
    BY DEF FabricClock, SlaveStages
  <2>2. \A s \in Slaves : (IF rdy[s] = 1 THEN AddrInProg(s, aph) ELSE dataInProg[s]) \in BOOLEAN
    BY DEF AddrInProg, SystemTypeOK
  <2> QED BY <2>1, <2>2
<1>13. sdWait' \in Nat BY DEF SdramClock, SystemTypeOK
<1>14. ASSUME NEW s \in Slaves, dph'.slave = s PROVE dataInProg'[s]
  <2>1. CASE Ready BY <2>1, <1>4, <1>5, <1>10, <1>14
  <2>2. CASE ~Ready
    <3>1. dph.slave = s BY <2>2, <1>6, <1>14
    <3>2. rdy[s] # 1 BY <3>1, <2>2, <1>2, <1>4 DEF BridgeOp
    <3> QED BY <3>1, <3>2, <1>10 DEF Phases
  <2> QED BY <2>1, <2>2
<1>15. ASSUME NEW s \in Slaves, arb'[s] = "EXTEND" PROVE aph'.slave = s
  <2>1. aph.slave = s /\ rdy[s] = 0 BY <1>10, <1>15
  <2>2. ~Ready BY <2>1, <1>4
  <2> QED BY <2>1, <2>2, <1>6
<1>16. sdWait' # 0 => dph'.slave = "SDRAM"
  <2>1. CASE sdWait > 0
    <3>1. rdy["SDRAM"] = 0 /\ dph.slave = "SDRAM" BY <2>1, <1>2 DEF Phases
    <3>2. ~Ready BY <3>1, <1>4
    <3> QED BY <3>1, <3>2, <1>6
  <2>2. CASE ~(sdWait > 0) /\ SlaveHTRANS("SDRAM", aph, rdy)
    <3>1. aph.slave = "SDRAM" /\ (Ready \/ dph.slave = "SDRAM")
      BY <2>2, <1>4 DEF SlaveHTRANS, Phases
    <3>2. sdWait = 0 BY <2>2 DEF SystemTypeOK
    <3> QED BY <3>1, <3>2, <1>4, <1>5
  <2>3. CASE ~(sdWait > 0) /\ ~SlaveHTRANS("SDRAM", aph, rdy) BY <2>3 DEF SdramClock
  <2> QED BY <2>1, <2>2, <2>3
<1>17. ASSUME NEW s \in Slaves, rdy'[s] = 0 PROVE dph'.slave = s
  BY <1>3, <1>16, <1>17
<1> QED
  <2>1. Phases' <=>
          /\ dph' # NoTransfer /\ aph' # NoTransfer => <<dph', aph'>> \in Follows
          /\ addrRegSM' = "IDLE" /\ SDATASEL' = dph'.slave
          /\ \A s \in Slaves : /\ dph'.slave = s => dataInProg'[s]
                               /\ arb'[s] = "EXTEND" => aph'.slave = s
                               /\ rdy'[s] = 0 => dph'.slave = s
    BY DEF Phases
  <2> QED BY <2>1, <1>7, <1>8, <1>9, <1>11, <1>12, <1>13, <1>14, <1>15, <1>17

-----------------------------------------------------------------------------
(* The bridge. *)

(* The branch of the state machine that an edge takes. *)
LEMMA Branches ==
  ASSUME NEW b, Clock(b)
  PROVE  /\ state = "st_idle" => Idle(b)
         /\ state = "st_write_reg" => WriteReg(b)
         /\ state = "st_read_sid_st1" => ReadSt1
         /\ state = "st_read_sid_st2" => ReadSt2
         /\ state = "st_read_sid_st3" => ReadSt3(b)
         /\ state \in {"st_read_sid_st4", "st_read_sid_st5"} => ReadHold
         /\ state = "st_read_sid_st6" => ReadSt6
         /\ state = "st_write_sid_st1" => WriteSt1(b)
         /\ state = "st_write_sid_st2" => WriteSt2
         /\ state = "st_write_sid_st3" => WriteSt3
         /\ state \in {"st_write_sid_st4", "st_write_sid_st5"} => WriteHold
         /\ state = "st_write_sid_st6" => WriteSt6
  BY DEF Clock, Idle, Deselected, AcceptRegWrite, AcceptRegRead, AcceptSid, WriteReg, ReadSid,
         ReadSt1, ReadSt2, ReadSt3, ReadHold, ReadSt6, WriteSid, WriteSt1, WriteSt2, WriteSt3,
         WriteHold, WriteSt6, Hold

(* What the bridge finds at its inputs: it is selected for the address the *)
(* master drives, and finds the data of the access in its data phase.      *)
LEMMA Inputs1 ==
  ASSUME SystemTypeOK, Phases
  PROVE  /\ BridgeInputs.HSEL = IF aph.slave = "BRIDGE" THEN 1 ELSE 0
         /\ aph.slave = "BRIDGE" => /\ BridgeInputs.a14 = aph.a14
                                    /\ BridgeInputs.idx = aph.idx
                                    /\ BridgeInputs.HWRITE = aph.HWRITE
         /\ BridgeOp /\ dph.HWRITE = 1 => BridgeInputs.HWDATA = dph.data
         /\ BridgeInputs.pads = Pads
<1>1. Gated(aph) = aph /\ (AddrInProg("BRIDGE", aph) <=> aph.slave = "BRIDGE")
  BY Outputs DEF Slaves
<1>2. BridgeOp => dataInProg["BRIDGE"] /\ dph # NoTransfer
  BY DEF BridgeOp, Phases, Slaves, NoTransfer
<1> QED BY <1>1, <1>2 DEF BridgeInputs, MasterHWDATA

(* Whose turn it is.  The bridge takes an address only when the master     *)
(* moves on, so that the access is in its data phase from the next edge;   *)
(* behind a write of a register there is none; during an access to the     *)
(* chip the master waits.                                                  *)
LEMMA InTurn ==
  ASSUME IInv, Disciplined, SystemNext
  PROVE  /\ state = "st_idle" /\ (aph.slave = "BRIDGE" \/ BridgeOp) => MasterAdvances /\ dph' = aph
         /\ state = "st_idle" /\ aph.slave # "BRIDGE" => dph'.slave # "BRIDGE"
         /\ state = "st_write_reg" => MasterAdvances /\ dph' = NoTransfer /\ aph.slave # "BRIDGE"
         /\ Reads \/ Writes => MasterWaits /\ dph' = dph
<1> USE DEF IInv
<1>1. HREADY_M(rdy) => MasterAdvances /\ dph' = aph
  BY DEF SystemNext, MasterAdvances, MasterWaits
<1>2. ~HREADY_M(rdy) => MasterWaits /\ dph' = dph
  BY DEF SystemNext, MasterAdvances, MasterWaits
<1>3. /\ BridgeOp => (HREADY_M(rdy) <=> HREADYOUT = 1)
      /\ dph = NoTransfer => HREADY_M(rdy)
  BY Outputs
<1>4. HREADYOUT = 1 <=> ~(Reads \/ Writes) BY DEF Agreement, SystemTypeOK
<1>5. state = "st_idle" => HREADYOUT = 1 BY <1>4 DEF Reads, Writes, ReadStates, WriteStates
<1>6. state = "st_write_reg" => HREADYOUT = 1 /\ BridgeOp /\ aph = NoTransfer
  BY <1>4 DEF Reads, Writes, ReadStates, WriteStates, Agreement
<1>7. aph.slave = "BRIDGE" /\ ~BridgeOp => dph = NoTransfer
  <2> SUFFICES ASSUME aph.slave = "BRIDGE", dph.slave # "BRIDGE", dph # NoTransfer PROVE FALSE
    BY DEF BridgeOp
  <2>1. dph \in Transfers /\ aph \in Transfers /\ <<dph, aph>> \in Follows
    BY DEF SystemTypeOK, NoTransfer, Phases
  <2> QED BY <2>1 DEF Disciplined
<1>8. Reads \/ Writes => BridgeOp /\ HREADYOUT # 1 BY <1>4 DEF Agreement
<1>9. state = "st_idle" /\ (aph.slave = "BRIDGE" \/ BridgeOp) => HREADY_M(rdy)
  BY <1>3, <1>5, <1>7
<1>10. state = "st_idle" /\ aph.slave # "BRIDGE" => dph'.slave # "BRIDGE"
  BY <1>1, <1>2, <1>9 DEF BridgeOp
<1>11. NoTransfer.slave # "BRIDGE" BY DEF NoTransfer
<1> QED BY <1>1, <1>2, <1>3, <1>6, <1>8, <1>9, <1>10, <1>11

(* What an edge makes of the divider. *)
LEMMA DividerNext ==
  ASSUME SystemTypeOK, Divider
  PROVE  /\ sid_clk' \in {0, 1} /\ sid_clk_cntr' \in Nat
         /\ sid_clk_cntr < sid_freq => sid_clk' = sid_clk /\ sid_clk_cntr' = sid_clk_cntr + 1
         /\ sid_clk' # sid_clk => sid_clk_cntr' = 0
  BY DEF SystemTypeOK, Divider

(* The registers of the bridge stay in their ranges, and the divider at 3  *)
(* or above, when its inputs are those of the bus.                         *)
LEMMA RegistersNext ==
  ASSUME IInv, Disciplined, SystemNext
  PROVE  /\ state' \in States /\ HREADYOUT' \in {0, 1}
         /\ sid_clk' \in {0, 1} /\ sid_clk_cntr' \in Nat
         /\ sid_freq' \in Nat /\ sid_freq' >= 3
         /\ q' \in Bytes
<1> USE DEF IInv
<1>1. Clock(BridgeInputs) /\ ChipClock BY DEF SystemNext
<1>2. sid_clk' \in {0, 1} /\ sid_clk_cntr' \in Nat BY <1>1, DividerNext DEF Clock
<1>3. q' \in Bytes BY <1>1 DEF ChipClock, SystemTypeOK
<1>4. state' \in States /\ HREADYOUT' \in {0, 1}
  BY <1>1 DEF SystemTypeOK, Clock, Idle, Deselected, AcceptRegWrite, AcceptRegRead, AcceptSid, WriteReg,
              ReadSid, ReadSt1, ReadSt2, ReadSt3, ReadHold, ReadSt6, WriteSid, WriteSt1, WriteSt2,
              WriteSt3, WriteHold, WriteSt6, Hold, bus, States, ReadStates, WriteStates
<1>5. sid_freq' \in Nat /\ sid_freq' >= 3
  <2>1. CASE state = "st_write_reg"
    <3>1. WriteReg(BridgeInputs) BY <1>1, <2>1, Branches
    <3>2. BridgeOp /\ RegisterWrite(dph) /\ REG_ADDR = dph.idx % 4 BY <2>1 DEF Agreement
    <3>3. dph \in Transfers BY <3>2 DEF BridgeOp, SystemTypeOK, NoTransfer
    <3>4. BridgeInputs.HWDATA = dph.data BY <3>2, Inputs1 DEF RegisterWrite
    <3>5. dph.data \in Nat
      <4>1. dph.slave = "BRIDGE" /\ dph.HWRITE = 1 BY <3>2 DEF RegisterWrite
      <4>2. dph.data \in Words BY <4>1, <3>3, SystemAssumption
      <4> QED BY <4>2, WordsAssumption
    <3>6. REG_ADDR = 1 => dph.data % 256 >= 3 BY <3>2, <3>3 DEF Disciplined
    <3>7. sid_freq' = IF REG_ADDR = 1 THEN dph.data % 256 ELSE sid_freq
      BY <3>1, <3>4 DEF WriteReg
    <3>8. dph.data % 256 \in Nat BY <3>5
    <3> QED BY <3>6, <3>7, <3>8 DEF SystemTypeOK, Windows
  <2>2. CASE state # "st_write_reg"
    <3>1. sid_freq' = sid_freq
      BY <2>2, <1>1 DEF Clock, Idle, Deselected, AcceptRegWrite, AcceptRegRead, AcceptSid, WriteReg,
              ReadSid, ReadSt1, ReadSt2, ReadSt3, ReadHold, ReadSt6, WriteSid, WriteSt1, WriteSt2,
              WriteSt3, WriteHold, WriteSt6, Hold, ctl
    <3> QED BY <3>1 DEF SystemTypeOK, Windows
  <2> QED BY <2>1, <2>2
<1> QED BY <1>2, <1>3, <1>4, <1>5

(* An edge in st_idle: the access that is driven is taken on, and a read   *)
(* of a register has its result at once.                                   *)
LEMMA IdleAgreement ==
  ASSUME IInv, Disciplined, SystemNext, state = "st_idle" PROVE Agreement'
<1> USE DEF IInv
<1> DEFINE b == BridgeInputs
<1>1. Clock(b) /\ ChipClock BY DEF SystemNext
<1>2. Idle(b) BY <1>1, Branches
<1>3. sid_freq' = sid_freq /\ sid_rst_n' = sid_rst_n
  BY <1>2 DEF Idle, Deselected, AcceptRegWrite, AcceptRegRead, AcceptSid, ctl
<1>5. CASE aph.slave # "BRIDGE"
  <2>1. dph'.slave # "BRIDGE" /\ b.HSEL = 0 BY <1>5, InTurn, Inputs1
  <2>2. state' = "st_idle" /\ HREADYOUT' = HREADYOUT
    BY <2>1, <1>2 DEF Idle, Deselected, AcceptRegWrite, AcceptRegRead, AcceptSid, bus
  <2> QED BY <2>1, <2>2 DEF Agreement, Reads, Writes, ReadStates, WriteStates, BridgeOp
<1>6. CASE aph.slave = "BRIDGE"
  <2>1. dph' = aph BY <1>6, InTurn
  <2>2. b.HSEL = 1 /\ b.a14 = aph.a14 /\ b.idx = aph.idx /\ b.HWRITE = aph.HWRITE
    BY <1>6, Inputs1
  <2>3. aph.a14 \in {0, 1} /\ aph.HWRITE \in {0, 1}
    <3>1. aph \in Transfers BY <1>6 DEF SystemTypeOK, NoTransfer
    <3> QED BY <3>1, <1>6, SystemAssumption
  <2> HIDE DEF b
  <2>4. CASE aph.a14 = 0 /\ aph.HWRITE = 1
    <3>1. AcceptRegWrite(b)
      BY <2>2, <2>4, <1>2 DEF Idle, Deselected, AcceptRegWrite, AcceptRegRead, AcceptSid
    <3>2. aph' = NoTransfer
      <4>1. MasterAdvances BY <1>6, InTurn
      <4>2. aph \in Transfers /\ RegisterWrite(aph)
        BY <1>6, <2>4 DEF SystemTypeOK, NoTransfer, RegisterWrite
      <4>3. aph # NoTransfer BY <1>6 DEF NoTransfer
      <4> QED BY <4>1, <4>2, <4>3 DEF MasterAdvances, NextAddress, Disciplined
    <3> QED BY <3>1, <3>2, <2>1, <2>2, <2>4, <1>6
        DEF AcceptRegWrite, Agreement, Reads, Writes, ReadStates, WriteStates, BridgeOp, RegisterWrite
  <2>5. CASE aph.a14 = 0 /\ aph.HWRITE = 0
    <3>1. AcceptRegRead(b)
      BY <2>2, <2>5, <1>2 DEF Idle, Deselected, AcceptRegWrite, AcceptRegRead, AcceptSid
    <3>2. state' = "st_idle" /\ HREADYOUT' = 1 /\ HRDATA' = RegValue(aph.idx % 4)
      BY <3>1, <2>2 DEF AcceptRegRead
    <3>3. RegValue(aph.idx % 4) = RegValue(dph.idx % 4)'
      BY <2>1, <1>3 DEF RegValue
    <3> QED BY <3>2, <3>3, <2>1, <2>5, <1>6
        DEF Agreement, Reads, Writes, ReadStates, WriteStates, BridgeOp, RegisterWrite
  <2>6. CASE aph.a14 = 1
    <3>1. AcceptSid(b)
      BY <2>2, <2>6, <1>2 DEF Idle, Deselected, AcceptRegWrite, AcceptRegRead, AcceptSid
    <3> QED BY <3>1, <2>1, <2>2, <2>3, <2>6, <1>6
        DEF AcceptSid, Agreement, Reads, Writes, ReadStates, WriteStates, BridgeOp
  <2> QED BY <2>3, <2>4, <2>5, <2>6
<1> QED BY <1>5, <1>6

(* An edge in st_write_reg ends the access. *)
LEMMA WriteRegAgreement ==
  ASSUME IInv, Disciplined, SystemNext, state = "st_write_reg" PROVE Agreement'
<1>1. WriteReg(BridgeInputs) BY Branches DEF SystemNext
<1>2. dph' = NoTransfer BY InTurn
<1>3. HREADYOUT = 1
  BY DEF IInv, Agreement, SystemTypeOK, Reads, Writes, ReadStates, WriteStates
<1>4. state' = "st_idle" /\ HREADYOUT' = 1 BY <1>1, <1>3 DEF WriteReg, bus
<1> QED BY <1>2, <1>4
        DEF Agreement, Reads, Writes, ReadStates, WriteStates, BridgeOp, NoTransfer

(* During an access to the chip the bridge keeps its address, and its last *)
(* edge has what was read on the bus.                                      *)
LEMMA AccessAgreement ==
  ASSUME IInv, Disciplined, SystemNext, Reads \/ Writes PROVE Agreement'
<1> USE DEF IInv
<1>1. dph' = dph BY InTurn
<1>2. Clock(BridgeInputs) /\ ChipClock BY DEF SystemNext
<1>3. BridgeOp /\ dph.a14 = 1 /\ sid_addr = dph.idx /\ dph.HWRITE = (IF Writes THEN 1 ELSE 0)
  BY DEF Agreement
<1>4. HREADYOUT = 0 BY DEF Agreement
<1>5. BridgeOp' /\ dph'.a14 = 1 /\ dph'.HWRITE = (IF Writes THEN 1 ELSE 0) /\ ~RegisterWrite(dph)'
  BY <1>1, <1>3 DEF BridgeOp, RegisterWrite
<1>6. CASE state \in {"st_read_sid_st6", "st_write_sid_st6"}
  <2>1. ReadSt6 \/ WriteSt6 BY <1>2, <1>6, Branches
  <2>2. state' = "st_idle" /\ HREADYOUT' = 1 /\ HRDATA' = HRDATA
    BY <2>1 DEF ReadSt6, WriteSt6
  <2>3. Reads => chipRead' = HRDATA
    <3>1. Reads => state = "st_read_sid_st6" BY <1>6 DEF Reads, ReadStates
    <3>2. state = "st_read_sid_st6" => HRDATA = chipRead /\ sid_clk = 0 BY DEF Data, Windows
    <3> QED BY <3>1, <3>2, <1>2 DEF ChipClock, WindowCloses, Window
  <2>4. Writes <=> ~Reads BY DEF Reads, Writes, ReadStates, WriteStates
  <2> QED BY <2>2, <2>3, <2>4, <1>5
          DEF Agreement, Reads, Writes, ReadStates, WriteStates
<1>7. CASE state \notin {"st_read_sid_st6", "st_write_sid_st6"}
  <2>1. \/ ReadSt1 \/ ReadSt2 \/ ReadSt3(BridgeInputs) \/ ReadHold
        \/ WriteSt1(BridgeInputs) \/ WriteSt2 \/ WriteSt3 \/ WriteHold
    BY <1>2, <1>7, Branches DEF Reads, Writes, ReadStates, WriteStates
  <2>2. HREADYOUT' = HREADYOUT /\ sid_addr' = sid_addr
    BY <2>1 DEF ReadSt1, ReadSt2, ReadSt3, ReadHold, WriteSt1, WriteSt2, WriteSt3, WriteHold, Hold,
                bus
  <2>3. (Reads => Reads') /\ (Writes => Writes')
    BY <2>1 DEF ReadSt1, ReadSt2, ReadSt3, ReadHold, WriteSt1, WriteSt2, WriteSt3, WriteHold, Hold,
                Reads, Writes, ReadStates, WriteStates
  <2>4. (Writes => ~Reads) /\ (Writes' => ~Reads') /\ (Reads' \/ Writes' => state' \notin {"st_idle", "st_write_reg"})
    BY DEF Reads, Writes, ReadStates, WriteStates
  <2> QED BY <2>2, <2>3, <2>4, <1>1, <1>3, <1>4, <1>5 DEF Agreement
<1> QED BY <1>6, <1>7

LEMMA AgreementNext ==
  ASSUME IInv, Disciplined, SystemNext PROVE Agreement'
<1>1. state \in {"st_idle", "st_write_reg"} \/ Reads \/ Writes
  BY DEF IInv, SystemTypeOK, States, Reads, Writes
<1> QED BY <1>1, IdleAgreement, WriteRegAgreement, AccessAgreement

LEMMA TypesAndPhasesNext ==
  ASSUME IInv, Disciplined, SystemNext PROVE SystemTypeOK' /\ Phases'
<1>1. HREADYOUT' \in {0, 1} BY RegistersNext
<1>2. HREADYOUT' = 0 => dph'.slave = "BRIDGE" BY AgreementNext DEF Agreement, BridgeOp
<1>3. /\ Phases'
      /\ aph' \in Transfers \cup {NoTransfer} /\ dph' \in Transfers \cup {NoTransfer}
      /\ sdWait' \in Nat
      /\ arb' \in [Slaves -> {"DONE", "EXTEND"}] /\ dataInProg' \in [Slaves -> BOOLEAN]
  BY <1>1, <1>2, PhasesNext DEF IInv, SystemNext
<1> QED BY <1>3, RegistersNext DEF SystemTypeOK

-----------------------------------------------------------------------------
(* The window of an access. *)
(* An edge keeps sid_clk in step with the states. *)
LEMMA WindowsNext ==
  ASSUME IInv, Disciplined, SystemNext PROVE Windows'
<1> USE DEF IInv
<1>1. Clock(BridgeInputs) BY DEF SystemNext
<1>2. /\ sid_clk' \in {0, 1} /\ sid_clk_cntr' \in Nat
      /\ sid_clk_cntr < sid_freq => sid_clk' = sid_clk /\ sid_clk_cntr' = sid_clk_cntr + 1
      /\ sid_clk' # sid_clk => sid_clk_cntr' = 0
  BY <1>1, DividerNext DEF Clock
<1>3. sid_freq' >= 3 BY RegistersNext
<1>4. sid_freq >= 3 /\ sid_freq \in Nat /\ sid_clk \in {0, 1} /\ sid_clk_cntr \in Nat
  BY DEF Windows, SystemTypeOK
<1> USE DEF ReadStates, WriteStates, Reads, Writes
<1>5. CASE state = "st_idle"
  <2>1. Idle(BridgeInputs) BY <1>1, <1>5, Branches
  <2>2. sid_cs_n = 1 BY <1>5 DEF Windows
  <2>3. /\ sid_cs_n' = 1
        /\ state' \in {"st_idle", "st_write_reg", "st_read_sid_st1", "st_write_sid_st1"}
    BY <2>1, <2>2, <1>5
       DEF Idle, Deselected, AcceptRegWrite, AcceptRegRead, AcceptSid, strobe
  <2> QED BY <2>3, <1>3 DEF Windows
<1>6. CASE state = "st_write_reg"
  <2>1. WriteReg(BridgeInputs) BY <1>1, <1>6, Branches
  <2>2. sid_cs_n = 1 BY <1>6 DEF Windows
  <2> QED BY <2>1, <2>2, <1>3 DEF WriteReg, strobe, Windows
<1>7. CASE state = "st_read_sid_st1"
  <2>1. ReadSt1 BY <1>1, <1>7, Branches
  <2>2. sid_cs_n = 1 BY <1>7 DEF Windows
  <2>3. \/ state' = "st_read_sid_st1" /\ sid_cs_n' = 1
        \/ state' = "st_read_sid_st2" /\ sid_cs_n' = 0 /\ sid_rw' = 1 /\ sid_clk = 0
    BY <2>1, <2>2, <1>7 DEF ReadSt1, strobe
  <2> QED BY <2>3, <1>2, <1>3 DEF Windows
<1>8. CASE state = "st_write_sid_st1"
  <2>1. WriteSt1(BridgeInputs) BY <1>1, <1>8, Branches
  <2>2. sid_cs_n = 1 BY <1>8 DEF Windows
  <2>3. \/ state' = "st_write_sid_st1" /\ sid_cs_n' = 1
        \/ state' = "st_write_sid_st2" /\ sid_cs_n' = 0 /\ sid_rw' = 0 /\ sid_clk = 0
    BY <2>1, <2>2, <1>8 DEF WriteSt1, strobe
  <2> QED BY <2>3, <1>2, <1>3 DEF Windows
<1>9. CASE state \in {"st_read_sid_st2", "st_read_sid_st3", "st_read_sid_st4", "st_read_sid_st5"}
  <2>1. ReadSt2 \/ ReadSt3(BridgeInputs) \/ ReadHold BY <1>1, <1>9, Branches
  <2>2. sid_cs_n = 0 /\ sid_rw = 1 BY <1>9 DEF Windows
  <2>3. sid_cs_n' = 0 /\ sid_rw' = 1
    BY <2>1, <2>2 DEF ReadSt2, ReadSt3, ReadHold, Hold, strobe
  <2>4. /\ state = "st_read_sid_st2" =>
             state' = IF sid_clk = 1 THEN "st_read_sid_st3" ELSE "st_read_sid_st2"
        /\ state = "st_read_sid_st3" =>
             state' = IF sid_clk = 0 THEN "st_read_sid_st4" ELSE "st_read_sid_st3"
        /\ state = "st_read_sid_st4" => state' = "st_read_sid_st5"
        /\ state = "st_read_sid_st5" => state' = "st_read_sid_st6"
    BY <2>1 DEF ReadSt2, ReadSt3, ReadHold, Hold
  <2>5. /\ state = "st_read_sid_st2" /\ sid_clk = 1 => sid_clk_cntr = 0
        /\ state = "st_read_sid_st3" /\ sid_clk = 0 => sid_clk_cntr = 0
        /\ state = "st_read_sid_st4" => sid_clk = 0 /\ sid_clk_cntr = 1
        /\ state = "st_read_sid_st5" => sid_clk = 0 /\ sid_clk_cntr = 2
    BY DEF Windows
  <2> QED BY <2>3, <2>4, <2>5, <1>2, <1>3, <1>4, <1>9 DEF Windows
<1>10. CASE state \in {"st_write_sid_st2", "st_write_sid_st3", "st_write_sid_st4", "st_write_sid_st5"}
  <2>1. WriteSt2 \/ WriteSt3 \/ WriteHold BY <1>1, <1>10, Branches
  <2>2. sid_cs_n = 0 /\ sid_rw = 0 BY <1>10 DEF Windows
  <2>3. sid_cs_n' = 0 /\ sid_rw' = 0
    BY <2>1, <2>2 DEF WriteSt2, WriteSt3, WriteHold, Hold, strobe
  <2>4. /\ state = "st_write_sid_st2" =>
             state' = IF sid_clk = 1 THEN "st_write_sid_st3" ELSE "st_write_sid_st2"
        /\ state = "st_write_sid_st3" =>
             state' = IF sid_clk = 0 THEN "st_write_sid_st4" ELSE "st_write_sid_st3"
        /\ state = "st_write_sid_st4" => state' = "st_write_sid_st5"
        /\ state = "st_write_sid_st5" => state' = "st_write_sid_st6"
    BY <2>1 DEF WriteSt2, WriteSt3, WriteHold, Hold
  <2>5. /\ state = "st_write_sid_st2" /\ sid_clk = 1 => sid_clk_cntr = 0
        /\ state = "st_write_sid_st3" /\ sid_clk = 0 => sid_clk_cntr = 0
        /\ state = "st_write_sid_st4" => sid_clk = 0 /\ sid_clk_cntr = 1
        /\ state = "st_write_sid_st5" => sid_clk = 0 /\ sid_clk_cntr = 2
    BY DEF Windows
  <2> QED BY <2>3, <2>4, <2>5, <1>2, <1>3, <1>4, <1>10 DEF Windows
<1>11. CASE state \in {"st_read_sid_st6", "st_write_sid_st6"}
  <2>1. ReadSt6 \/ WriteSt6 BY <1>1, <1>11, Branches
  <2> QED BY <2>1, <1>3 DEF ReadSt6, WriteSt6, Windows
<1> QED BY <1>5, <1>6, <1>7, <1>8, <1>9, <1>10, <1>11 DEF SystemTypeOK, States

(* The window closes in the third states, and in no others; the chip keeps *)
(* the byte it drives from before that on.                                 *)
LEMMA Closing ==
  ASSUME IInv, Disciplined, SystemNext
  PROVE  /\ WindowCloses <=> /\ state \in {"st_read_sid_st3", "st_write_sid_st3"}
                             /\ sid_clk = 1 /\ sid_clk' = 0
         /\ state \notin {"st_read_sid_st1", "st_read_sid_st2"} => q' = q
<1> USE DEF IInv, ReadStates, WriteStates, Reads, Writes
<1>1. Clock(BridgeInputs) /\ ChipClock BY DEF SystemNext
<1>2. /\ sid_clk' \in {0, 1} /\ sid_clk_cntr' \in Nat
      /\ sid_clk_cntr < sid_freq => sid_clk' = sid_clk /\ sid_clk_cntr' = sid_clk_cntr + 1
      /\ sid_clk' # sid_clk => sid_clk_cntr' = 0
  BY <1>1, DividerNext DEF Clock
<1>3. sid_freq >= 3 /\ sid_freq \in Nat /\ sid_clk \in {0, 1} /\ sid_clk_cntr \in Nat
  BY DEF Windows, SystemTypeOK
<1>4. state \in States BY DEF SystemTypeOK
<1>5. Windows' BY WindowsNext
<1>6. CASE state \in {"st_idle", "st_write_reg", "st_read_sid_st1", "st_write_sid_st1"}
  <2>1. sid_cs_n = 1 BY <1>6 DEF Windows
  <2>2. state # "st_read_sid_st1" => sid_cs_n' = 1 \/ sid_rw' # 1
    <3>1. \/ Idle(BridgeInputs) \/ WriteReg(BridgeInputs) \/ WriteSt1(BridgeInputs)
          \/ state = "st_read_sid_st1"
      BY <1>1, <1>6, Branches
    <3> QED BY <3>1, <2>1
            DEF Idle, Deselected, AcceptRegWrite, AcceptRegRead, AcceptSid, WriteReg, WriteSt1,
                strobe
  <2> QED BY <1>1, <1>6, <2>1, <2>2 DEF ChipClock, WindowCloses, WindowOpens, Window
<1>7. CASE state \in {"st_read_sid_st2", "st_write_sid_st2"}
  <2>1. sid_clk = 1 => sid_clk' = 1 BY <1>2, <1>3, <1>7 DEF Windows
  <2>2. ReadSt2 \/ WriteSt2 BY <1>1, <1>7, Branches
  <2>3. sid_cs_n' = sid_cs_n /\ sid_rw' = sid_rw BY <2>2 DEF ReadSt2, WriteSt2, strobe
  <2>4. sid_cs_n = 0 /\ (state = "st_write_sid_st2" => sid_rw = 0) BY <1>7 DEF Windows
  <2> QED BY <1>1, <1>7, <2>1, <2>3, <2>4 DEF ChipClock, WindowCloses, WindowOpens, Window
<1>8. CASE state \in {"st_read_sid_st3", "st_write_sid_st3"}
  <2>1. sid_cs_n = 0 BY <1>8 DEF Windows
  <2>2. ReadSt3(BridgeInputs) \/ WriteSt3 BY <1>1, <1>8, Branches
  <2>3. sid_cs_n' = 0 BY <2>1, <2>2 DEF ReadSt3, WriteSt3, strobe
  <2>4. sid_clk = 0 => sid_clk' = 0 BY <1>2, <1>3, <1>8 DEF Windows
  <2>5. WindowCloses <=> sid_clk = 1 /\ sid_clk' = 0
    BY <1>2, <1>3, <2>1, <2>3 DEF WindowCloses, Window
  <2>6. ~WindowOpens BY <1>3, <2>1, <2>4 DEF WindowOpens, Window
  <2> QED BY <1>1, <1>8, <2>5, <2>6 DEF ChipClock
<1>9. CASE state \in {"st_read_sid_st4", "st_write_sid_st4", "st_read_sid_st5", "st_write_sid_st5"}
  <2>1. sid_clk = 0 /\ sid_clk' = 0 BY <1>2, <1>3, <1>9 DEF Windows
  <2> QED BY <1>1, <1>9, <2>1 DEF ChipClock, WindowCloses, WindowOpens, Window
<1>10. CASE state \in {"st_read_sid_st6", "st_write_sid_st6"}
  <2>1. ReadSt6 \/ WriteSt6 BY <1>1, <1>10, Branches
  <2>2. sid_clk = 0 /\ sid_cs_n' = 1 BY <1>10, <2>1 DEF Windows, ReadSt6, WriteSt6
  <2> QED BY <1>1, <1>10, <2>2 DEF ChipClock, WindowCloses, WindowOpens, Window
<1> QED BY <1>4, <1>6, <1>7, <1>8, <1>9, <1>10 DEF States

(* An edge keeps the data where it belongs. *)
LEMMA DataNext ==
  ASSUME IInv, Disciplined, SystemNext PROVE Data'
<1> USE DEF IInv, ReadStates, WriteStates, Reads, Writes
<1>1. Clock(BridgeInputs) /\ ChipClock BY DEF SystemNext
<1>2. sid_rst_n' = 0 => file' = Cleared BY <1>1 DEF ChipClock
<1>3. Cleared' = Cleared BY DEF Cleared
<1>4. /\ WindowCloses <=> /\ state \in {"st_read_sid_st3", "st_write_sid_st3"}
                          /\ sid_clk = 1 /\ sid_clk' = 0
      /\ state \notin {"st_read_sid_st1", "st_read_sid_st2"} => q' = q
  BY Closing
<1>5. sid_clk \in {0, 1} /\ sid_clk' \in {0, 1}
  BY RegistersNext DEF SystemTypeOK
<1>6. CASE state = "st_idle"
  <2>1. Idle(BridgeInputs) BY <1>1, <1>6, Branches
  <2>2. /\ state' \in {"st_idle", "st_write_reg", "st_read_sid_st1", "st_write_sid_st1"}
        /\ sid_data_oe' = 0
    BY <1>6, <2>1 DEF Idle, Deselected, AcceptRegWrite, AcceptRegRead, AcceptSid
  <2> QED BY <2>2, <1>2, <1>3 DEF Data
<1>7. CASE state = "st_write_reg"
  <2>1. WriteReg(BridgeInputs) BY <1>1, <1>7, Branches
  <2> QED BY <2>1, <1>2, <1>3 DEF Data, WriteReg
<1>8. CASE Writes
  <2>1. dph' = dph BY <1>8, InTurn
  <2>2. CASE state = "st_write_sid_st1"
    <3>1. WriteSt1(BridgeInputs) BY <1>1, <2>2, Branches
    <3>2. BridgeInputs.HWDATA = dph.data
      BY <1>8, Inputs1 DEF Agreement
    <3>3. sid_data_o' = dph.data % 256 /\ state' \in {"st_write_sid_st1", "st_write_sid_st2"}
      BY <3>1, <3>2 DEF WriteSt1
    <3> QED BY <3>3, <2>1, <1>2, <1>3 DEF Data
  <2>3. CASE state \in {"st_write_sid_st2", "st_write_sid_st3", "st_write_sid_st4", "st_write_sid_st5"}
    <3>1. WriteSt2 \/ WriteSt3 \/ WriteHold BY <1>1, <2>3, Branches
    <3>2. sid_data_o' = sid_data_o /\ state' \in WriteStates
      BY <3>1 DEF WriteSt2, WriteSt3, WriteHold, Hold
    <3>3. state' = "st_write_sid_st3" => sid_data_oe' = 1
      <4>1. CASE state = "st_write_sid_st2"
        <5>1. WriteSt2 BY <1>1, <4>1, Branches
        <5> QED BY <5>1, <4>1 DEF WriteSt2
      <4>2. CASE state # "st_write_sid_st2"
        <5>1. WriteSt3 \/ WriteHold BY <1>1, <2>3, <4>2, Branches
        <5> QED BY <5>1 DEF WriteSt3, WriteHold, Hold, Data
      <4> QED BY <4>1, <4>2
    <3>4. sid_data_o = dph.data % 256 BY <2>3 DEF Data
    <3> QED BY <3>2, <3>3, <3>4, <2>1, <1>2, <1>3 DEF Data
  <2>4. CASE state = "st_write_sid_st6"
    <3>1. WriteSt6 BY <1>1, <2>4, Branches
    <3> QED BY <3>1, <1>2, <1>3 DEF WriteSt6, Data
  <2> QED BY <1>8, <2>2, <2>3, <2>4
<1>9. CASE Reads
  <2>1. sid_data_oe = 0 BY <1>9 DEF Data
  <2>2. CASE state \in {"st_read_sid_st1", "st_read_sid_st2"}
    <3>1. ReadSt1 \/ ReadSt2 BY <1>1, <2>2, Branches
    <3>2. /\ sid_data_oe' = 0
          /\ state' \in {"st_read_sid_st1", "st_read_sid_st2", "st_read_sid_st3"}
          /\ state' = "st_read_sid_st3" => state = "st_read_sid_st2" /\ sid_clk = 1
      BY <3>1, <2>1 DEF ReadSt1, ReadSt2
    <3>3. sid_freq > 0 /\ (state = "st_read_sid_st2" /\ sid_clk = 1 => sid_clk_cntr = 0)
      BY DEF Windows, SystemTypeOK
    <3>4. sid_clk_cntr < sid_freq => sid_clk' = sid_clk BY <1>1, DividerNext DEF Clock
    <3>5. state' = "st_read_sid_st3" => sid_clk' = 1 BY <3>2, <3>3, <3>4
    <3> QED BY <3>2, <3>5, <1>2, <1>3 DEF Data
  <2>3. CASE state = "st_read_sid_st3"
    <3>1. ReadSt3(BridgeInputs) BY <1>1, <2>3, Branches
    <3>2. BridgeInputs.pads = q BY <2>1, Inputs1 DEF Pads
    <3>3. q' = q BY <1>4, <2>3
    <3>4. chipRead' = IF WindowCloses THEN q ELSE chipRead
      <4>1. sid_rw = 1 BY <2>3 DEF Windows
      <4> QED BY <4>1, <1>1 DEF ChipClock
    <3>5. sid_clk = 0 => chipRead = q BY <2>3 DEF Data
    <3>6. sid_data_oe' = 0 BY <3>1, <2>1 DEF ReadSt3
    <3>7. CASE sid_clk = 0
      <4>1. state' = "st_read_sid_st4" /\ HRDATA' = q /\ chipRead' = q
        BY <3>1, <3>2, <3>4, <3>5, <3>7, <1>4 DEF ReadSt3
      <4> QED BY <4>1, <3>6, <1>2, <1>3 DEF Data
    <3>8. CASE sid_clk = 1
      <4>1. state' = "st_read_sid_st3" BY <3>1, <3>8, <2>3 DEF ReadSt3
      <4>2. sid_clk' = 0 => chipRead' = q' BY <3>3, <3>4, <3>8, <1>4, <2>3
      <4> QED BY <4>1, <4>2, <3>6, <1>2, <1>3 DEF Data
    <3> QED BY <3>7, <3>8, <1>5
  <2>4. CASE state \in {"st_read_sid_st4", "st_read_sid_st5"}
    <3>1. ReadHold BY <1>1, <2>4, Branches
    <3>2. /\ state' \in {"st_read_sid_st5", "st_read_sid_st6"}
          /\ HRDATA' = HRDATA /\ sid_data_oe' = sid_data_oe
      BY <3>1 DEF ReadHold, Hold, bus
    <3>3. chipRead' = chipRead BY <1>1, <1>4, <2>4 DEF ChipClock
    <3>4. HRDATA = chipRead BY <2>4 DEF Data
    <3> QED BY <3>2, <3>3, <3>4, <2>1, <1>2, <1>3 DEF Data
  <2>5. CASE state = "st_read_sid_st6"
    <3>1. ReadSt6 BY <1>1, <2>5, Branches
    <3> QED BY <3>1, <1>2, <1>3 DEF ReadSt6, Data
  <2> QED BY <1>9, <2>2, <2>3, <2>4, <2>5
<1> QED BY <1>6, <1>7, <1>8, <1>9 DEF SystemTypeOK, States

(* The invariant is inductive. *)
LEMMA InvariantInit == ASSUME Disciplined, SystemInit PROVE IInv
<1> USE DEF SystemInit, Init, FabricInit, ChipInit
<1>1. SystemTypeOK BY FreqAssumption DEF SystemTypeOK, Slaves, States
<1>2. Phases
  <2>1. rdy["BRIDGE"] = 1 /\ rdy["SDRAM"] = 1 BY DEF rdy, Slaves
  <2>2. \A s \in Slaves : rdy[s] = 1 BY <2>1 DEF Slaves
  <2> QED BY <2>2 DEF Phases, Slaves, NoTransfer
<1>3. Agreement
  BY DEF Agreement, Reads, Writes, ReadStates, WriteStates, BridgeOp, NoTransfer
<1>4. Windows BY FreqAssumption DEF Windows, Disciplined, ReadStates, WriteStates
<1>5. Data BY DEF Data, Reads, ReadStates, WriteStates
<1> QED BY <1>1, <1>2, <1>3, <1>4, <1>5 DEF IInv

LEMMA InvariantNext ==
  ASSUME Disciplined, IInv, [SystemNext]_system PROVE IInv'
<1>1. CASE SystemNext
  BY <1>1, TypesAndPhasesNext, AgreementNext, WindowsNext, DataNext DEF IInv
<1>2. CASE UNCHANGED system
  BY <1>2 DEF system, bridge, fabric, chip, master, ctl, divider, bus, strobe, IInv, SystemTypeOK, Phases,
              Agreement, Windows, Data, rdy, Reads, Writes, BridgeOp, RegValue, RegisterWrite, Cleared
<1> QED BY <1>1, <1>2

-----------------------------------------------------------------------------
(* The abstract port. *)
BusAccesses == {t \in Transfers : t.slave = "BRIDGE"}
Op   == IF BridgeOp THEN dph ELSE NoTransfer
Done == BridgeOp /\ dph.a14 = 1 /\ Carried
Acc  == [op |-> Op, done |-> Done]
Ctl  == [rst_n |-> sid_rst_n, freq |-> sid_freq]

(* An edge on which the bridge is not at work on the chip: the chip        *)
(* notices a reset at most, and the next access may begin.                 *)
LEMMA BetweenAccesses ==
  ASSUME IInv, Disciplined, SystemNext, state \in {"st_idle", "st_write_reg"}
  PROVE  /\ file' = IF sid_rst_n' = 0 THEN Cleared ELSE file
         /\ chipRead' = chipRead
         /\ aph.slave # "BRIDGE" => Acc' = [op |-> NoTransfer, done |-> FALSE]
         /\ aph.slave = "BRIDGE" => Acc' = [op |-> aph, done |-> FALSE] /\ aph \in BusAccesses
<1> USE DEF IInv
<1>1. Clock(BridgeInputs) /\ ChipClock BY DEF SystemNext
<1>2. ~WindowCloses BY Closing
<1>3. file' = IF sid_rst_n' = 0 THEN Cleared ELSE file BY <1>1, <1>2 DEF ChipClock
<1>4. chipRead' = chipRead BY <1>1, <1>2 DEF ChipClock
<1>5. CASE aph.slave # "BRIDGE"
  <2>1. dph'.slave # "BRIDGE" BY <1>5, InTurn DEF NoTransfer
  <2>2. Op' = NoTransfer /\ Done' = FALSE BY <2>1 DEF Op, Done, BridgeOp
  <2> QED BY <1>3, <1>4, <1>5, <2>2 DEF Acc
<1>6. CASE aph.slave = "BRIDGE"
  <2>1. state = "st_idle" /\ dph' = aph BY <1>6, InTurn
  <2>2. Idle(BridgeInputs) BY <1>1, <2>1, Branches
  <2>3. BridgeInputs.HSEL = 1 /\ BridgeInputs.a14 = aph.a14 BY <1>6, Inputs1
  <2>4. aph.a14 = 1 => state' \in {"st_read_sid_st1", "st_write_sid_st1"}
    BY <2>2, <2>3 DEF Idle, Deselected, AcceptRegWrite, AcceptRegRead, AcceptSid
  <2>5. Op' = aph BY <1>6, <2>1 DEF Op, BridgeOp
  <2>6. Done' = FALSE BY <2>1, <2>4 DEF Done, Carried, Past
  <2>7. aph \in BusAccesses BY <1>6 DEF BusAccesses, SystemTypeOK, NoTransfer
  <2> QED BY <1>3, <1>4, <1>6, <2>5, <2>6, <2>7 DEF Acc
<1> QED BY <1>5, <1>6

(* What software gets when an access ends. *)
LEMMA Gets ==
  ASSUME IInv, Disciplined, SystemNext
  PROVE  /\ ~BridgeOp => got' = got
         /\ Reads \/ Writes => got' = got
         /\ state \in {"st_idle", "st_write_reg"} /\ BridgeOp =>
              got' = IF dph.HWRITE = 0 THEN HRDATA ELSE got
<1>1. MasterAdvances \/ MasterWaits BY DEF SystemNext
<1>2. state \in {"st_idle", "st_write_reg"} /\ BridgeOp => MasterAdvances BY InTurn
<1>3. Reads \/ Writes => MasterWaits BY InTurn
<1> QED BY <1>1, <1>2, <1>3 DEF MasterAdvances, MasterWaits, BridgeOp

(* Between accesses, and where one begins or ends.                         *)
LEMMA IdlePort ==
  ASSUME IInv, Disciplined, SystemNext, state = "st_idle"
  PROVE  PORT!Next \/ UNCHANGED PORT!port
<1> USE DEF IInv
<1>1. Idle(BridgeInputs) BY Branches DEF SystemNext
<1>2. sid_freq' = sid_freq /\ sid_rst_n' = sid_rst_n
  BY <1>1 DEF Idle, Deselected, AcceptRegWrite, AcceptRegRead, AcceptSid, ctl
<1>3. /\ file' = IF sid_rst_n' = 0 THEN Cleared ELSE file
      /\ chipRead' = chipRead
      /\ aph.slave # "BRIDGE" => Acc' = [op |-> NoTransfer, done |-> FALSE]
      /\ aph.slave = "BRIDGE" => Acc' = [op |-> aph, done |-> FALSE] /\ aph \in BusAccesses
  BY BetweenAccesses
<1>4. file' = file /\ Ctl' = Ctl BY <1>2, <1>3 DEF Data, Ctl
<1>5. PORT!MayBegin
  BY <1>3 DEF PORT!MayBegin, PORT!NoAccess, PORT!Begun, Acc, Op, Done, BusAccesses, NoTransfer
<1>6. CASE ~BridgeOp
  <2>1. Acc = [op |-> NoTransfer, done |-> FALSE] BY <1>6 DEF Acc, Op, Done
  <2>2. got' = got BY <1>6, Gets
  <2>3. CASE aph.slave # "BRIDGE"
    <3>1. Acc' = Acc BY <2>1, <2>3, <1>3
    <3> QED BY <3>1, <1>3, <1>4, <2>2 DEF PORT!port, Acc, Op, Done, Ctl
  <2>4. CASE aph.slave = "BRIDGE"
    <3>1. PORT!Begin
      BY <2>1, <2>2, <2>4, <1>3, <1>4
         DEF PORT!Begin, PORT!NoAccess, PORT!Begun, Acc, Op, Done, BusAccesses, NoTransfer, Ctl
    <3> QED BY <3>1 DEF PORT!Next
  <2> QED BY <2>3, <2>4
<1>7. CASE BridgeOp
  <2>1. dph.slave = "BRIDGE" /\ dph \in Transfers BY <1>7 DEF BridgeOp, SystemTypeOK, NoTransfer
  <2>2. dph.a14 \in {0, 1} /\ dph.HWRITE \in {0, 1} BY <2>1, SystemAssumption
  <2>3. ~RegisterWrite(dph) /\ (dph.a14 = 0 => HRDATA = RegValue(dph.idx % 4))
        /\ (dph.a14 = 1 /\ dph.HWRITE = 0 => HRDATA = chipRead)
    BY <1>7 DEF Agreement
  <2>4. got' = IF dph.HWRITE = 0 THEN HRDATA ELSE got BY <1>7, Gets
  <2>5. Acc = [op |-> dph, done |-> Done] /\ Acc # [op |-> NoTransfer, done |-> FALSE]
    BY <1>7, <2>1 DEF Acc, Op, NoTransfer
  <2>6. CASE dph.a14 = 0
    <3>1. dph.HWRITE = 0 BY <2>1, <2>2, <2>3, <2>6 DEF RegisterWrite
    <3>2. got' = CASE dph.idx % 4 = 0 -> sid_rst_n [] dph.idx % 4 = 1 -> sid_freq [] OTHER -> 0
      BY <2>3, <2>4, <2>6, <3>1 DEF RegValue
    <3>3. PORT!ReadControl
      BY <2>5, <2>6, <3>1, <3>2, <1>3, <1>4, <1>5
         DEF PORT!ReadControl, PORT!NoAccess, PORT!Control, PORT!Register, Acc, Op, Done, NoTransfer,
             Ctl
    <3> QED BY <3>3 DEF PORT!Next
  <2>7. CASE dph.a14 = 1
    <3>1. Done BY <1>7, <2>7 DEF Done, Carried, Past
    <3>2. PORT!End
      BY <2>3, <2>4, <2>5, <2>7, <3>1, <1>3, <1>4, <1>5 DEF PORT!End, Acc, Op, Done, Ctl
    <3> QED BY <3>2 DEF PORT!Next
  <2> QED BY <2>2, <2>6, <2>7
<1> QED BY <1>6, <1>7

(* A control register is written as the access ends. *)
LEMMA WriteRegPort ==
  ASSUME IInv, Disciplined, SystemNext, state = "st_write_reg"
  PROVE  PORT!WriteControl
<1> USE DEF IInv
<1>1. WriteReg(BridgeInputs) BY Branches DEF SystemNext
<1>2. BridgeOp /\ RegisterWrite(dph) /\ REG_ADDR = dph.idx % 4 BY DEF Agreement
<1>3. BridgeInputs.HWDATA = dph.data BY <1>2, Inputs1 DEF RegisterWrite
<1>4. /\ file' = IF sid_rst_n' = 0 THEN Cleared ELSE file
      /\ chipRead' = chipRead
      /\ aph.slave # "BRIDGE" => Acc' = [op |-> NoTransfer, done |-> FALSE]
      /\ aph.slave = "BRIDGE" => Acc' = [op |-> aph, done |-> FALSE] /\ aph \in BusAccesses
  BY BetweenAccesses
<1>5. got' = got
  <2>1. dph.HWRITE # 0 BY <1>2 DEF RegisterWrite
  <2> QED BY <1>2, <2>1, Gets
<1>6. Acc = [op |-> dph, done |-> Done] /\ Acc # [op |-> NoTransfer, done |-> FALSE]
  BY <1>2 DEF Acc, Op, NoTransfer, BridgeOp
<1>7. Ctl' = CASE dph.idx % 4 = 0 -> [Ctl EXCEPT !.rst_n = dph.data % 2]
               [] dph.idx % 4 = 1 -> [Ctl EXCEPT !.freq = dph.data % 256]
               [] OTHER -> Ctl
  BY <1>1, <1>2, <1>3 DEF WriteReg, Ctl
<1>8. PORT!MayBegin
  BY <1>4 DEF PORT!MayBegin, PORT!NoAccess, PORT!Begun, Acc, Op, Done, BusAccesses, NoTransfer
<1> QED BY <1>2, <1>4, <1>5, <1>6, <1>7, <1>8
        DEF PORT!WriteControl, PORT!NoAccess, PORT!Control, PORT!Register, PORT!Cleared, Cleared, Acc,
            Op, Done, NoTransfer, Ctl, RegisterWrite

(* A record of which one field is set. *)
LEMMA Marked ==
  ASSUME NEW a, NEW done
  PROVE  [[op |-> a, done |-> FALSE] EXCEPT !.done = done] = [op |-> a, done |-> done]
OBVIOUS

(* During an access to the chip: its window closes once.                   *)
LEMMA AccessPort ==
  ASSUME IInv, Disciplined, SystemNext, Reads \/ Writes
  PROVE  PORT!WriteReachesChip \/ PORT!ReadReachesChip \/ UNCHANGED PORT!port
<1> USE DEF IInv
<1>1. Clock(BridgeInputs) /\ ChipClock BY DEF SystemNext
<1>2. dph' = dph /\ got' = got BY InTurn, Gets
<1>3. BridgeOp /\ dph.a14 = 1 /\ sid_addr = dph.idx /\ dph.HWRITE = IF Writes THEN 1 ELSE 0
  BY DEF Agreement
<1>4. BridgeOp' BY <1>2, <1>3 DEF BridgeOp
<1>5. Op = dph /\ Op' = dph /\ Done = Carried /\ Done' = Carried'
  <2>1. Carried \in BOOLEAN BY DEF Carried
  <2>2. Carried' \in BOOLEAN BY DEF Carried
  <2>3. dph'.a14 = 1 BY <1>2, <1>3
  <2> QED BY <1>2, <1>3, <1>4, <2>1, <2>2, <2>3 DEF Op, Done
<1>6. sid_freq' = sid_freq /\ sid_rst_n' = sid_rst_n
  BY <1>1, Branches
     DEF Clock, Idle, Deselected, AcceptRegWrite, AcceptRegRead, AcceptSid, ReadSid, ReadSt1,
         ReadSt2, ReadSt3, ReadHold, ReadSt6, WriteSid, WriteSt1, WriteSt2, WriteSt3, WriteHold,
         WriteSt6, Hold, ctl, WriteReg, Reads, Writes, ReadStates, WriteStates
<1>7. Ctl' = Ctl BY <1>6 DEF Ctl
<1>8. WindowCloses <=> /\ state \in {"st_read_sid_st3", "st_write_sid_st3"}
                       /\ sid_clk = 1 /\ sid_clk' = 0
  BY Closing
<1>9. sid_clk \in {0, 1} /\ sid_clk' \in {0, 1} BY RegistersNext DEF SystemTypeOK
<1>10. CASE WindowCloses
  <2>1. ~Carried /\ state \in {"st_read_sid_st3", "st_write_sid_st3"} BY <1>8, <1>10 DEF Carried, Past
  <2>2. ReadSt3(BridgeInputs) \/ WriteSt3 BY <1>1, <2>1, Branches
  <2>3. state' = state BY <1>8, <1>10, <2>2 DEF ReadSt3, WriteSt3
  <2>4. Carried' BY <1>8, <1>10, <2>1, <2>3 DEF Carried
  <2>5. ~Done /\ Done' BY <1>5, <2>1, <2>4
  <2>6. Acc = [op |-> dph, done |-> FALSE] /\ Acc' = [op |-> dph, done |-> TRUE]
    <3>1. Done = FALSE /\ Done' = TRUE BY <2>5 DEF Done
    <3> QED BY <1>5, <3>1 DEF Acc
  <2>7. /\ Acc.op = dph /\ Acc.done = FALSE /\ Acc' = [Acc EXCEPT !.done = TRUE]
        /\ Acc # [op |-> [slave |-> "NONE"], done |-> FALSE]
    <3>1. dph # [slave |-> "NONE"] BY <1>3 DEF BridgeOp
    <3>2. [[op |-> dph, done |-> FALSE] EXCEPT !.done = TRUE] = [op |-> dph, done |-> TRUE]
      BY Marked, Zenon
    <3>3. Acc' = [Acc EXCEPT !.done = TRUE] BY <2>6, <3>2, Zenon
    <3>4. Acc.op = dph /\ Acc.done = FALSE BY <2>6
    <3>5. Acc # [op |-> [slave |-> "NONE"], done |-> FALSE] BY <3>1, <3>4
    <3> QED BY <3>3, <3>4, <3>5
  <2>8. CASE Writes
    <3>1. state = "st_write_sid_st3" BY <2>1, <2>8 DEF Writes, WriteStates
    <3>2. sid_rw = 0 BY <3>1 DEF Windows, ReadStates, WriteStates, Reads
    <3>3. Pads = dph.data % 256 BY <3>1 DEF Pads, Data, WriteStates
    <3>4. file' = IF sid_rst_n = 0 THEN Cleared ELSE [file EXCEPT ![dph.idx] = dph.data % 256]
      BY <1>1, <1>3, <1>6, <1>10, <3>2, <3>3 DEF ChipClock
    <3>5. chipRead' = chipRead BY <1>1, <3>2 DEF ChipClock
    <3>6. dph.HWRITE = 1 BY <1>3, <2>8
    <3>7. PORT!WriteReachesChip
      BY <1>2, <1>3, <1>7, <2>7, <3>4, <3>5, <3>6
         DEF PORT!WriteReachesChip, PORT!NoAccess, PORT!Control, PORT!Cleared, Cleared, Acc, Op,
             Done, NoTransfer, Ctl
    <3> QED BY <3>7
  <2>9. CASE ~Writes
    <3>1. state = "st_read_sid_st3" BY <2>1, <2>9 DEF Writes, WriteStates
    <3>2. sid_rw = 1 BY <3>1 DEF Windows, ReadStates, WriteStates, Reads
    <3>3. file' = file BY <1>1, <1>6, <3>2 DEF ChipClock, Data
    <3>4. chipRead' \in Bytes BY <1>1, <1>10, <3>2 DEF ChipClock, SystemTypeOK
    <3>5. dph.HWRITE = 0 BY <1>3, <2>9
    <3>6. PORT!ReadReachesChip
      BY <1>2, <1>3, <1>7, <2>7, <3>3, <3>4, <3>5
         DEF PORT!ReadReachesChip, PORT!NoAccess, PORT!Control, Acc, Op, Done, NoTransfer, Ctl
    <3> QED BY <3>6
  <2> QED BY <2>8, <2>9
<1>11. CASE ~WindowCloses
  <2>1. chipRead' = chipRead /\ file' = file BY <1>1, <1>6, <1>11 DEF ChipClock, Data
  <2>2. Carried' <=> Carried
    <3>1. CASE state \in {"st_read_sid_st1", "st_write_sid_st1"}
      <4>1. ReadSt1 \/ WriteSt1(BridgeInputs) BY <1>1, <3>1, Branches
      <4> QED BY <3>1, <4>1 DEF ReadSt1, WriteSt1, Carried, Past
    <3>2. CASE state \in {"st_read_sid_st2", "st_write_sid_st2"}
      <4>1. ReadSt2 \/ WriteSt2 BY <1>1, <3>2, Branches
      <4>2. sid_clk = 1 => sid_clk_cntr = 0 /\ sid_freq >= 3 BY <3>2 DEF Windows
      <4>3. sid_clk = 1 => sid_clk' = 1
        <5>1. Divider BY <1>1 DEF Clock
        <5> QED BY <4>2, <5>1, DividerNext DEF SystemTypeOK
      <4> QED BY <3>2, <4>1, <4>3 DEF ReadSt2, WriteSt2, Carried, Past
    <3>3. CASE state \in {"st_read_sid_st3", "st_write_sid_st3"}
      <4>1. ReadSt3(BridgeInputs) \/ WriteSt3 BY <1>1, <3>3, Branches
      <4>2. sid_clk = 1 => sid_clk' = 1 BY <1>8, <1>9, <1>11, <3>3
      <4> QED BY <1>9, <3>3, <4>1, <4>2 DEF ReadSt3, WriteSt3, Carried, Past
    <3>4. CASE state \in Past
      <4>1. ReadHold \/ ReadSt6 \/ WriteHold \/ WriteSt6 BY <1>1, <3>4, Branches DEF Past
      <4> QED BY <3>4, <4>1 DEF ReadHold, ReadSt6, WriteHold, WriteSt6, Hold, Carried, Past
    <3> QED BY <3>1, <3>2, <3>3, <3>4 DEF Reads, Writes, ReadStates, WriteStates, Past
  <2>3. Acc' = Acc
    <3>1. Done \in BOOLEAN /\ Done' \in BOOLEAN BY DEF Done
    <3> QED BY <1>5, <2>2, <3>1 DEF Acc
  <2>4. UNCHANGED PORT!port
    BY <1>2, <1>7, <2>1, <2>3 DEF PORT!port, Acc, Op, Done, Ctl
  <2> QED BY <2>4
<1> QED BY <1>10, <1>11

(* Initial states and steps of the system are those of the port. *)
LEMMA PortInit == ASSUME SystemInit PROVE PORT!Init
<1> USE DEF SystemInit, Init, FabricInit, ChipInit
<1>1. Op = NoTransfer /\ Done = FALSE BY DEF Op, Done, BridgeOp, NoTransfer
<1> QED BY <1>1 DEF PORT!Init, PORT!NoAccess, PORT!Cleared, Cleared, Op, Done, NoTransfer

LEMMA PortNext ==
  ASSUME Disciplined, IInv, [SystemNext]_system PROVE [PORT!Next]_(PORT!port)
<1>1. CASE SystemNext
  <2>1. state \in {"st_idle", "st_write_reg"} \/ Reads \/ Writes
    BY DEF IInv, SystemTypeOK, States, Reads, Writes
  <2>2. PORT!WriteControl \/ PORT!WriteReachesChip \/ PORT!ReadReachesChip => PORT!Next
    BY DEF PORT!Next
  <2> QED BY <1>1, <2>1, <2>2, IdlePort, WriteRegPort, AccessPort
<1>2. CASE UNCHANGED system
  <2>1. UNCHANGED PORT!port
    BY <1>2 DEF system, bridge, fabric, chip, master, ctl, divider, bus, strobe, PORT!port, BridgeOp,
                Carried
  <2> QED BY <2>1
<1> QED BY <1>1, <1>2

-----------------------------------------------------------------------------
(* The theorems, for a Disciplined master and software. *)

(* Bus, bridge and chip stay in step: IInv always holds.  In particular    *)
(* the fabric never has to set an address aside, a slave that is not in    *)
(* its data phase makes nobody wait, and an access has one window.         *)
THEOREM InStep == ASSUME Disciplined PROVE SystemSpec => []IInv
<1>1. SystemInit => IInv BY InvariantInit
<1>2. IInv /\ [SystemNext]_system => IInv' BY InvariantNext
<1> QED BY <1>1, <1>2, PTL DEF SystemSpec

(* The bridge is never at work on an access that is not the one in the     *)
(* data phase: each is started once, with its own address.                 *)
THEOREM AlwaysStartedInTurn == ASSUME Disciplined PROVE SystemSpec => []StartedInTurn
<1>1. IInv => StartedInTurn
  BY DEF IInv, SystemTypeOK, States, Agreement, StartedInTurn, Reads, Writes, RegisterWrite
<1> QED BY <1>1, InStep, PTL

(* The bridge implements the abstract port: every access is carried out    *)
(* exactly once, in its data phase, with its own address and data, and a   *)
(* read returns what the chip answered to it.                              *)
THEOREM PortImplemented == ASSUME Disciplined PROVE SystemSpec => ImplementsPort
<1>1. SystemInit => PORT!Init BY PortInit
<1>2. IInv /\ [SystemNext]_system => [PORT!Next]_(PORT!port) BY PortNext
<1> QED BY <1>1, <1>2, InStep, PTL DEF SystemSpec, ImplementsPort, PORT!Spec

=============================================================================
