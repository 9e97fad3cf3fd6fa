------------------------------ MODULE SidSystem ------------------------------
(***************************************************************************)
(* The SID player's bus as SID_PLAYER.vhd wires it: an AHB-Lite master     *)
(* (the MSS), the fabric, SDRAM, the SID bridge and the chip, all clocked  *)
(* by HCLK.  A step of the system is one edge of HCLK for all of them.     *)
(*                                                                         *)
(* The MSS and CORESDR_AHB are external: the master is any AHB-Lite master *)
(* that drives transfers from Transfers, one after the other; the SDRAM    *)
(* controller is a slave that waits up to MaxWait edges and, as the        *)
(* protocol asks, looks at HTRANS and HREADY before it takes an address.   *)
(***************************************************************************)
EXTENDS AhbFabric, SidChip

CONSTANTS Transfers,    \* transfers the master may make
          Follows,      \* pairs it drives back to back: the second's address
                        \* in the data phase of the first
          MaxWait       \* bound on the wait states of SDRAM

ASSUME SystemAssumption ==
  /\ MaxWait \in Nat
  /\ \A t \in Transfers :
       /\ t.slave \in Slaves \cup {"OTHER"}
       /\ t.slave = "BRIDGE" =>
            /\ t.a14 \in {0, 1} /\ t.HWRITE \in {0, 1} /\ t.idx \in Index
            /\ t.HWRITE = 1 => t.data \in Words

VARIABLES aph,      \* transfer in its address phase, or NoTransfer
          dph,      \* transfer in its data phase, or NoTransfer
          got,      \* HRDATA of the last read that completed at the bridge
          last,     \* last transfer to the bridge that completed
          sdWait    \* wait states SDRAM still inserts

master == <<aph, dph, got, last>>
system == <<bridge, fabric, chip, master, sdWait>>

-----------------------------------------------------------------------------
(* The wiring. *)
rdy == [s \in Slaves |-> IF s = "BRIDGE" THEN HREADYOUT
                         ELSE IF sdWait = 0 THEN 1 ELSE 0]

MasterHWDATA == IF dph # NoTransfer /\ dph.HWRITE = 1 THEN dph.data ELSE 0

BridgeInputs ==
  LET sel == AddrInProg("BRIDGE", aph)
      t   == Gated(aph)
      to  == sel /\ t.slave = "BRIDGE"
  IN  [HSEL   |-> IF sel THEN 1 ELSE 0,
       a14    |-> IF to THEN t.a14 ELSE 0,
       idx    |-> IF to THEN t.idx ELSE 0,
       HWRITE |-> IF to THEN t.HWRITE ELSE 0,
       HWDATA |-> IF dataInProg["BRIDGE"] THEN MasterHWDATA ELSE 0,
       pads   |-> Pads]

-----------------------------------------------------------------------------
SystemInit ==
  /\ Init /\ FabricInit /\ ChipInit
  /\ aph = NoTransfer /\ dph = NoTransfer
  /\ got = 0 /\ last = NoTransfer
  /\ sdWait = 0

(* The address phases the master may drive while d is in its data phase. *)
NextAddress(d) ==
  {NoTransfer} \cup {t \in Transfers : d = NoTransfer \/ <<d, t>> \in Follows}

(* HREADY high: the data phase is over, the address phase moves into it. *)
MasterAdvances ==
  /\ HREADY_M(rdy)
  /\ dph' = aph
  /\ aph' \in NextAddress(aph)
  /\ IF dph.slave = "BRIDGE"
     THEN /\ last' = dph
          /\ got' = IF dph.HWRITE = 0 THEN HRDATA ELSE got
     ELSE UNCHANGED <<got, last>>

(* HREADY low: an address once driven is held, an idle master may start.   *)
MasterWaits ==
  /\ ~HREADY_M(rdy)
  /\ aph' \in IF aph = NoTransfer THEN NextAddress(dph) ELSE {aph}
  /\ UNCHANGED <<dph, got, last>>

SdramClock ==
  IF sdWait > 0 THEN sdWait' = sdWait - 1
  ELSE IF SlaveHTRANS("SDRAM", aph, rdy) THEN sdWait' \in 0 .. MaxWait
  ELSE sdWait' = 0

SystemNext ==
  /\ MasterAdvances \/ MasterWaits
  /\ FabricClock(aph, rdy)
  /\ SdramClock
  /\ Clock(BridgeInputs)
  /\ ChipClock

SystemSpec     == SystemInit /\ [][SystemNext]_system
FairSystemSpec == SystemSpec /\ WF_system(SystemNext)

-----------------------------------------------------------------------------
(* The abstract bus port, read off the system's state. *)
BridgeOp == dph.slave = "BRIDGE"
Past     == {"st_read_sid_st4", "st_read_sid_st5", "st_read_sid_st6",
             "st_write_sid_st4", "st_write_sid_st5", "st_write_sid_st6"}

(* The window of the SID access in the data phase has closed. *)
Carried ==
  \/ state \in Past \cup {"st_idle"}
  \/ state \in {"st_read_sid_st3", "st_write_sid_st3"} /\ sid_clk = 0

PORT == INSTANCE SidPort WITH
  Accesses <- {t \in Transfers : t.slave = "BRIDGE"},
  ctl      <- [rst_n |-> sid_rst_n, freq |-> sid_freq],
  acc      <- [op   |-> IF BridgeOp THEN dph ELSE NoTransfer,
               done |-> BridgeOp /\ dph.a14 = 1 /\ Carried],
  answer   <- chipRead

-----------------------------------------------------------------------------
(* The bridge is never at work on an access that is not the one in the     *)
(* master's data phase: an access is started once, with its own address.   *)
StartedInTurn ==
  state # "st_idle" =>
    /\ BridgeOp
    /\ state = "st_write_reg" => dph.a14 = 0 /\ REG_ADDR = dph.idx % 4
    /\ state # "st_write_reg" => dph.a14 = 1 /\ sid_addr = dph.idx

(* The bridge implements the abstract port: every access is carried out    *)
(* exactly once, while it is in its data phase, with its own address and   *)
(* data, and a read returns what the chip answered to it.                  *)
ImplementsPort == PORT!Spec

(* Whatever software does, HREADY rises again and again: the processor is  *)
(* never left waiting on the bridge, the fabric or SDRAM.                  *)
BusNeverHangs == []<>HREADY_M(rdy)

=============================================================================
