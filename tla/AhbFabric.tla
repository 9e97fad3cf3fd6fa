------------------------------ MODULE AhbFabric ------------------------------
(***************************************************************************)
(* The part of CoreAHBLite 5.2.100 that SID_PLAYER_sb instantiates: one    *)
(* master (the MSS, M0), SDRAM in slot 0 and the SID bridge in slot 1, no  *)
(* locked transfers, every other slot answered by the default slave.       *)
(*                                                                         *)
(* FabricClock is one rising edge of HCLK.  The master's address phase and *)
(* the slaves' HREADYOUT are parameters: `aph` is the transfer whose       *)
(* address the master drives with HTRANS(1) = '1', or NoTransfer when it   *)
(* drives IDLE; rdy[s] is HREADYOUT of slave s.  A transfer is a record    *)
(* whose field `slave` is what coreahblite_addrdec makes of its address.   *)
(***************************************************************************)
EXTENDS Integers

Slaves     == {"SDRAM", "BRIDGE"}
NoTransfer == [slave |-> "NONE"]

VARIABLES regAddr,      \* regHADDR, regHWRITE, ... of the master stage
          addrRegSM,    \* addrRegSMCurrentState (= masterRegAddrSel)
          SDATASEL,     \* slave in the data phase, "NONE" when there is none
          defSlaveSM,   \* coreahblite_defaultslavesm
          arb,          \* arbRegSMCurrentState: M0DONE or M0EXTEND, per slave
          dataInProg    \* masterDataInProg(0) of each slave stage

fabric == <<regAddr, addrRegSM, SDATASEL, defSlaveSM, arb, dataInProg>>

FabricInit ==
  /\ regAddr = NoTransfer /\ addrRegSM = "IDLE"
  /\ SDATASEL = "NONE" /\ defSlaveSM = "IDLE"
  /\ arb = [s \in Slaves |-> "DONE"]
  /\ dataInProg = [s \in Slaves |-> FALSE]

-----------------------------------------------------------------------------
(* Combinational outputs. *)
Gated(aph)    == IF addrRegSM = "REGISTERED" THEN regAddr ELSE aph
SADDRSEL(aph) == Gated(aph).slave

(* HSEL of slave s: its arbiter grants the address phase to the master. *)
AddrInProg(s, aph) == arb[s] = "EXTEND" \/ SADDRSEL(aph) = s

DefSlaveReady == ~(SDATASEL = "OTHER" /\ defSlaveSM = "IDLE")

(* PREVDATASLAVEREADY: the slave in the data phase is ready. *)
PrevDataReady(rdy) ==
  CASE SDATASEL \in Slaves  -> rdy[SDATASEL] = 1
    [] SDATASEL = "OTHER"   -> DefSlaveReady
    [] SDATASEL = "NONE"    -> TRUE

(* HREADY_M, which adds that the slave stage must have the data phase. *)
HREADY_M(rdy) ==
  CASE SDATASEL \in Slaves  -> dataInProg[SDATASEL] /\ rdy[SDATASEL] = 1
    [] SDATASEL = "OTHER"   -> DefSlaveReady
    [] SDATASEL = "NONE"    -> TRUE

(* SADDRREADY of the addressed slave; disabled slots are always ready. *)
AddrReady(s, aph, rdy) == s \in Slaves /\ SADDRSEL(aph) = s => rdy[s] = 1

(* HTRANS(1) as slave s sees it: withheld until the data phase that is     *)
(* under way at another slave completes.                                   *)
SlaveHTRANS(s, aph, rdy) ==
  /\ AddrInProg(s, aph)
  /\ Gated(aph) # NoTransfer
  /\ PrevDataReady(rdy) \/ SDATASEL = s

-----------------------------------------------------------------------------
(* The address is set aside when the master moves on before the addressed  *)
(* slave has taken it.                                                     *)
SetsAddressAside(aph, rdy) ==
  /\ addrRegSM = "IDLE" /\ aph # NoTransfer
  /\ HREADY_M(rdy) /\ ~AddrReady(aph.slave, aph, rdy)

MasterStage(aph, rdy) ==
  /\ IF SetsAddressAside(aph, rdy)
     THEN regAddr' = aph /\ addrRegSM' = "REGISTERED"
     ELSE /\ regAddr' = regAddr
          /\ addrRegSM' = IF addrRegSM = "REGISTERED"
                             /\ ~AddrReady(regAddr.slave, aph, rdy)
                          THEN "REGISTERED" ELSE "IDLE"
  /\ SDATASEL' = IF PrevDataReady(rdy) THEN SADDRSEL(aph) ELSE SDATASEL
  /\ defSlaveSM' = IF DefSlaveReady THEN "IDLE" ELSE "HRESPEXTEND"

SlaveStages(aph, rdy) ==
  /\ arb' = [s \in Slaves |-> IF AddrInProg(s, aph) /\ rdy[s] = 0
                              THEN "EXTEND" ELSE "DONE"]
  /\ dataInProg' = [s \in Slaves |-> IF rdy[s] = 1 THEN AddrInProg(s, aph)
                                                   ELSE dataInProg[s]]

FabricClock(aph, rdy) == MasterStage(aph, rdy) /\ SlaveStages(aph, rdy)

=============================================================================
