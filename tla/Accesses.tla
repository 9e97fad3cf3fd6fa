------------------------------ MODULE Accesses ------------------------------
(***************************************************************************)
(* The accesses a driver makes to the peripherals and to the NVIC.  A call *)
(* is the sequence of its accesses.  A register is a set of named bits: a  *)
(* bit-band write changes one of them, a read-modify-write is a load and a *)
(* store, and a register whose bits are cleared by writing 1 is written    *)
(* through a buffer that a barrier (dsb) waits for.                        *)
(***************************************************************************)
EXTENDS Sequences

Write(reg, value)      == <<[kind |-> "write", reg |-> reg, value |-> value]>>
BitBand(reg, bit, on)  == <<[kind |-> "bit", reg |-> reg, bit |-> bit, on |-> on]>>
ReadModifyWrite(reg, clear, set) ==
  <<[kind |-> "load", reg |-> reg, clear |-> clear, set |-> set],
    [kind |-> "store", reg |-> reg]>>
WriteOneToClear(reg, bit) == <<[kind |-> "clear", reg |-> reg, bit |-> bit]>>
DataBarrier            == <<[kind |-> "dsb"]>>
HandlerReturn          == <<[kind |-> "return"]>>

NVIC_EnableIRQ(irq)       == <<[kind |-> "nvic", op |-> "enable", irq |-> irq]>>
NVIC_DisableIRQ(irq)      == <<[kind |-> "nvic", op |-> "disable", irq |-> irq]>>
NVIC_ClearPendingIRQ(irq) == <<[kind |-> "nvic", op |-> "clear", irq |-> irq]>>

LeaveReset(blocks) == ReadModifyWrite("SOFT_RST_CR", blocks, {})
EnterReset(blocks) == ReadModifyWrite("SOFT_RST_CR", {}, blocks)

=============================================================================
