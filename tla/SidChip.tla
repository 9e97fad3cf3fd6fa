------------------------------- MODULE SidChip -------------------------------
(***************************************************************************)
(* The MOS 6581 behind the bridge, as far as its pins tell: external to    *)
(* the repository.  sid_clk is its phi2.  While phi2 is high and sid_cs_n  *)
(* low a window is open; when it closes a write is latched and a read is   *)
(* over.  In a read the chip drives a byte of its own choice from the      *)
(* opening of the window, and the byte stays on the pads for at least one  *)
(* period of HCLK after phi2 has fallen.  Low sid_rst_n clears it.         *)
(***************************************************************************)
EXTENDS SidBridge

VARIABLES file,      \* the register file
          q,         \* the byte the chip has on the pads in a read
          chipRead   \* the byte of the last read window that closed

chip == <<file, q, chipRead>>

WindowOpens == ~Window(sid_clk, sid_cs_n) /\ Window(sid_clk', sid_cs_n')

Cleared == [i \in Index |-> 0]

(* What is on the pads: the bridge's byte or the chip's. *)
Pads == IF sid_data_oe = 1 THEN sid_data_o ELSE q

ChipInit == file = Cleared /\ q \in Bytes /\ chipRead = 0

(* One edge of HCLK, after the bridge's: the primed pins are its outputs. *)
ChipClock ==
  /\ file' = IF sid_rst_n' = 0 THEN Cleared
             ELSE IF WindowCloses /\ sid_rw = 0
                  THEN [file EXCEPT ![sid_addr] = Pads]
                  ELSE file
  /\ IF WindowOpens /\ sid_rw' = 1 THEN q' \in Bytes ELSE q' = q
  /\ chipRead' = IF WindowCloses /\ sid_rw = 1 THEN q ELSE chipRead

=============================================================================
