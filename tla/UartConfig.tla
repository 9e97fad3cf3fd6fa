----------------------------- MODULE UartConfig -----------------------------
(***************************************************************************)
(* The configuration of a UART: the functions of mss_uart.c that write its *)
(* mode registers, and SystemCoreClockUpdate of system_m2sxxx.c, which     *)
(* tells them the frequency that the baud rate is divided from.            *)
(*                                                                         *)
(* A register with flags is the set of the bits that are 1; the functions  *)
(* are functions of the registers.  set_bit_reg8 and clear_bit_reg8 write  *)
(* one bit and no interrupt handler writes any of these registers, so a    *)
(* call is one step.  Uart models the transfers and the interrupts.        *)
(***************************************************************************)
EXTENDS Integers, FiniteSets

CONSTANTS
  APB_CLK_FREQ,    \* MSS_SYS_APB_0_CLK_FREQ and MSS_SYS_APB_1_CLK_FREQ
  Clocks,          \* states of the clock registers that occur
  Bauds,           \* baud rates the application asks for
  LineConfigs,     \* LCR values it gives
  ByteArgs,        \* addresses, time-outs, time guards, filters
  Loopbacks,       \* what it calls MSS_UART_set_loopback with
  MaxConfigCalls   \* bound on its calls

ASSUME BaudAssumption == Bauds \subseteq Nat \ {0}
ASSUME ClockAssumption == APB_CLK_FREQ \in [{0, 1} -> Nat]
ASSUME ClockFits == \A u \in {0, 1} : APB_CLK_FREQ[u] < 536870912   \* 8 times it: 32 bits
ASSUME ArgumentAssumption ==
  ByteArgs \subseteq 0..255 /\ \A l \in LineConfigs : l \subseteq 0..5

VARIABLES uart,         \* which of the two UARTs the application configures
          clock,        \* what the clock registers say
          regs,         \* the registers of the UART
          call,         \* the last call: the setting it names and the value
          configCalls   \* calls made so far

config == <<uart, clock, regs, call, configCalls>>

(* The bits, as mss_uart_regs.h numbers them. *)
SB == 6
DLAB == 7
RXRDY_TXRDYN_EN == 0
RDYMODE == 3
LOOP == 4
RLOOP == 5
ECHO == 6
RLOOP_MASK == {1, 2}    \* 0x6u
ELIN == 3
ETTG == 5
ERTO == 6
EFBR == 7
E_MSB_RX == 0
E_MSB_TX == 1
EIRD == 2
EIRX == 3
EITX == 4
EITP == 5
EERR == 0
EAFM == 1
EAFC == 2
ESWM == 3
SYNC_ASYNC_MODE_MASK == 0..2
SyncModes == {{}, {0}, {1}, {0, 1}, {2}}    \* mss_uart_usart_mode_t, 0 to 4
EightBitsTwoStops == {0, 1, 2}

set_bit(r, reg, bit)   == [r EXCEPT ![reg] = @ \cup {bit}]
clear_bit(r, reg, bit) == [r EXCEPT ![reg] = @ \ {bit}]
put_bit(r, reg, bit, on) == IF on THEN set_bit(r, reg, bit) ELSE clear_bit(r, reg, bit)
store(r, reg, value)   == [r EXCEPT ![reg] = value]

AfterSoftReset ==
  [LCR |-> {}, FCR |-> {}, MCR |-> {}, MM0 |-> {}, MM1 |-> {}, MM2 |-> {},
   GFR |-> 0, TTG |-> 0, RTO |-> 0, ADR |-> 0, DIV |-> 0, DFR |-> 0]

-----------------------------------------------------------------------------
(* The clock. *)

get_rcosc_25_50mhz_frequency == IF clock.rcosc_div2 THEN 50000000 ELSE 25000000

(* Standby clock sources 0 to 7: the oscillator, the 32 kHz crystal, the   *)
(* oscillator, the crystal, and the 1 MHz oscillator for all others.       *)
StandbyFrequency ==
  CASE clock.standby_sel \in {0, 2} -> get_rcosc_25_50mhz_frequency
    [] clock.standby_sel \in {1, 3} -> 32768
    [] OTHER                        -> 1000000

(* SystemInit leaves the clock as it is, but for the first revision of the  *)
(* device, which is told that its PLL is initialised; the configurations   *)
(* it could make are all switched off in sys_config.h.                     *)
get_silicon_revision(c) ==
  CASE c.device_version = 63490  -> "M2S050_REV_A_SILICON"      \* 0x0000F802
    [] c.device_version = 129026 -> "M2S050_REV_B_SILICON"      \* 0x0001F802
    [] OTHER -> "UNKNOWN_SILICON_REV"
m2s050_rev_a_workarounds(c) == [c EXCEPT !.controller_pll_init = FALSE]
silicon_workarounds(c) ==
  IF get_silicon_revision(c) = "M2S050_REV_A_SILICON"
  THEN m2s050_rev_a_workarounds(c) ELSE c

(* g_FrequencyPCLK0 and g_FrequencyPCLK1. *)
SystemCoreClockUpdate ==
  CASE clock.controller_pll_init -> [u \in {0, 1} |-> get_rcosc_25_50mhz_frequency]
    [] ~clock.controller_pll_init /\ clock.glmux -> [u \in {0, 1} |-> StandbyFrequency]
    [] OTHER -> APB_CLK_FREQ

-----------------------------------------------------------------------------
(* The divisor of the baud rate, in units of 1/64: its integral part, and  *)
(* the fraction, which has the half that is lost in by_64 added.           *)
baud_value(pclk, baud) == (((8 * pclk) \div baud) \div 2) \div 64

(* Mutant: the half is lost. *)
TruncatedFraction(pclk, baud) ==
  (((8 * pclk) \div baud) \div 2) - 64 * baud_value(pclk, baud)

fractional_baud_value(pclk, baud) ==
  LET by_128 == (8 * pclk) \div baud
      by_64  == by_128 \div 2
      value  == baud_value(pclk, baud)
      part   == by_64 - 64 * value
  IN  part + ((by_128 - 128 * value) - 2 * part)

UINT16_MAX == 65535

(* A divisor that is too large for its 16 bits is not written at all. *)
config_baud_divisors(r, baud) ==
  LET pclk == SystemCoreClockUpdate[uart]
      b    == baud_value(pclk, baud)
      divided == clear_bit(store(set_bit(r, "LCR", DLAB), "DIV", b), "LCR", DLAB)
  IN  IF b > UINT16_MAX THEN r
      ELSE IF b > 1 THEN store(set_bit(divided, "MM0", EFBR),
                               "DFR", fractional_baud_value(pclk, baud))
      ELSE clear_bit(divided, "MM0", EFBR)

(* CLEAR_RX_FIFO and CLEAR_TX_FIFO of FCR clear themselves. *)
global_init(baud, line_config) ==
  LET fifo  == set_bit(AfterSoftReset, "FCR", RXRDY_TXRDYN_EN)
      plain == [fifo EXCEPT !.MCR = @ \ {LOOP, RLOOP},
                            !.MM1 = @ \ {E_MSB_TX, E_MSB_RX},
                            !.MM2 = @ \ {EAFM, ESWM},
                            !.MM0 = @ \ {ETTG, ERTO, EFBR},
                            !.GFR = 0, !.TTG = 0, !.RTO = 0]
  IN  store(config_baud_divisors(plain, baud), "LCR", line_config)

MSS_UART_init(baud, line) ==
  [global_init(baud, line) EXCEPT !.MM0 = @ \ {ELIN}, !.MM1 = @ \ {EIRD},
                                  !.MM2 = @ \ {EERR}]

MSS_UART_lin_init(baud, line) ==
  [global_init(baud, line) EXCEPT !.MM0 = @ \cup {ELIN}, !.MM1 = @ \ {EIRD},
                                  !.MM2 = @ \ {EERR}]

(* rxpol, txpol and pw are TRUE for active high and for 1/4. *)
MSS_UART_irda_init(baud, line, rxpol, txpol, pw) ==
  LET plain == [global_init(baud, line) EXCEPT !.MM0 = @ \ {ELIN},
                            !.MM1 = @ \cup {EIRD}, !.MM2 = @ \ {EERR}]
  IN  put_bit(put_bit(put_bit(plain, "MM1", EIRX, rxpol), "MM1", EITX, txpol),
              "MM1", EITP, pw)

MSS_UART_smartcard_init(baud, line) ==
  LET plain == [global_init(baud, line) EXCEPT !.MM0 = @ \ {ELIN}, !.MM1 = @ \ {EIRD}]
  IN  IF EightBitsTwoStops \subseteq line
      THEN set_bit(set_bit(plain, "MM2", EERR), "MM2", ESWM) ELSE plain

-----------------------------------------------------------------------------
(* The settings one by one. *)

MSS_UART_set_loopback(r, loopback) ==
  CASE loopback = "LOCAL_LOOPBACK_OFF" -> clear_bit(r, "MCR", LOOP)
    [] loopback = "LOCAL_LOOPBACK_ON"  -> set_bit(r, "MCR", LOOP)
    [] loopback \in {"REMOTE_LOOPBACK_OFF", "AUTO_ECHO_OFF"}
                                       -> [r EXCEPT !.MCR = @ \ RLOOP_MASK]
    [] loopback = "REMOTE_LOOPBACK_ON" -> set_bit(r, "MCR", RLOOP)
    [] loopback = "AUTO_ECHO_ON"       -> set_bit(r, "MCR", ECHO)

MSS_UART_set_break(r)           == set_bit(r, "LCR", SB)
MSS_UART_clear_break(r)         == clear_bit(r, "LCR", SB)
MSS_UART_enable_half_duplex(r)  == set_bit(r, "MM2", ESWM)
MSS_UART_disable_half_duplex(r) == clear_bit(r, "MM2", ESWM)
MSS_UART_set_rx_endian(r, msb)  == put_bit(r, "MM1", E_MSB_RX, msb)
MSS_UART_set_tx_endian(r, msb)  == put_bit(r, "MM1", E_MSB_TX, msb)
MSS_UART_set_filter_length(r, length) == store(r, "GFR", length)
MSS_UART_enable_afm(r)          == set_bit(r, "MM2", EAFM)
MSS_UART_disable_afm(r)         == clear_bit(r, "MM2", EAFM)
MSS_UART_enable_afclear(r)      == set_bit(r, "MM2", EAFC)
MSS_UART_disable_afclear(r)     == clear_bit(r, "MM2", EAFC)
MSS_UART_enable_rx_timeout(r, timeout) == set_bit(store(r, "RTO", timeout), "MM0", ERTO)
MSS_UART_disable_rx_timeout(r)  == clear_bit(r, "MM0", ERTO)
MSS_UART_enable_tx_time_guard(r, guard) == set_bit(store(r, "TTG", guard), "MM0", ETTG)
MSS_UART_disable_tx_time_guard(r) == clear_bit(r, "MM0", ETTG)
MSS_UART_set_address(r, address) == store(r, "ADR", address)
MSS_UART_set_ready_mode(r, one) == put_bit(r, "FCR", RDYMODE, one)

(* Mutant: the mode is put on top of the one before. *)
UsartModeOnTop(r, mode) == [r EXCEPT !.MM0 = @ \cup mode]

MSS_UART_set_usart_mode(r, mode) ==
  [r EXCEPT !.MM0 = (@ \ SYNC_ASYNC_MODE_MASK) \cup mode]

-----------------------------------------------------------------------------
(* The settings that the registers stand for. *)

Off == -1
Settings(r) ==
  [mode    |-> [lin |-> ELIN \in r.MM0, card |-> EERR \in r.MM2,
                irda |-> IF EIRD \in r.MM1 THEN r.MM1 \cap {EIRX, EITX, EITP} ELSE {Off}],
   line    |-> r.LCR \ {SB},
   break   |-> SB \in r.LCR,
   local   |-> LOOP \in r.MCR,
   remote  |-> r.MCR \cap {RLOOP, ECHO},
   rxMsb   |-> E_MSB_RX \in r.MM1,
   txMsb   |-> E_MSB_TX \in r.MM1,
   filter  |-> r.GFR,
   flags   |-> EAFM \in r.MM2,
   clearFlags |-> EAFC \in r.MM2,
   timeout |-> IF ERTO \in r.MM0 THEN r.RTO ELSE Off,
   guard   |-> IF ETTG \in r.MM0 THEN r.TTG ELSE Off,
   address |-> r.ADR,
   half    |-> ESWM \in r.MM2,
   ready   |-> RDYMODE \in r.FCR,
   sync    |-> r.MM0 \cap SYNC_ASYNC_MODE_MASK]

Defaults(mode, line, half) ==
  [mode |-> mode, line |-> line, break |-> FALSE, local |-> FALSE, remote |-> {},
   rxMsb |-> FALSE, txMsb |-> FALSE, filter |-> 0, flags |-> FALSE,
   clearFlags |-> FALSE, timeout |-> Off, guard |-> Off, address |-> 0,
   half |-> half, ready |-> FALSE, sync |-> {}]
Mode(lin, card, irda) == [lin |-> lin, card |-> card, irda |-> irda]

-----------------------------------------------------------------------------
(* What the application calls. *)

Called(setting, value, after) ==
  /\ configCalls < MaxConfigCalls /\ configCalls' = configCalls + 1
  /\ regs' = after
  /\ call' = [setting |-> setting, value |-> value]
  /\ UNCHANGED <<uart, clock>>

Started == call.setting # "none"
Switch(setting, on, off) ==
  Started /\ (Called(setting, TRUE, on) \/ Called(setting, FALSE, off))

Initialise ==
  \E b \in Bauds, l \in LineConfigs :
    LET opened(mode, half, after) ==
          Called("all", [baud |-> b, settings |-> Defaults(mode, l, half)], after)
        card == EightBitsTwoStops \subseteq l
    IN  \/ opened(Mode(FALSE, FALSE, {Off}), FALSE, MSS_UART_init(b, l))
        \/ opened(Mode(TRUE, FALSE, {Off}), FALSE, MSS_UART_lin_init(b, l))
        \/ opened(Mode(FALSE, card, {Off}), card, MSS_UART_smartcard_init(b, l))
        \/ \E irda \in SUBSET {EIRX, EITX, EITP} :
             opened(Mode(FALSE, FALSE, irda), FALSE,
               MSS_UART_irda_init(b, l, EIRX \in irda, EITX \in irda, EITP \in irda))

SetLoopback ==
  /\ Started
  /\ \E l \in Loopbacks :
       LET far == Settings(regs).remote
           after == MSS_UART_set_loopback(regs, l)
       IN  CASE l = "LOCAL_LOOPBACK_ON"  -> Called("local", TRUE, after)
             [] l = "LOCAL_LOOPBACK_OFF" -> Called("local", FALSE, after)
             [] l = "REMOTE_LOOPBACK_ON" -> Called("remote", far \cup {RLOOP}, after)
             [] l = "AUTO_ECHO_ON"       -> Called("remote", far \cup {ECHO}, after)
             [] OTHER                    -> Called("remote", {}, after)

SetBreak      == Switch("break", MSS_UART_set_break(regs), MSS_UART_clear_break(regs))
SetHalfDuplex == Switch("half", MSS_UART_enable_half_duplex(regs),
                                MSS_UART_disable_half_duplex(regs))
SetEndian == \/ Switch("rxMsb", MSS_UART_set_rx_endian(regs, TRUE),
                                MSS_UART_set_rx_endian(regs, FALSE))
             \/ Switch("txMsb", MSS_UART_set_tx_endian(regs, TRUE),
                                MSS_UART_set_tx_endian(regs, FALSE))
SetFlags == \/ Switch("flags", MSS_UART_enable_afm(regs), MSS_UART_disable_afm(regs))
            \/ Switch("clearFlags", MSS_UART_enable_afclear(regs),
                                    MSS_UART_disable_afclear(regs))
SetReady == Switch("ready", MSS_UART_set_ready_mode(regs, TRUE),
                            MSS_UART_set_ready_mode(regs, FALSE))
SetTimeout ==
  /\ Started
  /\ \/ \E t \in ByteArgs : Called("timeout", t, MSS_UART_enable_rx_timeout(regs, t))
     \/ Called("timeout", Off, MSS_UART_disable_rx_timeout(regs))
     \/ \E t \in ByteArgs : Called("guard", t, MSS_UART_enable_tx_time_guard(regs, t))
     \/ Called("guard", Off, MSS_UART_disable_tx_time_guard(regs))
SetValue ==
  /\ Started
  /\ \/ \E a \in ByteArgs : Called("address", a, MSS_UART_set_address(regs, a))
     \/ \E n \in ByteArgs \cap (0..7) : Called("filter", n, MSS_UART_set_filter_length(regs, n))
     \/ \E m \in SyncModes : Called("sync", m, MSS_UART_set_usart_mode(regs, m))

(* Standby, a new PLL setting: somebody else switches the clock. *)
SwitchClock ==
  /\ clock' \in {[c EXCEPT !.device_version = clock.device_version] : c \in Clocks}
  /\ UNCHANGED <<uart, regs, call, configCalls>>

ConfigInit ==
  /\ uart \in {0, 1} /\ regs = AfterSoftReset
  /\ clock \in {silicon_workarounds(c) : c \in Clocks}
  /\ call = [setting |-> "none", value |-> Off] /\ configCalls = 0

ConfigNext == \/ Initialise \/ SetLoopback \/ SetBreak \/ SetHalfDuplex \/ SetEndian
              \/ SetFlags \/ SetReady \/ SetTimeout \/ SetValue \/ SwitchClock

ConfigSpec == ConfigInit /\ [][ConfigNext]_config

-----------------------------------------------------------------------------
(* A call changes the setting it names, to the value it gives, and no      *)
(* other, though most settings share a register with several others and    *)
(* MM0 and LCR are also written by the baud rate; an initialisation leaves *)
(* nothing of what was set before.                                         *)
SettingsAsAsked ==
  [][configCalls' # configCalls =>
       Settings(regs') =
         IF call'.setting = "all" THEN call'.value.settings
         ELSE [Settings(regs) EXCEPT ![call'.setting] = call'.value]]_config

(* 64 times the divisor that the UART works with. *)
Divisor64(r) == 64 * r.DIV + (IF EFBR \in r.MM0 THEN r.DFR ELSE 0)
Distance(a, b) == IF a < b THEN b - a ELSE a - b

(* "the most accurate baud rat possible" (mss_uart.c:1544): where a        *)
(* fraction can be used no multiple of 1/64 comes closer to the divisor    *)
(* that the clock and the baud rate call for, which is 4 * pclk / baud.    *)
BaudNearest ==
  [][configCalls' # configCalls /\ call'.setting = "all" /\ EFBR \in regs'.MM0 =>
       2 * Distance(Divisor64(regs') * call'.value.baud,
                    4 * SystemCoreClockUpdate[uart]) <= call'.value.baud]_config

=============================================================================
