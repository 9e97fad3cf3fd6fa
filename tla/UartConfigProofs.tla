-------------------------- MODULE UartConfigProofs --------------------------
(***************************************************************************)
(* The settings of UartConfig and its baud rate, for every clock, every    *)
(* baud rate and every sequence of calls.                                  *)
(***************************************************************************)
EXTENDS UartConfig, TLAPS

(* What integer division gives. *)
LEMMA Quotient ==
  ASSUME NEW n \in Nat, NEW d \in Nat \ {0}
  PROVE  /\ n \div d \in Nat
         /\ d * (n \div d) <= n /\ n < d * (n \div d) + d
<1>1. n \div d \in Nat
  BY SMT
<1>2. n = d * (n \div d) + (n % d) /\ n % d \in 0 .. d - 1
  BY SMT
<1> QED BY <1>1, <1>2

(* The divisor that config_baud_divisors writes, in 64ths, is half of the  *)
(* divisor in 128ths, rounded up; its fraction can be a full 64.           *)
LEMMA Halved ==
  ASSUME NEW pclk \in Nat, NEW baud \in Nat \ {0}
  PROVE  LET q == (8 * pclk) \div baud
             b == baud_value(pclk, baud)
             f == fractional_baud_value(pclk, baud)
         IN  /\ q \in Nat /\ b \in Nat /\ f \in 0 .. 64
             /\ 2 * (64 * b + f) - q \in {0, 1}
<1> DEFINE q == (8 * pclk) \div baud
           h == q \div 2
           b == h \div 64
<1>1. q \in Nat
  BY Quotient
<1>2. h \in Nat /\ q - 2 * h \in {0, 1}
  <2> HIDE DEF q
  <2> QED BY <1>1, SMT
<1>3. b \in Nat /\ h - 64 * b \in 0 .. 63
  <2> HIDE DEF h
  <2> QED BY <1>2, SMT
<1>4. baud_value(pclk, baud) = b
  BY DEF baud_value
<1>5. fractional_baud_value(pclk, baud) = (h - 64 * b) + ((q - 128 * b) - 2 * (h - 64 * b))
  BY <1>4 DEF fractional_baud_value
<1> HIDE DEF q, h, b
<1>6. fractional_baud_value(pclk, baud) = (h - 64 * b) + (q - 2 * h)
  BY <1>1, <1>2, <1>3, <1>5
<1>7. fractional_baud_value(pclk, baud) \in 0 .. 64
  BY <1>1, <1>2, <1>3, <1>6
<1>8. 2 * (64 * b + fractional_baud_value(pclk, baud)) - q \in {0, 1}
  BY <1>1, <1>2, <1>3, <1>6
<1> QED BY <1>1, <1>3, <1>4, <1>7, <1>8 DEF q

Registers == {"LCR", "FCR", "MCR", "MM0", "MM1", "MM2", "GFR", "TTG", "RTO", "ADR",
              "DIV", "DFR"}

(* The registers are a function, whatever bits are set in them. *)
IsRegs(r) == r = [x \in Registers |-> r[x]]

(* Where the fraction is used, the divisor and the fraction are those of   *)
(* the clock and the baud rate.                                            *)
Divided(r, baud) ==
  EFBR \in r["MM0"] => /\ r["DIV"] = baud_value(SystemCoreClockUpdate[uart], baud)
                       /\ r["DFR"] = fractional_baud_value(SystemCoreClockUpdate[uart], baud)

LEMMA DivisorsWritten ==
  ASSUME NEW r, IsRegs(r), EFBR \notin r["MM0"], NEW baud
  PROVE  IsRegs(config_baud_divisors(r, baud)) /\ Divided(config_baud_divisors(r, baud), baud)
<1> DEFINE pclk == SystemCoreClockUpdate[uart]
           b == baud_value(pclk, baud)
           f == fractional_baud_value(pclk, baud)
           d1 == set_bit(r, "LCR", DLAB)
           d2 == store(d1, "DIV", b)
           divided == clear_bit(d2, "LCR", DLAB)
           d3 == set_bit(divided, "MM0", EFBR)
           d4 == store(d3, "DFR", f)
           d5 == clear_bit(divided, "MM0", EFBR)
           c == config_baud_divisors(r, baud)
<1>1. c = r \/ c = d4 \/ c = d5
  BY DEF config_baud_divisors
<1> HIDE DEF b, f
<1>2. IsRegs(d1)
  BY DEF IsRegs, set_bit, Registers
<1>3. IsRegs(d2) /\ d2["DIV"] = b
  BY <1>2 DEF IsRegs, store, Registers
<1>4. IsRegs(divided) /\ divided["DIV"] = b
  BY <1>3 DEF IsRegs, clear_bit, Registers
<1>5. IsRegs(d3) /\ d3["DIV"] = b
  BY <1>4 DEF IsRegs, set_bit, Registers
<1>6. IsRegs(d4) /\ d4["DIV"] = b /\ d4["DFR"] = f
  BY <1>5 DEF IsRegs, store, Registers
<1>7. IsRegs(d5) /\ EFBR \notin d5["MM0"]
  BY <1>4 DEF IsRegs, clear_bit, Registers
<1>8. IsRegs(c) /\ (EFBR \in c["MM0"] => c["DIV"] = b /\ c["DFR"] = f)
  <2> HIDE DEF d4, d5, c
  <2> QED BY <1>1, <1>6, <1>7
<1> QED BY <1>8 DEF Divided, b, f

(* Every initialisation of a UART writes the divisors and leaves them.     *)
LEMMA InitialisedDivided ==
  ASSUME NEW baud, NEW line
  PROVE  IsRegs(global_init(baud, line)) /\ Divided(global_init(baud, line), baud)
<1> DEFINE fifo == set_bit(AfterSoftReset, "FCR", RXRDY_TXRDYN_EN)
           plain == [fifo EXCEPT !.MCR = @ \ {LOOP, RLOOP},
                            !.MM1 = @ \ {E_MSB_TX, E_MSB_RX},
                            !.MM2 = @ \ {EAFM, ESWM},
                            !.MM0 = @ \ {ETTG, ERTO, EFBR},
                            !.GFR = 0, !.TTG = 0, !.RTO = 0]
           c == config_baud_divisors(plain, baud)
<1>1. IsRegs(AfterSoftReset)
  BY DEF IsRegs, AfterSoftReset, Registers
<1>2. IsRegs(fifo)
  BY <1>1 DEF IsRegs, set_bit, Registers
<1>3. IsRegs(plain) /\ EFBR \notin plain["MM0"]
  <2> HIDE DEF fifo
  <2> QED BY <1>2 DEF IsRegs, Registers
<1>4. IsRegs(c) /\ Divided(c, baud)
  <2> HIDE DEF plain
  <2> QED BY <1>3, DivisorsWritten
<1>5. global_init(baud, line) = store(c, "LCR", line)
  BY DEF global_init
<1> HIDE DEF c
<1> QED BY <1>4, <1>5 DEF IsRegs, Divided, store, Registers

LEMMA ModesDivided ==
  ASSUME NEW baud, NEW line
  PROVE  /\ Divided(MSS_UART_init(baud, line), baud)
         /\ Divided(MSS_UART_lin_init(baud, line), baud)
         /\ Divided(MSS_UART_smartcard_init(baud, line), baud)
         /\ \A rx, tx, pw \in BOOLEAN :
              Divided(MSS_UART_irda_init(baud, line, rx, tx, pw), baud)
<1> DEFINE g == global_init(baud, line)
<1>1. IsRegs(g) /\ Divided(g, baud)
  BY InitialisedDivided
<1>2. EFBR # ELIN
  BY DEF EFBR, ELIN
<1>3. Divided(MSS_UART_init(baud, line), baud)
  <2> HIDE DEF g
  <2>1. MSS_UART_init(baud, line) =
          [g EXCEPT !.MM0 = @ \ {ELIN}, !.MM1 = @ \ {EIRD}, !.MM2 = @ \ {EERR}]
    BY DEF MSS_UART_init, g
  <2> QED BY <1>1, <1>2, <2>1 DEF IsRegs, Divided, Registers
<1>4. Divided(MSS_UART_lin_init(baud, line), baud)
  <2> HIDE DEF g
  <2>1. MSS_UART_lin_init(baud, line) =
          [g EXCEPT !.MM0 = @ \cup {ELIN}, !.MM1 = @ \ {EIRD}, !.MM2 = @ \ {EERR}]
    BY DEF MSS_UART_lin_init, g
  <2> QED BY <1>1, <1>2, <2>1 DEF IsRegs, Divided, Registers
<1>5. Divided(MSS_UART_smartcard_init(baud, line), baud)
  <2> DEFINE plain == [g EXCEPT !.MM0 = @ \ {ELIN}, !.MM1 = @ \ {EIRD}]
             e == set_bit(plain, "MM2", EERR)
  <2>1. MSS_UART_smartcard_init(baud, line) =
          IF EightBitsTwoStops \subseteq line THEN set_bit(e, "MM2", ESWM) ELSE plain
    BY DEF MSS_UART_smartcard_init
  <2> HIDE DEF g
  <2>2. IsRegs(plain) /\ Divided(plain, baud)
    BY <1>1, <1>2 DEF IsRegs, Divided, Registers
  <2> HIDE DEF plain
  <2>3. IsRegs(e) /\ Divided(e, baud)
    BY <2>2 DEF IsRegs, Divided, Registers, set_bit
  <2> HIDE DEF e
  <2>4. Divided(set_bit(e, "MM2", ESWM), baud)
    BY <2>3 DEF IsRegs, Divided, Registers, set_bit
  <2> QED BY <2>1, <2>2, <2>4
<1>6. ASSUME NEW rx \in BOOLEAN, NEW tx \in BOOLEAN, NEW pw \in BOOLEAN
      PROVE  Divided(MSS_UART_irda_init(baud, line, rx, tx, pw), baud)
  <2> DEFINE plain == [g EXCEPT !.MM0 = @ \ {ELIN}, !.MM1 = @ \cup {EIRD},
                                !.MM2 = @ \ {EERR}]
             p1 == put_bit(plain, "MM1", EIRX, rx)
             p2 == put_bit(p1, "MM1", EITX, tx)
  <2>1. MSS_UART_irda_init(baud, line, rx, tx, pw) = put_bit(p2, "MM1", EITP, pw)
    BY DEF MSS_UART_irda_init
  <2>2. ASSUME NEW r, IsRegs(r), Divided(r, baud), NEW bit, NEW on \in BOOLEAN
        PROVE  IsRegs(put_bit(r, "MM1", bit, on)) /\ Divided(put_bit(r, "MM1", bit, on), baud)
    BY <2>2 DEF IsRegs, Divided, Registers, put_bit, set_bit, clear_bit
  <2> HIDE DEF g
  <2>3. IsRegs(plain) /\ Divided(plain, baud)
    BY <1>1, <1>2 DEF IsRegs, Divided, Registers
  <2> HIDE DEF plain
  <2>4. IsRegs(p1) /\ Divided(p1, baud)
    BY <2>2, <2>3
  <2> HIDE DEF p1
  <2>5. IsRegs(p2) /\ Divided(p2, baud)
    BY <2>2, <2>4
  <2> HIDE DEF p2
  <2> QED BY <2>1, <2>2, <2>5
<1> QED BY <1>3, <1>4, <1>5, <1>6

(* No multiple of 1/64 is closer to the divisor asked for.                 *)
LEMMA Nearest ==
  ASSUME NEW pclk \in Nat, NEW baud \in Nat \ {0}
  PROVE  2 * Distance((64 * baud_value(pclk, baud) + fractional_baud_value(pclk, baud)) * baud,
                      4 * pclk) <= baud
<1> DEFINE q == (8 * pclk) \div baud
           D == 64 * baud_value(pclk, baud) + fractional_baud_value(pclk, baud)
<1>1. q \in Nat /\ D \in Nat /\ 2 * D - q \in {0, 1}
  <2> DEFINE b == baud_value(pclk, baud)
             f == fractional_baud_value(pclk, baud)
  <2>1. q \in Nat /\ b \in Nat /\ f \in 0 .. 64 /\ 2 * (64 * b + f) - q \in {0, 1}
    BY Halved
  <2> HIDE DEF q, b, f
  <2>2. 64 * b + f \in Nat
    BY <2>1
  <2> QED BY <2>1, <2>2 DEF b, f
<1>2. baud * q <= 8 * pclk /\ 8 * pclk < baud * q + baud
  BY Quotient
<1> HIDE DEF q, D
<1>3. baud * q \in Nat /\ D * baud \in Nat
  BY <1>1, SMT
<1>4. 2 * (D * baud) = baud * q \/ 2 * (D * baud) = baud * q + baud
  <2>1. CASE 2 * D = q
    BY <1>1, <2>1, SMT
  <2>2. CASE 2 * D = q + 1
    BY <1>1, <2>2, SMT
  <2> QED BY <1>1, <2>1, <2>2
<1>5. 2 * Distance(D * baud, 4 * pclk) <= baud
  <2> DEFINE m == D * baud
             k == baud * q
  <2>1. m \in Nat /\ k \in Nat /\ (2 * m = k \/ 2 * m = k + baud)
    BY <1>3, <1>4
  <2>2. k <= 8 * pclk /\ 8 * pclk < k + baud
    BY <1>2
  <2> HIDE DEF m, k
  <2>3. 2 * Distance(m, 4 * pclk) <= baud
    BY <2>1, <2>2 DEF Distance
  <2> QED BY <2>3 DEF m
<1> QED BY <1>5 DEF D

LEMMA ClockIsNat ==
  ASSUME uart \in {0, 1}
  PROVE  SystemCoreClockUpdate[uart] \in Nat
<1>1. get_rcosc_25_50mhz_frequency \in Nat
  BY DEF get_rcosc_25_50mhz_frequency
<1>2. StandbyFrequency \in Nat
  BY <1>1 DEF StandbyFrequency
<1> QED BY <1>1, <1>2, ClockAssumption DEF SystemCoreClockUpdate

(* Registers that are divided hold the nearest divisor.                    *)
LEMMA DividedIsNearest ==
  ASSUME uart \in {0, 1}, NEW r, NEW baud \in Bauds, Divided(r, baud), EFBR \in r["MM0"]
  PROVE  2 * Distance(Divisor64(r) * baud, 4 * SystemCoreClockUpdate[uart]) <= baud
<1> DEFINE pclk == SystemCoreClockUpdate[uart]
<1>1. pclk \in Nat /\ baud \in Nat \ {0}
  BY ClockIsNat, BaudAssumption
<1>2. r["DIV"] = baud_value(pclk, baud) /\ r["DFR"] = fractional_baud_value(pclk, baud)
  BY DEF Divided
<1>3. Divisor64(r) = 64 * baud_value(pclk, baud) + fractional_baud_value(pclk, baud)
  <2> HIDE DEF pclk
  <2> QED BY <1>2 DEF Divisor64
<1> HIDE DEF pclk
<1>4. 2 * Distance(Divisor64(r) * baud, 4 * pclk) <= baud
  BY <1>1, <1>3, Nearest
<1> QED BY <1>4 DEF pclk

LEMMA TwoUarts == ConfigSpec => [](uart \in {0, 1})
<1>1. ConfigInit => uart \in {0, 1}
  BY DEF ConfigInit
<1>2. ConfigNext => uart' = uart
  BY DEF ConfigNext, Initialise, SetLoopback, SetBreak, SetHalfDuplex, SetEndian, SetFlags,
         SetReady, SetTimeout, SetValue, SwitchClock, Switch, Called
<1>3. uart \in {0, 1} /\ [ConfigNext]_config => (uart \in {0, 1})'
  BY <1>2 DEF config
<1> QED BY <1>1, <1>3, PTL DEF ConfigSpec

(* Whatever the clock registers and the baud rates: an initialisation that *)
(* can use the fraction divides the bus clock by the 64th that is nearest  *)
(* to the divisor of the baud rate it was asked for.                       *)
THEOREM BaudNearestAlways == ConfigSpec => BaudNearest
<1> DEFINE Claim == configCalls' # configCalls /\ call'.setting = "all" /\ EFBR \in regs'.MM0 =>
                      2 * Distance(Divisor64(regs') * call'.value.baud,
                                   4 * SystemCoreClockUpdate[uart]) <= call'.value.baud
<1>1. ASSUME uart \in {0, 1}, Initialise PROVE Claim
  <2>1. PICK b \in Bauds :
          /\ call'.value.baud = b
          /\ Divided(regs', b)
    <3>1. PICK b \in Bauds, l \in LineConfigs :
            LET opened(mode, half, after) ==
                  Called("all", [baud |-> b, settings |-> Defaults(mode, l, half)], after)
                card == EightBitsTwoStops \subseteq l
            IN  \/ opened(Mode(FALSE, FALSE, {Off}), FALSE, MSS_UART_init(b, l))
                \/ opened(Mode(TRUE, FALSE, {Off}), FALSE, MSS_UART_lin_init(b, l))
                \/ opened(Mode(FALSE, card, {Off}), card, MSS_UART_smartcard_init(b, l))
                \/ \E irda \in SUBSET {EIRX, EITX, EITP} :
                     opened(Mode(FALSE, FALSE, irda), FALSE,
                       MSS_UART_irda_init(b, l, EIRX \in irda, EITX \in irda, EITP \in irda))
      BY <1>1 DEF Initialise
    <3>2. PICK v, r : /\ Called("all", [baud |-> b, settings |-> v], r)
                      /\ Divided(r, b)
      <4>1. CASE \E v : Called("all", [baud |-> b, settings |-> v], MSS_UART_init(b, l))
        BY <4>1, ModesDivided
      <4>2. CASE \E v : Called("all", [baud |-> b, settings |-> v], MSS_UART_lin_init(b, l))
        BY <4>2, ModesDivided
      <4>3. CASE \E v : Called("all", [baud |-> b, settings |-> v],
                               MSS_UART_smartcard_init(b, l))
        BY <4>3, ModesDivided
      <4>4. CASE \E irda \in SUBSET {EIRX, EITX, EITP} :
                   Called("all", [baud |-> b,
                                  settings |-> Defaults(Mode(FALSE, FALSE, irda), l, FALSE)],
                     MSS_UART_irda_init(b, l, EIRX \in irda, EITX \in irda, EITP \in irda))
        <5>1. PICK irda \in SUBSET {EIRX, EITX, EITP} :
                   Called("all", [baud |-> b,
                                  settings |-> Defaults(Mode(FALSE, FALSE, irda), l, FALSE)],
                     MSS_UART_irda_init(b, l, EIRX \in irda, EITX \in irda, EITP \in irda))
          BY <4>4
        <5>2. ASSUME NEW rx, NEW tx, NEW pw,
                     rx = (EIRX \in irda), tx = (EITX \in irda), pw = (EITP \in irda)
              PROVE  Divided(MSS_UART_irda_init(b, l, rx, tx, pw), b)
          <6>1. rx \in BOOLEAN /\ tx \in BOOLEAN /\ pw \in BOOLEAN
            BY <5>2
          <6> QED BY <6>1, ModesDivided
        <5>3. Divided(MSS_UART_irda_init(b, l, EIRX \in irda, EITX \in irda, EITP \in irda), b)
          BY <5>2, Zenon
        <5> QED BY <5>1, <5>3
      <4> QED BY <3>1, <4>1, <4>2, <4>3, <4>4
    <3>3. regs' = r /\ call'.value.baud = b
      BY <3>2 DEF Called
    <3> QED BY <3>2, <3>3
  <2> QED BY <1>1, <2>1, DividedIsNearest
<1>2. ConfigNext => Initialise \/ call'.setting # "all" \/ configCalls' = configCalls
  <2>1. ASSUME NEW setting, NEW v, NEW r, setting # "all", Called(setting, v, r)
        PROVE  call'.setting # "all"
    BY <2>1 DEF Called
  <2>2. ASSUME NEW setting, NEW on, NEW off, setting # "all", Switch(setting, on, off)
        PROVE  call'.setting # "all"
    BY <2>1, <2>2 DEF Switch
  <2>3. SetLoopback => call'.setting # "all"
    <3> SUFFICES ASSUME SetLoopback PROVE call'.setting # "all"
      OBVIOUS
    <3>1. PICK l \in Loopbacks :
            LET far == Settings(regs).remote
                after == MSS_UART_set_loopback(regs, l)
            IN  CASE l = "LOCAL_LOOPBACK_ON"  -> Called("local", TRUE, after)
                  [] l = "LOCAL_LOOPBACK_OFF" -> Called("local", FALSE, after)
                  [] l = "REMOTE_LOOPBACK_ON" -> Called("remote", far \cup {RLOOP}, after)
                  [] l = "AUTO_ECHO_ON"       -> Called("remote", far \cup {ECHO}, after)
                  [] OTHER                    -> Called("remote", {}, after)
      BY DEF SetLoopback
    <3>2. \E setting \in {"local", "remote"} : \E v, r : Called(setting, v, r)
      BY <3>1
    <3> QED BY <2>1, <3>2
  <2>4. SetBreak \/ SetHalfDuplex \/ SetReady => call'.setting # "all"
    BY <2>2 DEF SetBreak, SetHalfDuplex, SetReady
  <2>5. SetEndian \/ SetFlags => call'.setting # "all"
    BY <2>2 DEF SetEndian, SetFlags
  <2>6. SetTimeout \/ SetValue => call'.setting # "all"
    BY <2>1 DEF SetTimeout, SetValue
  <2>7. SwitchClock => configCalls' = configCalls
    BY DEF SwitchClock
  <2> QED BY <2>3, <2>4, <2>5, <2>6, <2>7 DEF ConfigNext
<1>3. uart \in {0, 1} /\ [ConfigNext]_config => [Claim]_config
  <2> HIDE DEF Claim
  <2>1. call'.setting # "all" \/ configCalls' = configCalls => Claim
    BY DEF Claim
  <2> QED BY <1>1, <1>2, <2>1
<1> QED BY <1>3, TwoUarts, PTL DEF ConfigSpec, BaudNearest

-----------------------------------------------------------------------------
(* The settings, by name. *)
Fields == {"mode", "line", "break", "local", "remote", "rxMsb", "txMsb", "filter", "flags",
           "clearFlags", "timeout", "guard", "address", "half", "ready", "sync"}

LEMMA SettingsAreARecord ==
  ASSUME NEW r
  PROVE  Settings(r) = [f \in Fields |-> Settings(r)[f]]
BY SMTT(30) DEF Settings, Fields

(* Two settings of the registers that differ in one field. *)
LEMMA OneChanged ==
  ASSUME NEW r, NEW q, NEW s \in Fields, NEW v, Settings(q)[s] = v,
         \A f \in Fields \ {s} : Settings(q)[f] = Settings(r)[f]
  PROVE  Settings(q) = [Settings(r) EXCEPT ![s] = v]
<1> DEFINE S == Settings(q)
           T == Settings(r)
<1>1. S = [f \in Fields |-> S[f]] /\ T = [f \in Fields |-> T[f]]
  BY SettingsAreARecord
<1> HIDE DEF S, T
<1>2. S = [T EXCEPT ![s] = v]
  BY <1>1 DEF S, T
<1> QED BY <1>2 DEF S, T

(* Where each setting is kept. *)
LEMMA Kept ==
  ASSUME NEW r
  PROVE  /\ Settings(r).mode =
              [lin |-> ELIN \in r.MM0, card |-> EERR \in r.MM2,
               irda |-> IF EIRD \in r.MM1 THEN r.MM1 \cap {EIRX, EITX, EITP} ELSE {Off}]
         /\ Settings(r).line = r.LCR \ {SB}
         /\ Settings(r).break = (SB \in r.LCR)
         /\ Settings(r).local = (LOOP \in r.MCR)
         /\ Settings(r).remote = r.MCR \cap {RLOOP, ECHO}
         /\ Settings(r).rxMsb = (E_MSB_RX \in r.MM1)
         /\ Settings(r).txMsb = (E_MSB_TX \in r.MM1)
         /\ Settings(r).filter = r.GFR
         /\ Settings(r).flags = (EAFM \in r.MM2)
         /\ Settings(r).clearFlags = (EAFC \in r.MM2)
         /\ Settings(r).timeout = (IF ERTO \in r.MM0 THEN r.RTO ELSE Off)
         /\ Settings(r).guard = (IF ETTG \in r.MM0 THEN r.TTG ELSE Off)
         /\ Settings(r).address = r.ADR
         /\ Settings(r).half = (ESWM \in r.MM2)
         /\ Settings(r).ready = (RDYMODE \in r.FCR)
         /\ Settings(r).sync = r.MM0 \cap SYNC_ASYNC_MODE_MASK
BY DEF Settings

SameMode(q, r) ==
  /\ ELIN \in q.MM0 <=> ELIN \in r.MM0
  /\ EERR \in q.MM2 <=> EERR \in r.MM2
  /\ EIRD \in q.MM1 <=> EIRD \in r.MM1
  /\ q.MM1 \cap {EIRX, EITX, EITP} = r.MM1 \cap {EIRX, EITX, EITP}

(* A setting stays where the bits and registers that keep it do. *)
LEMMA Unaffected ==
  ASSUME NEW r, NEW q
  PROVE  /\ SameMode(q, r) => Settings(q).mode = Settings(r).mode
         /\ q.LCR \ {SB} = r.LCR \ {SB} => Settings(q).line = Settings(r).line
         /\ (SB \in q.LCR <=> SB \in r.LCR) => Settings(q).break = Settings(r).break
         /\ (LOOP \in q.MCR <=> LOOP \in r.MCR) => Settings(q).local = Settings(r).local
         /\ q.MCR \cap {RLOOP, ECHO} = r.MCR \cap {RLOOP, ECHO}
              => Settings(q).remote = Settings(r).remote
         /\ (E_MSB_RX \in q.MM1 <=> E_MSB_RX \in r.MM1)
              => Settings(q).rxMsb = Settings(r).rxMsb
         /\ (E_MSB_TX \in q.MM1 <=> E_MSB_TX \in r.MM1)
              => Settings(q).txMsb = Settings(r).txMsb
         /\ q.GFR = r.GFR => Settings(q).filter = Settings(r).filter
         /\ (EAFM \in q.MM2 <=> EAFM \in r.MM2) => Settings(q).flags = Settings(r).flags
         /\ (EAFC \in q.MM2 <=> EAFC \in r.MM2)
              => Settings(q).clearFlags = Settings(r).clearFlags
         /\ (ERTO \in q.MM0 <=> ERTO \in r.MM0) /\ q.RTO = r.RTO
              => Settings(q).timeout = Settings(r).timeout
         /\ (ETTG \in q.MM0 <=> ETTG \in r.MM0) /\ q.TTG = r.TTG
              => Settings(q).guard = Settings(r).guard
         /\ q.ADR = r.ADR => Settings(q).address = Settings(r).address
         /\ (ESWM \in q.MM2 <=> ESWM \in r.MM2) => Settings(q).half = Settings(r).half
         /\ (RDYMODE \in q.FCR <=> RDYMODE \in r.FCR)
              => Settings(q).ready = Settings(r).ready
         /\ q.MM0 \cap SYNC_ASYNC_MODE_MASK = r.MM0 \cap SYNC_ASYNC_MODE_MASK
              => Settings(q).sync = Settings(r).sync
<1>1. SameMode(q, r) => Settings(q).mode = Settings(r).mode
  BY DEF Settings, SameMode
<1>2. q.LCR \ {SB} = r.LCR \ {SB} => Settings(q).line = Settings(r).line
  BY DEF Settings, SameMode
<1>3. (SB \in q.LCR <=> SB \in r.LCR) => Settings(q).break = Settings(r).break
  BY DEF Settings, SameMode
<1>4. (LOOP \in q.MCR <=> LOOP \in r.MCR) => Settings(q).local = Settings(r).local
  BY DEF Settings, SameMode
<1>5. q.MCR \cap {RLOOP, ECHO} = r.MCR \cap {RLOOP, ECHO}
         => Settings(q).remote = Settings(r).remote
  BY DEF Settings, SameMode
<1>6. (E_MSB_RX \in q.MM1 <=> E_MSB_RX \in r.MM1) => Settings(q).rxMsb = Settings(r).rxMsb
  BY DEF Settings, SameMode
<1>7. (E_MSB_TX \in q.MM1 <=> E_MSB_TX \in r.MM1) => Settings(q).txMsb = Settings(r).txMsb
  BY DEF Settings, SameMode
<1>8. q.GFR = r.GFR => Settings(q).filter = Settings(r).filter
  BY DEF Settings, SameMode
<1>9. (EAFM \in q.MM2 <=> EAFM \in r.MM2) => Settings(q).flags = Settings(r).flags
  BY DEF Settings, SameMode
<1>10. (EAFC \in q.MM2 <=> EAFC \in r.MM2)
         => Settings(q).clearFlags = Settings(r).clearFlags
  BY DEF Settings, SameMode
<1>11. (ERTO \in q.MM0 <=> ERTO \in r.MM0) /\ q.RTO = r.RTO
         => Settings(q).timeout = Settings(r).timeout
  BY DEF Settings, SameMode
<1>12. (ETTG \in q.MM0 <=> ETTG \in r.MM0) /\ q.TTG = r.TTG
         => Settings(q).guard = Settings(r).guard
  BY DEF Settings, SameMode
<1>13. q.ADR = r.ADR => Settings(q).address = Settings(r).address
  BY DEF Settings, SameMode
<1>14. (ESWM \in q.MM2 <=> ESWM \in r.MM2) => Settings(q).half = Settings(r).half
  BY DEF Settings, SameMode
<1>15. (RDYMODE \in q.FCR <=> RDYMODE \in r.FCR) => Settings(q).ready = Settings(r).ready
  BY DEF Settings, SameMode
<1>16. q.MM0 \cap SYNC_ASYNC_MODE_MASK = r.MM0 \cap SYNC_ASYNC_MODE_MASK
         => Settings(q).sync = Settings(r).sync
  BY DEF Settings, SameMode
<1> QED BY <1>1, <1>2, <1>3, <1>4, <1>5, <1>6, <1>7, <1>8, <1>9, <1>10, <1>11, <1>12,
    <1>13, <1>14, <1>15, <1>16

(* A call that changes one setting, and leaves the registers registers. *)
Changes(r, q, s, v) == IsRegs(q) /\ Settings(q) = [Settings(r) EXCEPT ![s] = v]

LEMMA ChangesOne ==
  ASSUME NEW r, NEW q, NEW s \in Fields, NEW v, IsRegs(q), Settings(q)[s] = v,
         \A f \in Fields \ {s} : Settings(q)[f] = Settings(r)[f]
  PROVE  Changes(r, q, s, v)
BY OneChanged DEF Changes

(* Nothing but one register is written. *)
Only(r, q, reg) == IsRegs(q) /\ \A x \in Registers \ {reg} : q[x] = r[x]

LEMMA PutBit ==
  ASSUME NEW r, IsRegs(r), NEW reg \in Registers, NEW bit, NEW on \in BOOLEAN
  PROVE  LET q == put_bit(r, reg, bit, on)
         IN  /\ Only(r, q, reg)
             /\ on => q[reg] = r[reg] \cup {bit}
             /\ ~on => q[reg] = r[reg] \ {bit}
<1>1. CASE on
  BY <1>1 DEF IsRegs, Registers, Only, put_bit, set_bit
<1>2. CASE ~on
  BY <1>2 DEF IsRegs, Registers, Only, put_bit, clear_bit
<1> QED BY <1>1, <1>2

(* The settings that are one bit. *)
LEMMA Bits ==
  ASSUME NEW r, IsRegs(r), NEW on \in BOOLEAN
  PROVE  /\ Changes(r, put_bit(r, "LCR", SB, on), "break", on)
         /\ Changes(r, put_bit(r, "MCR", LOOP, on), "local", on)
         /\ Changes(r, put_bit(r, "MM1", E_MSB_RX, on), "rxMsb", on)
         /\ Changes(r, put_bit(r, "MM1", E_MSB_TX, on), "txMsb", on)
         /\ Changes(r, put_bit(r, "MM2", EAFM, on), "flags", on)
         /\ Changes(r, put_bit(r, "MM2", EAFC, on), "clearFlags", on)
         /\ Changes(r, put_bit(r, "MM2", ESWM, on), "half", on)
         /\ Changes(r, put_bit(r, "FCR", RDYMODE, on), "ready", on)
<1>1. Changes(r, put_bit(r, "LCR", SB, on), "break", on)
  <2> DEFINE q == put_bit(r, "LCR", SB, on)
  <2>1. /\ Only(r, q, "LCR")
        /\ on => q["LCR"] = r["LCR"] \cup {SB}
        /\ ~on => q["LCR"] = r["LCR"] \ {SB}
    BY PutBit DEF Registers
  <2> HIDE DEF q
  <2>2. Settings(q)["break"] = on
    BY <2>1 DEF Settings
  <2>3. \A f \in Fields \ {"break"} : Settings(q)[f] = Settings(r)[f]
    BY <2>1, Unaffected DEF Only, Registers, Fields, SameMode, SB
  <2> QED BY <2>1, <2>2, <2>3, ChangesOne DEF q, Only, Fields
<1>2. Changes(r, put_bit(r, "MCR", LOOP, on), "local", on)
  <2> DEFINE q == put_bit(r, "MCR", LOOP, on)
  <2>1. /\ Only(r, q, "MCR")
        /\ on => q["MCR"] = r["MCR"] \cup {LOOP}
        /\ ~on => q["MCR"] = r["MCR"] \ {LOOP}
    BY PutBit DEF Registers
  <2> HIDE DEF q
  <2>2. Settings(q)["local"] = on
    BY <2>1 DEF Settings
  <2>3. \A f \in Fields \ {"local"} : Settings(q)[f] = Settings(r)[f]
    BY <2>1, Unaffected DEF Only, Registers, Fields, SameMode, LOOP, RLOOP, ECHO
  <2> QED BY <2>1, <2>2, <2>3, ChangesOne DEF q, Only, Fields
<1>3. Changes(r, put_bit(r, "MM1", E_MSB_RX, on), "rxMsb", on)
  <2> DEFINE q == put_bit(r, "MM1", E_MSB_RX, on)
  <2>1. /\ Only(r, q, "MM1")
        /\ on => q["MM1"] = r["MM1"] \cup {E_MSB_RX}
        /\ ~on => q["MM1"] = r["MM1"] \ {E_MSB_RX}
    BY PutBit DEF Registers
  <2> HIDE DEF q
  <2>2. Settings(q)["rxMsb"] = on
    BY <2>1 DEF Settings
  <2>3. \A f \in Fields \ {"rxMsb"} : Settings(q)[f] = Settings(r)[f]
    BY <2>1, Unaffected DEF Only, Registers, Fields, SameMode, E_MSB_RX, E_MSB_TX, EIRD,
       EIRX, EITX, EITP
  <2> QED BY <2>1, <2>2, <2>3, ChangesOne DEF q, Only, Fields
<1>4. Changes(r, put_bit(r, "MM1", E_MSB_TX, on), "txMsb", on)
  <2> DEFINE q == put_bit(r, "MM1", E_MSB_TX, on)
  <2>1. /\ Only(r, q, "MM1")
        /\ on => q["MM1"] = r["MM1"] \cup {E_MSB_TX}
        /\ ~on => q["MM1"] = r["MM1"] \ {E_MSB_TX}
    BY PutBit DEF Registers
  <2> HIDE DEF q
  <2>2. Settings(q)["txMsb"] = on
    BY <2>1 DEF Settings
  <2>3. \A f \in Fields \ {"txMsb"} : Settings(q)[f] = Settings(r)[f]
    BY <2>1, Unaffected DEF Only, Registers, Fields, SameMode, E_MSB_RX, E_MSB_TX, EIRD,
       EIRX, EITX, EITP
  <2> QED BY <2>1, <2>2, <2>3, ChangesOne DEF q, Only, Fields
<1>5. Changes(r, put_bit(r, "MM2", EAFM, on), "flags", on)
  <2> DEFINE q == put_bit(r, "MM2", EAFM, on)
  <2>1. /\ Only(r, q, "MM2")
        /\ on => q["MM2"] = r["MM2"] \cup {EAFM}
        /\ ~on => q["MM2"] = r["MM2"] \ {EAFM}
    BY PutBit DEF Registers
  <2> HIDE DEF q
  <2>2. Settings(q)["flags"] = on
    BY <2>1 DEF Settings
  <2>3. \A f \in Fields \ {"flags"} : Settings(q)[f] = Settings(r)[f]
    BY <2>1, Unaffected DEF Only, Registers, Fields, SameMode, EERR, EAFM, EAFC, ESWM
  <2> QED BY <2>1, <2>2, <2>3, ChangesOne DEF q, Only, Fields
<1>6. Changes(r, put_bit(r, "MM2", EAFC, on), "clearFlags", on)
  <2> DEFINE q == put_bit(r, "MM2", EAFC, on)
  <2>1. /\ Only(r, q, "MM2")
        /\ on => q["MM2"] = r["MM2"] \cup {EAFC}
        /\ ~on => q["MM2"] = r["MM2"] \ {EAFC}
    BY PutBit DEF Registers
  <2> HIDE DEF q
  <2>2. Settings(q)["clearFlags"] = on
    BY <2>1 DEF Settings
  <2>3. \A f \in Fields \ {"clearFlags"} : Settings(q)[f] = Settings(r)[f]
    BY <2>1, Unaffected DEF Only, Registers, Fields, SameMode, EERR, EAFM, EAFC, ESWM
  <2> QED BY <2>1, <2>2, <2>3, ChangesOne DEF q, Only, Fields
<1>7. Changes(r, put_bit(r, "MM2", ESWM, on), "half", on)
  <2> DEFINE q == put_bit(r, "MM2", ESWM, on)
  <2>1. /\ Only(r, q, "MM2")
        /\ on => q["MM2"] = r["MM2"] \cup {ESWM}
        /\ ~on => q["MM2"] = r["MM2"] \ {ESWM}
    BY PutBit DEF Registers
  <2> HIDE DEF q
  <2>2. Settings(q)["half"] = on
    BY <2>1 DEF Settings
  <2>3. \A f \in Fields \ {"half"} : Settings(q)[f] = Settings(r)[f]
    BY <2>1, Unaffected DEF Only, Registers, Fields, SameMode, EERR, EAFM, EAFC, ESWM
  <2> QED BY <2>1, <2>2, <2>3, ChangesOne DEF q, Only, Fields
<1>8. Changes(r, put_bit(r, "FCR", RDYMODE, on), "ready", on)
  <2> DEFINE q == put_bit(r, "FCR", RDYMODE, on)
  <2>1. /\ Only(r, q, "FCR")
        /\ on => q["FCR"] = r["FCR"] \cup {RDYMODE}
        /\ ~on => q["FCR"] = r["FCR"] \ {RDYMODE}
    BY PutBit DEF Registers
  <2> HIDE DEF q
  <2>2. Settings(q)["ready"] = on
    BY <2>1 DEF Settings
  <2>3. \A f \in Fields \ {"ready"} : Settings(q)[f] = Settings(r)[f]
    BY <2>1, Unaffected DEF Only, Registers, Fields, SameMode, RDYMODE
  <2> QED BY <2>1, <2>2, <2>3, ChangesOne DEF q, Only, Fields
<1> QED BY <1>1, <1>2, <1>3, <1>4, <1>5, <1>6, <1>7, <1>8

LEMMA Store ==
  ASSUME NEW r, IsRegs(r), NEW reg \in Registers, NEW value
  PROVE  Only(r, store(r, reg, value), reg) /\ store(r, reg, value)[reg] = value
BY DEF IsRegs, Registers, Only, store

(* Remote loopback and automatic echo are switched on next to each other.  *)
LEMMA Remote ==
  ASSUME NEW r, IsRegs(r), NEW bit \in {RLOOP, ECHO}
  PROVE  Changes(r, set_bit(r, "MCR", bit), "remote", Settings(r).remote \cup {bit})
<1> DEFINE q == set_bit(r, "MCR", bit)
<1>1. Only(r, q, "MCR") /\ q["MCR"] = r["MCR"] \cup {bit}
  BY DEF IsRegs, Registers, Only, set_bit
<1> HIDE DEF q
<1>2. Settings(q)["remote"] = Settings(r).remote \cup {bit}
  BY <1>1 DEF Settings
<1>3. \A f \in Fields \ {"remote"} : Settings(q)[f] = Settings(r)[f]
  BY <1>1, Unaffected DEF Only, Registers, Fields, SameMode, LOOP, RLOOP, ECHO
<1> QED BY <1>1, <1>2, <1>3, ChangesOne DEF q, Only, Fields

(* The settings that are a register, and the mode of the line.             *)
LEMMA Values ==
  ASSUME NEW r, IsRegs(r), NEW value
  PROVE  /\ Changes(r, MSS_UART_set_address(r, value), "address", value)
         /\ Changes(r, MSS_UART_set_filter_length(r, value), "filter", value)
         /\ value \in SyncModes => Changes(r, MSS_UART_set_usart_mode(r, value), "sync", value)
<1>1. Changes(r, MSS_UART_set_address(r, value), "address", value)
  <2> DEFINE q == store(r, "ADR", value)
  <2>1. Only(r, q, "ADR") /\ q["ADR"] = value
    BY Store DEF Registers
  <2> HIDE DEF q
  <2>2. Settings(q)["address"] = value
    BY <2>1 DEF Settings
  <2>3. \A f \in Fields \ {"address"} : Settings(q)[f] = Settings(r)[f]
    BY <2>1, Unaffected DEF Only, Registers, Fields, SameMode
  <2> QED BY <2>1, <2>2, <2>3, ChangesOne DEF q, Only, Fields, MSS_UART_set_address
<1>2. Changes(r, MSS_UART_set_filter_length(r, value), "filter", value)
  <2> DEFINE q == store(r, "GFR", value)
  <2>1. Only(r, q, "GFR") /\ q["GFR"] = value
    BY Store DEF Registers
  <2> HIDE DEF q
  <2>2. Settings(q)["filter"] = value
    BY <2>1 DEF Settings
  <2>3. \A f \in Fields \ {"filter"} : Settings(q)[f] = Settings(r)[f]
    BY <2>1, Unaffected DEF Only, Registers, Fields, SameMode
  <2> QED BY <2>1, <2>2, <2>3, ChangesOne DEF q, Only, Fields, MSS_UART_set_filter_length
<1>3. ASSUME value \in SyncModes
      PROVE  Changes(r, MSS_UART_set_usart_mode(r, value), "sync", value)
  <2> DEFINE q == MSS_UART_set_usart_mode(r, value)
  <2>1. Only(r, q, "MM0") /\ q["MM0"] = (r["MM0"] \ SYNC_ASYNC_MODE_MASK) \cup value
    BY DEF IsRegs, Registers, Only, MSS_UART_set_usart_mode
  <2> HIDE DEF q
  <2>2. value \subseteq SYNC_ASYNC_MODE_MASK
    BY <1>3 DEF SyncModes, SYNC_ASYNC_MODE_MASK
  <2>3. ELIN \notin SYNC_ASYNC_MODE_MASK /\ ERTO \notin SYNC_ASYNC_MODE_MASK
        /\ ETTG \notin SYNC_ASYNC_MODE_MASK
    BY DEF ELIN, ERTO, ETTG, SYNC_ASYNC_MODE_MASK
  <2>4. Settings(q)["sync"] = value
    BY <2>1, <2>2 DEF Settings
  <2>5. \A f \in Fields \ {"sync"} : Settings(q)[f] = Settings(r)[f]
    BY <2>1, <2>2, <2>3, Unaffected DEF Only, Registers, Fields, SameMode
  <2> QED BY <2>1, <2>4, <2>5, ChangesOne DEF q, Only, Fields
<1> QED BY <1>1, <1>2, <1>3

(* The time-out and the time guard: a register, and the bit that enables   *)
(* it, which stand for one setting together.                               *)
LEMMA TimeoutsOn ==
  ASSUME NEW r, IsRegs(r), NEW t
  PROVE  /\ Changes(r, MSS_UART_enable_rx_timeout(r, t), "timeout", t)
         /\ Changes(r, MSS_UART_enable_tx_time_guard(r, t), "guard", t)
<1>1. Changes(r, MSS_UART_enable_rx_timeout(r, t), "timeout", t)
  <2> DEFINE p == store(r, "RTO", t)
             q == set_bit(p, "MM0", ERTO)
  <2>1. Only(r, p, "RTO") /\ p["RTO"] = t
    BY Store DEF Registers
  <2> HIDE DEF p
  <2>2. Only(p, q, "MM0") /\ q["MM0"] = p["MM0"] \cup {ERTO}
    BY <2>1 DEF IsRegs, Registers, Only, set_bit
  <2> HIDE DEF q
  <2>3. Settings(q)["timeout"] = t
    BY <2>1, <2>2 DEF Settings, Only, Registers
  <2>4. /\ q["MM0"] = r["MM0"] \cup {ERTO}
        /\ \A x \in Registers \ {"MM0", "RTO"} : q[x] = r[x]
    BY <2>1, <2>2 DEF Only, Registers
  <2>5. \A f \in Fields \ {"timeout"} : Settings(q)[f] = Settings(r)[f]
    BY <2>4, Unaffected DEF Registers, Fields, SameMode, ELIN, ERTO, ETTG,
       SYNC_ASYNC_MODE_MASK
  <2> QED BY <2>2, <2>3, <2>5, ChangesOne DEF p, q, Only, Fields,
      MSS_UART_enable_rx_timeout
<1>2. Changes(r, MSS_UART_enable_tx_time_guard(r, t), "guard", t)
  <2> DEFINE p == store(r, "TTG", t)
             q == set_bit(p, "MM0", ETTG)
  <2>1. Only(r, p, "TTG") /\ p["TTG"] = t
    BY Store DEF Registers
  <2> HIDE DEF p
  <2>2. Only(p, q, "MM0") /\ q["MM0"] = p["MM0"] \cup {ETTG}
    BY <2>1 DEF IsRegs, Registers, Only, set_bit
  <2> HIDE DEF q
  <2>3. Settings(q)["guard"] = t
    BY <2>1, <2>2 DEF Settings, Only, Registers
  <2>4. /\ q["MM0"] = r["MM0"] \cup {ETTG}
        /\ \A x \in Registers \ {"MM0", "TTG"} : q[x] = r[x]
    BY <2>1, <2>2 DEF Only, Registers
  <2>5. \A f \in Fields \ {"guard"} : Settings(q)[f] = Settings(r)[f]
    BY <2>4, Unaffected DEF Registers, Fields, SameMode, ELIN, ERTO, ETTG,
       SYNC_ASYNC_MODE_MASK
  <2> QED BY <2>2, <2>3, <2>5, ChangesOne DEF p, q, Only, Fields,
      MSS_UART_enable_tx_time_guard
<1> QED BY <1>1, <1>2

LEMMA TimeoutsOff ==
  ASSUME NEW r, IsRegs(r)
  PROVE  /\ Changes(r, MSS_UART_disable_rx_timeout(r), "timeout", Off)
         /\ Changes(r, MSS_UART_disable_tx_time_guard(r), "guard", Off)
<1>1. ASSUME NEW bit
      PROVE  LET q == clear_bit(r, "MM0", bit)
             IN  Only(r, q, "MM0") /\ q["MM0"] = r["MM0"] \ {bit}
  BY DEF IsRegs, Registers, Only, clear_bit
<1>2. Changes(r, MSS_UART_disable_rx_timeout(r), "timeout", Off)
  <2> DEFINE q == clear_bit(r, "MM0", ERTO)
  <2>1. Only(r, q, "MM0") /\ q["MM0"] = r["MM0"] \ {ERTO}
    BY <1>1
  <2> HIDE DEF q
  <2>2. Settings(q)["timeout"] = Off
    BY <2>1 DEF Settings
  <2>3. \A f \in Fields \ {"timeout"} : Settings(q)[f] = Settings(r)[f]
    BY <2>1, Unaffected DEF Only, Registers, Fields, SameMode, ELIN, ERTO, ETTG,
       SYNC_ASYNC_MODE_MASK
  <2> QED BY <2>1, <2>2, <2>3, ChangesOne DEF q, Only, Fields, MSS_UART_disable_rx_timeout
<1>3. Changes(r, MSS_UART_disable_tx_time_guard(r), "guard", Off)
  <2> DEFINE q == clear_bit(r, "MM0", ETTG)
  <2>1. Only(r, q, "MM0") /\ q["MM0"] = r["MM0"] \ {ETTG}
    BY <1>1
  <2> HIDE DEF q
  <2>2. Settings(q)["guard"] = Off
    BY <2>1 DEF Settings
  <2>3. \A f \in Fields \ {"guard"} : Settings(q)[f] = Settings(r)[f]
    BY <2>1, Unaffected DEF Only, Registers, Fields, SameMode, ELIN, ERTO, ETTG,
       SYNC_ASYNC_MODE_MASK
  <2> QED BY <2>1, <2>2, <2>3, ChangesOne DEF q, Only, Fields,
      MSS_UART_disable_tx_time_guard
<1> QED BY <1>2, <1>3

(* What every initialisation starts from: nothing is set but the line, the *)
(* baud rate and RXRDY_TXRDYN_EN.                                          *)
Opened(g, line) ==
  /\ IsRegs(g) /\ g["LCR"] = line
  /\ g["MM0"] \subseteq {EFBR} /\ g["MM1"] = {} /\ g["MM2"] = {}
  /\ g["MCR"] = {} /\ g["FCR"] = {RXRDY_TXRDYN_EN}
  /\ g["GFR"] = 0 /\ g["TTG"] = 0 /\ g["RTO"] = 0 /\ g["ADR"] = 0

LEMMA DivisorsOnly ==
  ASSUME NEW r, IsRegs(r), NEW baud
  PROVE  LET c == config_baud_divisors(r, baud)
         IN  /\ IsRegs(c)
             /\ c["MM0"] \subseteq r["MM0"] \cup {EFBR}
             /\ \A x \in Registers \ {"LCR", "MM0", "DIV", "DFR"} : c[x] = r[x]
<1> DEFINE b == baud_value(SystemCoreClockUpdate[uart], baud)
           f == fractional_baud_value(SystemCoreClockUpdate[uart], baud)
           Kin(q) == /\ IsRegs(q)
                     /\ q["MM0"] \subseteq r["MM0"] \cup {EFBR}
                     /\ \A x \in Registers \ {"LCR", "MM0", "DIV", "DFR"} : q[x] = r[x]
           d1 == set_bit(r, "LCR", DLAB)
           d2 == store(d1, "DIV", b)
           divided == clear_bit(d2, "LCR", DLAB)
           d3 == set_bit(divided, "MM0", EFBR)
           d4 == store(d3, "DFR", f)
           d5 == clear_bit(divided, "MM0", EFBR)
           c == config_baud_divisors(r, baud)
<1>1. c = r \/ c = d4 \/ c = d5
  BY DEF config_baud_divisors
<1>2. ASSUME NEW q, Kin(q)
      PROVE  /\ Kin(set_bit(q, "LCR", DLAB)) /\ Kin(clear_bit(q, "LCR", DLAB))
             /\ Kin(set_bit(q, "MM0", EFBR)) /\ Kin(clear_bit(q, "MM0", EFBR))
             /\ \A v : Kin(store(q, "DIV", v)) /\ Kin(store(q, "DFR", v))
  BY <1>2 DEF IsRegs, Registers, set_bit, clear_bit, store
<1>3. Kin(r)
  OBVIOUS
<1> HIDE DEF b, f, Kin
<1>4. Kin(d1) /\ Kin(d2) /\ Kin(divided)
  BY <1>2, <1>3
<1> HIDE DEF divided
<1>5. Kin(d4) /\ Kin(d5)
  BY <1>2, <1>4
<1> HIDE DEF d4, d5, c
<1>6. Kin(c)
  BY <1>1, <1>3, <1>5
<1> QED BY <1>6 DEF Kin, c

LEMMA InitialisedOpen ==
  ASSUME NEW baud, NEW line
  PROVE  Opened(global_init(baud, line), line)
<1> DEFINE fifo == set_bit(AfterSoftReset, "FCR", RXRDY_TXRDYN_EN)
           plain == [fifo EXCEPT !.MCR = @ \ {LOOP, RLOOP},
                            !.MM1 = @ \ {E_MSB_TX, E_MSB_RX},
                            !.MM2 = @ \ {EAFM, ESWM},
                            !.MM0 = @ \ {ETTG, ERTO, EFBR},
                            !.GFR = 0, !.TTG = 0, !.RTO = 0]
           c == config_baud_divisors(plain, baud)
<1>1. IsRegs(AfterSoftReset)
  BY DEF IsRegs, AfterSoftReset, Registers
<1>2. /\ IsRegs(fifo)
      /\ fifo["FCR"] = {RXRDY_TXRDYN_EN} /\ fifo["ADR"] = 0
      /\ \A x \in {"MCR", "MM0", "MM1", "MM2"} : fifo[x] = {}
  BY <1>1 DEF IsRegs, set_bit, AfterSoftReset, Registers
<1>3. /\ IsRegs(plain)
      /\ plain["FCR"] = {RXRDY_TXRDYN_EN}
      /\ \A x \in {"MCR", "MM0", "MM1", "MM2"} : plain[x] = {}
      /\ \A x \in {"GFR", "TTG", "RTO", "ADR"} : plain[x] = 0
  <2> HIDE DEF fifo
  <2> QED BY <1>2 DEF IsRegs, Registers
<1>4. /\ IsRegs(c) /\ c["MM0"] \subseteq plain["MM0"] \cup {EFBR}
      /\ \A x \in Registers \ {"LCR", "MM0", "DIV", "DFR"} : c[x] = plain[x]
  <2> HIDE DEF plain
  <2> QED BY <1>3, DivisorsOnly
<1>5. global_init(baud, line) = store(c, "LCR", line)
  BY DEF global_init
<1> HIDE DEF c, plain
<1>6. /\ Only(c, store(c, "LCR", line), "LCR")
      /\ store(c, "LCR", line)["LCR"] = line
  BY <1>4, Store DEF Registers
<1> QED BY <1>3, <1>4, <1>5, <1>6 DEF Opened, Only, Registers

(* What the registers say after an initialisation.                         *)
LEMMA SettingsOf ==
  ASSUME NEW q, NEW line \in SUBSET (0..5), NEW mode, NEW half,
         Settings(q)["mode"] = mode, Settings(q)["half"] = half,
         q["LCR"] = line, q["MM0"] \subseteq {EFBR, ELIN}, q["MM1"] \cap {E_MSB_RX, E_MSB_TX} = {},
         q["MM2"] \cap {EAFM, EAFC} = {}, q["MCR"] = {}, q["FCR"] = {RXRDY_TXRDYN_EN},
         q["GFR"] = 0, q["ADR"] = 0
  PROVE  Settings(q) = Defaults(mode, line, half)
<1> DEFINE S == Settings(q)
           D == Defaults(mode, line, half)
<1>1. S = [f \in Fields |-> S[f]] /\ D = [f \in Fields |-> D[f]]
  BY SettingsAreARecord DEF Defaults, Fields
<1>2. \A f \in {"break", "local", "rxMsb", "txMsb", "flags", "clearFlags", "ready"} : D[f] = FALSE
  BY DEF Defaults
<1>3. /\ SB \notin q["LCR"] /\ LOOP \notin q["MCR"] /\ RDYMODE \notin q["FCR"]
      /\ E_MSB_RX \notin q["MM1"] /\ E_MSB_TX \notin q["MM1"]
      /\ EAFM \notin q["MM2"] /\ EAFC \notin q["MM2"]
  BY DEF SB, RDYMODE, RXRDY_TXRDYN_EN
<1>4. ASSUME NEW off \in BOOLEAN, ~off
      PROVE  \A f \in {"break", "local", "rxMsb", "txMsb", "flags", "clearFlags", "ready"} :
               S[f] = off
  <2>1. S["break"] = off
    BY <1>3, <1>4 DEF Settings
  <2>2. S["local"] = off
    BY <1>3, <1>4 DEF Settings
  <2>3. S["rxMsb"] = off
    BY <1>3, <1>4 DEF Settings
  <2>4. S["txMsb"] = off
    BY <1>3, <1>4 DEF Settings
  <2>5. S["flags"] = off
    BY <1>3, <1>4 DEF Settings
  <2>6. S["clearFlags"] = off
    BY <1>3, <1>4 DEF Settings
  <2>7. S["ready"] = off
    BY <1>3, <1>4 DEF Settings
  <2> QED BY <2>1, <2>2, <2>3, <2>4, <2>5, <2>6, <2>7
<1>5. \A f \in {"break", "local", "rxMsb", "txMsb", "flags", "clearFlags", "ready"} :
        S[f] = FALSE
  BY <1>4
<1>6. \A f \in {"break", "local", "rxMsb", "txMsb", "flags", "clearFlags", "ready"} :
        S[f] = D[f]
  BY <1>2, <1>5, Zenon
<1>7. S["line"] = D["line"] /\ S["remote"] = D["remote"]
  BY DEF Settings, Defaults, SB
<1>8. S["timeout"] = D["timeout"] /\ S["guard"] = D["guard"]
  BY DEF Settings, Defaults, ERTO, ETTG, EFBR, ELIN
<1>9. S["sync"] = D["sync"] /\ S["filter"] = D["filter"] /\ S["address"] = D["address"]
  BY DEF Settings, Defaults, SYNC_ASYNC_MODE_MASK, EFBR, ELIN
<1>10. S["mode"] = D["mode"] /\ S["half"] = D["half"]
  BY DEF Defaults
<1> HIDE DEF S, D
<1>11. \A f \in Fields : S[f] = D[f]
  BY <1>6, <1>7, <1>8, <1>9, <1>10 DEF Fields
<1>12. S = D
  BY <1>1, <1>11
<1> QED BY <1>12 DEF S, D

LEMMA ModeOf ==
  ASSUME NEW q, NEW lin \in BOOLEAN, NEW card \in BOOLEAN, NEW half \in BOOLEAN, NEW irda,
         lin <=> ELIN \in q["MM0"], card <=> EERR \in q["MM2"], half <=> ESWM \in q["MM2"],
         irda = IF EIRD \in q["MM1"] THEN q["MM1"] \cap {EIRX, EITX, EITP} ELSE {Off}
  PROVE  Settings(q)["mode"] = Mode(lin, card, irda) /\ Settings(q)["half"] = half
<1>1. Settings(q)["mode"] = Mode(lin, card, irda)
  BY DEF Settings, Mode
<1>2. Settings(q)["half"] = half
  BY DEF Settings
<1> QED BY <1>1, <1>2

(* An initialisation that only chose a mode after global_init. *)
LEMMA ModeChosen ==
  ASSUME NEW g, NEW line \in SUBSET (0..5), Opened(g, line), NEW q, IsRegs(q),
         \A x \in Registers \ {"MM0", "MM1", "MM2"} : q[x] = g[x],
         q["MM0"] \subseteq {EFBR, ELIN}, q["MM1"] \subseteq {EIRD, EIRX, EITX, EITP},
         q["MM2"] \subseteq {EERR, ESWM},
         NEW lin \in BOOLEAN, NEW card \in BOOLEAN, NEW half \in BOOLEAN, NEW irda,
         lin <=> ELIN \in q["MM0"], card <=> EERR \in q["MM2"], half <=> ESWM \in q["MM2"],
         irda = IF EIRD \in q["MM1"] THEN q["MM1"] \cap {EIRX, EITX, EITP} ELSE {Off}
  PROVE  Settings(q) = Defaults(Mode(lin, card, irda), line, half)
<1>1. Settings(q)["mode"] = Mode(lin, card, irda) /\ Settings(q)["half"] = half
  BY ModeOf
<1>2. /\ q["LCR"] = line /\ q["MCR"] = {} /\ q["FCR"] = {RXRDY_TXRDYN_EN}
      /\ q["GFR"] = 0 /\ q["ADR"] = 0
  BY DEF Opened, Registers
<1>3. q["MM1"] \cap {E_MSB_RX, E_MSB_TX} = {}
  BY DEF EIRD, EIRX, EITX, EITP, E_MSB_RX, E_MSB_TX
<1>4. q["MM2"] \cap {EAFM, EAFC} = {}
  BY DEF EERR, ESWM, EAFM, EAFC
<1> QED BY <1>1, <1>2, <1>3, <1>4, SettingsOf

Sets(q, mode, line, half) == IsRegs(q) /\ Settings(q) = Defaults(mode, line, half)

(* The four modes. *)
LEMMA Initialised ==
  ASSUME NEW baud, NEW line \in LineConfigs, NEW irda \in SUBSET {EIRX, EITX, EITP}
  PROVE  /\ Sets(MSS_UART_init(baud, line), Mode(FALSE, FALSE, {Off}), line, FALSE)
         /\ Sets(MSS_UART_lin_init(baud, line), Mode(TRUE, FALSE, {Off}), line, FALSE)
         /\ Sets(MSS_UART_smartcard_init(baud, line),
                 Mode(FALSE, EightBitsTwoStops \subseteq line, {Off}), line,
                 EightBitsTwoStops \subseteq line)
         /\ Sets(MSS_UART_irda_init(baud, line, EIRX \in irda, EITX \in irda, EITP \in irda),
                 Mode(FALSE, FALSE, irda), line, FALSE)
<1> DEFINE g == global_init(baud, line)
           Rest(q) == /\ IsRegs(q)
                      /\ \A x \in Registers \ {"MM0", "MM1", "MM2"} : q[x] = g[x]
<1>1. Opened(g, line) /\ line \in SUBSET (0..5)
  BY InitialisedOpen, ArgumentAssumption
<1>2. IsRegs(g) /\ g["MM0"] \subseteq {EFBR} /\ g["MM1"] = {} /\ g["MM2"] = {}
  BY <1>1 DEF Opened
<1>3. EFBR # ELIN
  BY DEF EFBR, ELIN
<1>4. Sets(MSS_UART_init(baud, line), Mode(FALSE, FALSE, {Off}), line, FALSE)
  <2> DEFINE q == MSS_UART_init(baud, line)
  <2>1. q = [g EXCEPT !.MM0 = @ \ {ELIN}, !.MM1 = @ \ {EIRD}, !.MM2 = @ \ {EERR}]
    BY DEF MSS_UART_init
  <2> HIDE DEF g, q
  <2>2. Rest(q) /\ q["MM0"] \subseteq {EFBR} /\ q["MM1"] = {} /\ q["MM2"] = {}
    BY <1>2, <2>1 DEF IsRegs, Registers
  <2>3. ASSUME NEW off \in BOOLEAN, ~off
        PROVE  Settings(q) = Defaults(Mode(off, off, {Off}), line, off)
    BY <1>1, <1>3, <2>2, <2>3, ModeChosen
  <2> QED BY <2>2, <2>3, Zenon DEF q, Sets
<1>5. Sets(MSS_UART_lin_init(baud, line), Mode(TRUE, FALSE, {Off}), line, FALSE)
  <2> DEFINE q == MSS_UART_lin_init(baud, line)
  <2>1. q = [g EXCEPT !.MM0 = @ \cup {ELIN}, !.MM1 = @ \ {EIRD}, !.MM2 = @ \ {EERR}]
    BY DEF MSS_UART_lin_init
  <2> HIDE DEF g, q
  <2>2. /\ Rest(q) /\ q["MM0"] \subseteq {EFBR, ELIN} /\ ELIN \in q["MM0"]
        /\ q["MM1"] = {} /\ q["MM2"] = {}
    BY <1>2, <2>1 DEF IsRegs, Registers
  <2>3. ASSUME NEW on \in BOOLEAN, on <=> ELIN \in q["MM0"], NEW off \in BOOLEAN, ~off
        PROVE  Settings(q) = Defaults(Mode(on, off, {Off}), line, off)
    <3>1. /\ off <=> EERR \in q["MM2"]
          /\ off <=> ESWM \in q["MM2"]
          /\ {Off} = IF EIRD \in q["MM1"] THEN q["MM1"] \cap {EIRX, EITX, EITP} ELSE {Off}
      BY <2>2, <2>3
    <3> QED BY <1>1, <2>2, <2>3, <3>1, ModeChosen
  <2> QED BY <2>2, <2>3, Zenon DEF q, Sets
<1>6. Sets(MSS_UART_smartcard_init(baud, line),
           Mode(FALSE, EightBitsTwoStops \subseteq line, {Off}), line,
           EightBitsTwoStops \subseteq line)
  <2> DEFINE q == MSS_UART_smartcard_init(baud, line)
             plain == [g EXCEPT !.MM0 = @ \ {ELIN}, !.MM1 = @ \ {EIRD}]
             e == set_bit(plain, "MM2", EERR)
  <2>1. q = IF EightBitsTwoStops \subseteq line THEN set_bit(e, "MM2", ESWM) ELSE plain
    BY DEF MSS_UART_smartcard_init
  <2> HIDE DEF g, q
  <2>2. Rest(plain) /\ plain["MM0"] \subseteq {EFBR} /\ plain["MM1"] = {} /\ plain["MM2"] = {}
    BY <1>2 DEF IsRegs, Registers
  <2> HIDE DEF plain
  <2>3. ASSUME NEW r, Rest(r), NEW bit
        PROVE  /\ Rest(set_bit(r, "MM2", bit))
               /\ set_bit(r, "MM2", bit)["MM2"] = r["MM2"] \cup {bit}
               /\ \A x \in {"MM0", "MM1"} : set_bit(r, "MM2", bit)[x] = r[x]
    BY <2>3 DEF IsRegs, Registers, set_bit
  <2>4. Rest(e) /\ e["MM2"] = {EERR} /\ e["MM0"] \subseteq {EFBR} /\ e["MM1"] = {}
    BY <2>2, <2>3
  <2> HIDE DEF e
  <2>5. /\ Rest(q) /\ q["MM0"] \subseteq {EFBR} /\ q["MM1"] = {}
        /\ q["MM2"] = IF EightBitsTwoStops \subseteq line THEN {EERR, ESWM} ELSE {}
    <3>1. CASE EightBitsTwoStops \subseteq line
      BY <2>1, <2>3, <2>4, <3>1
    <3>2. CASE ~ (EightBitsTwoStops \subseteq line)
      BY <2>1, <2>2, <3>2
    <3> QED BY <3>1, <3>2
  <2>6. ASSUME NEW off \in BOOLEAN, ~off,
               NEW card \in BOOLEAN, card <=> EightBitsTwoStops \subseteq line
        PROVE  Settings(q) = Defaults(Mode(off, card, {Off}), line, card)
    BY <1>1, <1>3, <2>5, <2>6, ModeChosen
  <2>7. (EightBitsTwoStops \subseteq line) \in BOOLEAN
    OBVIOUS
  <2> QED BY <2>5, <2>6, <2>7, Zenon DEF q, Sets
<1>7. ASSUME NEW rx \in BOOLEAN, NEW tx \in BOOLEAN, NEW pw \in BOOLEAN,
             rx <=> EIRX \in irda, tx <=> EITX \in irda, pw <=> EITP \in irda
      PROVE  Sets(MSS_UART_irda_init(baud, line, rx, tx, pw), Mode(FALSE, FALSE, irda), line, FALSE)
  <2> DEFINE q == MSS_UART_irda_init(baud, line, rx, tx, pw)
             plain == [g EXCEPT !.MM0 = @ \ {ELIN}, !.MM1 = @ \cup {EIRD}, !.MM2 = @ \ {EERR}]
             p1 == put_bit(plain, "MM1", EIRX, rx)
             p2 == put_bit(p1, "MM1", EITX, tx)
             p3 == put_bit(p2, "MM1", EITP, pw)
  <2>1. q = p3
    BY DEF MSS_UART_irda_init
  <2> HIDE DEF g, q
  <2>2. Rest(plain) /\ plain["MM0"] \subseteq {EFBR} /\ plain["MM1"] = {EIRD} /\ plain["MM2"] = {}
    BY <1>2 DEF IsRegs, Registers
  <2> HIDE DEF plain
  <2>3. /\ Only(plain, p1, "MM1")
        /\ rx => p1["MM1"] = plain["MM1"] \cup {EIRX}
        /\ ~rx => p1["MM1"] = plain["MM1"] \ {EIRX}
    BY <1>7, <2>2, PutBit DEF Registers
  <2> HIDE DEF p1
  <2>4. /\ Only(p1, p2, "MM1")
        /\ tx => p2["MM1"] = p1["MM1"] \cup {EITX}
        /\ ~tx => p2["MM1"] = p1["MM1"] \ {EITX}
    BY <1>7, <2>3, PutBit DEF Registers, Only
  <2> HIDE DEF p2
  <2>5. /\ Only(p2, p3, "MM1")
        /\ pw => p3["MM1"] = p2["MM1"] \cup {EITP}
        /\ ~pw => p3["MM1"] = p2["MM1"] \ {EITP}
    BY <1>7, <2>4, PutBit DEF Registers, Only
  <2> HIDE DEF p3
  <2>6. Rest(p3) /\ p3["MM0"] \subseteq {EFBR} /\ p3["MM2"] = {}
    BY <2>2, <2>3, <2>4, <2>5 DEF Only, Registers
  <2>7. p3["MM1"] = {EIRD} \cup irda
    <3>1. p1["MM1"] = {EIRD} \cup (irda \cap {EIRX})
      BY <1>7, <2>2, <2>3 DEF EIRD, EIRX
    <3>2. p2["MM1"] = {EIRD} \cup (irda \cap {EIRX, EITX})
      BY <1>7, <3>1, <2>4 DEF EIRD, EIRX, EITX
    <3>3. p3["MM1"] = {EIRD} \cup (irda \cap {EIRX, EITX, EITP})
      BY <1>7, <3>2, <2>5 DEF EIRD, EIRX, EITX, EITP
    <3> QED BY <3>3
  <2>8. /\ EIRD \in p3["MM1"]
        /\ p3["MM1"] \subseteq {EIRD, EIRX, EITX, EITP}
        /\ irda = p3["MM1"] \cap {EIRX, EITX, EITP}
    <3>1. EIRD \notin {EIRX, EITX, EITP} /\ irda \subseteq {EIRX, EITX, EITP}
      BY DEF EIRD, EIRX, EITX, EITP
    <3> HIDE DEF p3
    <3> QED BY <2>7, <3>1
  <2>9. ASSUME NEW off \in BOOLEAN, ~off
        PROVE  Settings(p3) = Defaults(Mode(off, off, irda), line, off)
    BY <1>1, <1>3, <2>6, <2>8, <2>9, ModeChosen
  <2> QED BY <2>1, <2>6, <2>9, Zenon DEF q, Sets
<1>8. /\ (EIRX \in irda) \in BOOLEAN
      /\ (EITX \in irda) \in BOOLEAN
      /\ (EITP \in irda) \in BOOLEAN
  OBVIOUS
<1>9. Sets(MSS_UART_irda_init(baud, line, EIRX \in irda, EITX \in irda, EITP \in irda),
           Mode(FALSE, FALSE, irda), line, FALSE)
  BY <1>7, <1>8, Zenon
<1> QED BY <1>4, <1>5, <1>6, <1>9, Zenon

(* The switches, as the calls name them. *)
LEMMA Switches ==
  ASSUME NEW r, IsRegs(r)
  PROVE  /\ Changes(r, MSS_UART_set_break(r), "break", TRUE)
         /\ Changes(r, MSS_UART_clear_break(r), "break", FALSE)
         /\ Changes(r, MSS_UART_enable_half_duplex(r), "half", TRUE)
         /\ Changes(r, MSS_UART_disable_half_duplex(r), "half", FALSE)
         /\ Changes(r, MSS_UART_enable_afm(r), "flags", TRUE)
         /\ Changes(r, MSS_UART_disable_afm(r), "flags", FALSE)
         /\ Changes(r, MSS_UART_enable_afclear(r), "clearFlags", TRUE)
         /\ Changes(r, MSS_UART_disable_afclear(r), "clearFlags", FALSE)
         /\ \A on \in BOOLEAN : /\ Changes(r, MSS_UART_set_rx_endian(r, on), "rxMsb", on)
                                /\ Changes(r, MSS_UART_set_tx_endian(r, on), "txMsb", on)
                                /\ Changes(r, MSS_UART_set_ready_mode(r, on), "ready", on)
<1>1. \A reg, bit : /\ set_bit(r, reg, bit) = put_bit(r, reg, bit, TRUE)
                    /\ clear_bit(r, reg, bit) = put_bit(r, reg, bit, FALSE)
  BY DEF put_bit
<1>2. \A on \in BOOLEAN :
        /\ Changes(r, put_bit(r, "LCR", SB, on), "break", on)
        /\ Changes(r, put_bit(r, "MM2", ESWM, on), "half", on)
        /\ Changes(r, put_bit(r, "MM2", EAFM, on), "flags", on)
        /\ Changes(r, put_bit(r, "MM2", EAFC, on), "clearFlags", on)
        /\ Changes(r, put_bit(r, "MM1", E_MSB_RX, on), "rxMsb", on)
        /\ Changes(r, put_bit(r, "MM1", E_MSB_TX, on), "txMsb", on)
        /\ Changes(r, put_bit(r, "FCR", RDYMODE, on), "ready", on)
  BY Bits
<1>3. TRUE \in BOOLEAN /\ FALSE \in BOOLEAN
  OBVIOUS
<1>4. /\ Changes(r, MSS_UART_set_break(r), "break", TRUE)
      /\ Changes(r, MSS_UART_clear_break(r), "break", FALSE)
  BY <1>1, <1>2, <1>3, Zenon DEF MSS_UART_set_break, MSS_UART_clear_break
<1>5. /\ Changes(r, MSS_UART_enable_half_duplex(r), "half", TRUE)
      /\ Changes(r, MSS_UART_disable_half_duplex(r), "half", FALSE)
  BY <1>1, <1>2, <1>3, Zenon DEF MSS_UART_enable_half_duplex, MSS_UART_disable_half_duplex
<1>6. /\ Changes(r, MSS_UART_enable_afm(r), "flags", TRUE)
      /\ Changes(r, MSS_UART_disable_afm(r), "flags", FALSE)
  BY <1>1, <1>2, <1>3, Zenon DEF MSS_UART_enable_afm, MSS_UART_disable_afm
<1>7. /\ Changes(r, MSS_UART_enable_afclear(r), "clearFlags", TRUE)
      /\ Changes(r, MSS_UART_disable_afclear(r), "clearFlags", FALSE)
  BY <1>1, <1>2, <1>3, Zenon DEF MSS_UART_enable_afclear, MSS_UART_disable_afclear
<1>8. \A on \in BOOLEAN : /\ Changes(r, MSS_UART_set_rx_endian(r, on), "rxMsb", on)
                          /\ Changes(r, MSS_UART_set_tx_endian(r, on), "txMsb", on)
                          /\ Changes(r, MSS_UART_set_ready_mode(r, on), "ready", on)
  BY <1>2, Zenon DEF MSS_UART_set_rx_endian, MSS_UART_set_tx_endian,
     MSS_UART_set_ready_mode
<1> QED BY <1>4, <1>5, <1>6, <1>7, <1>8, Zenon

LEMMA Loopback ==
  ASSUME NEW r, IsRegs(r)
  PROVE  /\ Changes(r, MSS_UART_set_loopback(r, "LOCAL_LOOPBACK_ON"), "local", TRUE)
         /\ Changes(r, MSS_UART_set_loopback(r, "LOCAL_LOOPBACK_OFF"), "local", FALSE)
         /\ Changes(r, MSS_UART_set_loopback(r, "REMOTE_LOOPBACK_ON"), "remote",
                    Settings(r).remote \cup {RLOOP})
         /\ Changes(r, MSS_UART_set_loopback(r, "AUTO_ECHO_ON"), "remote",
                    Settings(r).remote \cup {ECHO})
<1>1. /\ MSS_UART_set_loopback(r, "LOCAL_LOOPBACK_ON") = put_bit(r, "MCR", LOOP, TRUE)
      /\ MSS_UART_set_loopback(r, "LOCAL_LOOPBACK_OFF") = put_bit(r, "MCR", LOOP, FALSE)
      /\ MSS_UART_set_loopback(r, "REMOTE_LOOPBACK_ON") = set_bit(r, "MCR", RLOOP)
      /\ MSS_UART_set_loopback(r, "AUTO_ECHO_ON") = set_bit(r, "MCR", ECHO)
  BY DEF MSS_UART_set_loopback, put_bit
<1>2. \A on \in BOOLEAN : Changes(r, put_bit(r, "MCR", LOOP, on), "local", on)
  BY Bits
<1>3. \A bit \in {RLOOP, ECHO} :
        Changes(r, set_bit(r, "MCR", bit), "remote", Settings(r).remote \cup {bit})
  BY Remote
<1>4. TRUE \in BOOLEAN /\ FALSE \in BOOLEAN
  OBVIOUS
<1> QED BY <1>1, <1>2, <1>3, <1>4, Zenon

(* What a step does to the registers and the settings. *)
Asked == configCalls' # configCalls =>
           Settings(regs') = IF call'.setting = "all" THEN call'.value.settings
                             ELSE [Settings(regs) EXCEPT ![call'.setting] = call'.value]

LEMMA OneCall ==
  ASSUME NEW s \in Fields, NEW v, NEW q, Changes(regs, q, s, v), Called(s, v, q)
  PROVE  IsRegs(regs)' /\ Asked
<1>1. regs' = q /\ call' = [setting |-> s, value |-> v]
  BY DEF Called
<1>2. s # "all"
  BY DEF Fields
<1> QED BY <1>1, <1>2 DEF Changes, Asked, IsRegs

LEMMA OneSwitch ==
  ASSUME NEW s \in Fields, NEW on, NEW off, Changes(regs, on, s, TRUE),
         Changes(regs, off, s, FALSE), Switch(s, on, off)
  PROVE  IsRegs(regs)' /\ Asked
<1>1. Called(s, TRUE, on) \/ Called(s, FALSE, off)
  BY DEF Switch
<1>2. CASE Called(s, TRUE, on)
  BY <1>2, OneCall, Zenon
<1>3. CASE Called(s, FALSE, off)
  BY <1>3, OneCall, Zenon
<1> QED BY <1>1, <1>2, <1>3, Zenon

LEMMA Opening ==
  ASSUME Initialise
  PROVE  IsRegs(regs)' /\ Asked
<1>1. PICK b \in Bauds, l \in LineConfigs :
        LET opened(mode, half, after) ==
              Called("all", [baud |-> b, settings |-> Defaults(mode, l, half)], after)
            card == EightBitsTwoStops \subseteq l
        IN  \/ opened(Mode(FALSE, FALSE, {Off}), FALSE, MSS_UART_init(b, l))
            \/ opened(Mode(TRUE, FALSE, {Off}), FALSE, MSS_UART_lin_init(b, l))
            \/ opened(Mode(FALSE, card, {Off}), card, MSS_UART_smartcard_init(b, l))
            \/ \E irda \in SUBSET {EIRX, EITX, EITP} :
                 opened(Mode(FALSE, FALSE, irda), FALSE,
                   MSS_UART_irda_init(b, l, EIRX \in irda, EITX \in irda, EITP \in irda))
  BY DEF Initialise
<1>2. ASSUME NEW v, NEW q, IsRegs(q), Settings(q) = v,
             Called("all", [baud |-> b, settings |-> v], q)
      PROVE  IsRegs(regs)' /\ Asked
  BY <1>2 DEF Called, Asked, IsRegs
<1>3. ASSUME NEW irda \in SUBSET {EIRX, EITX, EITP}
      PROVE  /\ Sets(MSS_UART_init(b, l), Mode(FALSE, FALSE, {Off}), l, FALSE)
             /\ Sets(MSS_UART_lin_init(b, l), Mode(TRUE, FALSE, {Off}), l, FALSE)
             /\ Sets(MSS_UART_smartcard_init(b, l),
                     Mode(FALSE, EightBitsTwoStops \subseteq l, {Off}), l,
                     EightBitsTwoStops \subseteq l)
             /\ Sets(MSS_UART_irda_init(b, l, EIRX \in irda, EITX \in irda, EITP \in irda),
                     Mode(FALSE, FALSE, irda), l, FALSE)
  BY <1>3, Initialised, Zenon
<1>4. {} \in SUBSET {EIRX, EITX, EITP}
  OBVIOUS
<1> QED BY <1>1, <1>2, <1>3, <1>4, Zenon DEF Sets

LEMMA EachCall ==
  ASSUME Loopbacks \subseteq {"LOCAL_LOOPBACK_ON", "LOCAL_LOOPBACK_OFF",
                              "REMOTE_LOOPBACK_ON", "AUTO_ECHO_ON"},
         IsRegs(regs), ConfigNext
  PROVE  IsRegs(regs)' /\ Asked
<1> DEFINE Goal == IsRegs(regs)' /\ Asked
<1>1. ASSUME SetLoopback PROVE Goal
  <2>1. PICK l \in Loopbacks :
          LET far == Settings(regs).remote
              after == MSS_UART_set_loopback(regs, l)
          IN  CASE l = "LOCAL_LOOPBACK_ON"  -> Called("local", TRUE, after)
                [] l = "LOCAL_LOOPBACK_OFF" -> Called("local", FALSE, after)
                [] l = "REMOTE_LOOPBACK_ON" -> Called("remote", far \cup {RLOOP}, after)
                [] l = "AUTO_ECHO_ON"       -> Called("remote", far \cup {ECHO}, after)
                [] OTHER                    -> Called("remote", {}, after)
    BY <1>1 DEF SetLoopback
  <2> DEFINE far == Settings(regs).remote
             after == MSS_UART_set_loopback(regs, l)
  <2>2. "local" \in Fields /\ "remote" \in Fields
    BY DEF Fields
  <2>3. CASE l = "LOCAL_LOOPBACK_ON"
    <3>1. Called("local", TRUE, after) /\ Changes(regs, after, "local", TRUE)
      BY <2>1, <2>3, Loopback
    <3> QED BY <3>1, <2>2, OneCall, Zenon
  <2>4. CASE l = "LOCAL_LOOPBACK_OFF"
    <3>1. Called("local", FALSE, after) /\ Changes(regs, after, "local", FALSE)
      BY <2>1, <2>4, Loopback
    <3> QED BY <3>1, <2>2, OneCall, Zenon
  <2>5. CASE l = "REMOTE_LOOPBACK_ON"
    <3>1. /\ Called("remote", far \cup {RLOOP}, after)
          /\ Changes(regs, after, "remote", far \cup {RLOOP})
      BY <2>1, <2>5, Loopback
    <3> QED BY <3>1, <2>2, OneCall, Zenon
  <2>6. CASE l = "AUTO_ECHO_ON"
    <3>1. /\ Called("remote", far \cup {ECHO}, after)
          /\ Changes(regs, after, "remote", far \cup {ECHO})
      BY <2>1, <2>6, Loopback
    <3> QED BY <3>1, <2>2, OneCall, Zenon
  <2> QED BY <2>3, <2>4, <2>5, <2>6
<1>2. TRUE \in BOOLEAN /\ FALSE \in BOOLEAN
  OBVIOUS
<1>3. ASSUME SetBreak PROVE Goal
  <2>1. "break" \in Fields
    BY DEF Fields
  <2> QED BY <1>3, <2>1, Switches, OneSwitch, Zenon DEF SetBreak
<1>4. ASSUME SetHalfDuplex PROVE Goal
  <2>1. "half" \in Fields
    BY DEF Fields
  <2> QED BY <1>4, <2>1, Switches, OneSwitch, Zenon DEF SetHalfDuplex
<1>5. ASSUME SetEndian PROVE Goal
  <2>1. "rxMsb" \in Fields /\ "txMsb" \in Fields
    BY DEF Fields
  <2> QED BY <1>2, <1>5, <2>1, Switches, OneSwitch, Zenon DEF SetEndian
<1>6. ASSUME SetFlags PROVE Goal
  <2>1. "flags" \in Fields /\ "clearFlags" \in Fields
    BY DEF Fields
  <2> QED BY <1>6, <2>1, Switches, OneSwitch, Zenon DEF SetFlags
<1>7. ASSUME SetReady PROVE Goal
  <2>1. "ready" \in Fields
    BY DEF Fields
  <2> QED BY <1>2, <1>7, <2>1, Switches, OneSwitch, Zenon DEF SetReady
<1>8. ASSUME SetTimeout PROVE Goal
  <2>1. "timeout" \in Fields /\ "guard" \in Fields
    BY DEF Fields
  <2> QED BY <1>8, <2>1, TimeoutsOn, TimeoutsOff, OneCall, Zenon DEF SetTimeout
<1>9. ASSUME SetValue PROVE Goal
  <2>1. "address" \in Fields /\ "filter" \in Fields /\ "sync" \in Fields
    BY DEF Fields
  <2> QED BY <1>9, <2>1, Values, OneCall, Zenon DEF SetValue
<1>10. ASSUME SwitchClock PROVE Goal
  BY <1>10 DEF SwitchClock, Asked, IsRegs
<1> QED BY <1>1, <1>3, <1>4, <1>5, <1>6, <1>7, <1>8, <1>9, <1>10, Opening DEF ConfigNext

(* For every set of line settings, time-outs, addresses and baud rates and *)
(* any number of calls: a call changes the setting it names to the value   *)
(* it gives and no other, and an initialisation leaves nothing of what was *)
(* set before. REMOTE_LOOPBACK_OFF and AUTO_ECHO_OFF are left out: they    *)
(* do not do what they say.                                                *)
THEOREM SettingsAlwaysAsAsked ==
  ASSUME Loopbacks \subseteq {"LOCAL_LOOPBACK_ON", "LOCAL_LOOPBACK_OFF",
                              "REMOTE_LOOPBACK_ON", "AUTO_ECHO_ON"}
  PROVE  ConfigSpec => SettingsAsAsked
<1>1. ConfigInit => IsRegs(regs)
  BY DEF ConfigInit, IsRegs, AfterSoftReset, Registers
<1>2. IsRegs(regs) /\ [ConfigNext]_config => IsRegs(regs)' /\ [Asked]_config
  <2>1. CASE ConfigNext
    BY <2>1, EachCall
  <2>2. CASE UNCHANGED config
    BY <2>2 DEF config, IsRegs
  <2> QED BY <2>1, <2>2
<1> QED BY <1>1, <1>2, PTL DEF ConfigSpec, SettingsAsAsked, Asked

=============================================================================
