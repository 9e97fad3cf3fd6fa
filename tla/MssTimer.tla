------------------------------ MODULE MssTimer ------------------------------
(***************************************************************************)
(* The timer driver, mss_timer.h: two 32-bit timers or one of 64 bits.     *)
(* Bits of the control register of a timer: ENABLE, INTEN, and ONE_SHOT.   *)
(* A load value is written or not; which value it is does not matter.      *)
(***************************************************************************)
EXTENDS Accesses

SelectMode(sixtyfour) == Write("TIM64_MODE", IF sixtyfour THEN {"ON"} ELSE {})
SetUp(t, one_shot) ==
  BitBand(t, "ENABLE", FALSE) \o BitBand(t, "INTEN", FALSE)
    \o BitBand(t, "ONE_SHOT", one_shot)

(* Mutant: the NVIC forgets the interrupt before the timer does. *)
Init32NvicFirst(t, irq, one_shot) ==
     NVIC_DisableIRQ(irq) \o NVIC_ClearPendingIRQ(irq) \o LeaveReset({"TIMER"})
  \o SelectMode(FALSE) \o SetUp(t, one_shot) \o WriteOneToClear("RIS", t)

Init32(t, irq, one_shot) ==
     NVIC_DisableIRQ(irq) \o LeaveReset({"TIMER"})
  \o SelectMode(FALSE) \o SetUp(t, one_shot)
  \o WriteOneToClear("RIS", t) \o NVIC_ClearPendingIRQ(irq)

MSS_TIM1_init(one_shot) == Init32("TIM1", "Timer1", one_shot)
MSS_TIM1_start          == BitBand("TIM1", "ENABLE", TRUE)
MSS_TIM1_stop           == BitBand("TIM1", "ENABLE", FALSE)
MSS_TIM1_load_immediate == Write("TIM1_LOADVAL", {"LOADED"})
MSS_TIM1_load_background == Write("TIM1_BGLOADVAL", {"LOADED"})
MSS_TIM1_enable_irq     == BitBand("TIM1", "INTEN", TRUE) \o NVIC_EnableIRQ("Timer1")
MSS_TIM1_disable_irq    == BitBand("TIM1", "INTEN", FALSE) \o NVIC_DisableIRQ("Timer1")
MSS_TIM1_clear_irq      == WriteOneToClear("RIS", "TIM1") \o DataBarrier

MSS_TIM2_init(one_shot) == Init32("TIM2", "Timer2", one_shot)
MSS_TIM2_start          == BitBand("TIM2", "ENABLE", TRUE)
MSS_TIM2_stop           == BitBand("TIM2", "ENABLE", FALSE)
MSS_TIM2_load_immediate == Write("TIM2_LOADVAL", {"LOADED"})
MSS_TIM2_load_background == Write("TIM2_BGLOADVAL", {"LOADED"})
MSS_TIM2_enable_irq     == BitBand("TIM2", "INTEN", TRUE) \o NVIC_EnableIRQ("Timer2")
MSS_TIM2_disable_irq    == BitBand("TIM2", "INTEN", FALSE) \o NVIC_DisableIRQ("Timer2")
MSS_TIM2_clear_irq      == WriteOneToClear("RIS", "TIM2") \o DataBarrier

MSS_TIM64_init(one_shot) ==
     NVIC_DisableIRQ("Timer1") \o NVIC_DisableIRQ("Timer2") \o LeaveReset({"TIMER"})
  \o SelectMode(TRUE) \o SetUp("TIM64", one_shot)
  \o WriteOneToClear("RIS", "TIM1") \o WriteOneToClear("RIS", "TIM2")
  \o NVIC_ClearPendingIRQ("Timer1") \o NVIC_ClearPendingIRQ("Timer2")
MSS_TIM64_start          == BitBand("TIM64", "ENABLE", TRUE)
MSS_TIM64_stop           == BitBand("TIM64", "ENABLE", FALSE)
(* The counter takes both halves when the lower one is written. *)
MSS_TIM64_load_immediate ==
  Write("TIM64_LOADVAL_U", {"LOADED"}) \o Write("TIM64_LOADVAL", {"LOADED"})
MSS_TIM64_load_background ==
  Write("TIM64_BGLOADVAL_U", {"LOADED"}) \o Write("TIM64_BGLOADVAL", {"LOADED"})
MSS_TIM64_enable_irq  == BitBand("TIM64", "INTEN", TRUE) \o NVIC_EnableIRQ("Timer1")
MSS_TIM64_disable_irq == BitBand("TIM64", "INTEN", FALSE) \o NVIC_DisableIRQ("Timer1")
MSS_TIM64_clear_irq   == WriteOneToClear("RIS", "TIM64") \o DataBarrier

=============================================================================
