------------------------------- MODULE MssGpio -------------------------------
(***************************************************************************)
(* The GPIO driver, mss_gpio.c.  A port gives its name to its              *)
(* configuration register, to its bit of GPIO_OUT and of GPIO_IRQ and to   *)
(* its interrupt.  Bits of a configuration register: OUTBUF, INTEN.        *)
(***************************************************************************)
EXTENDS Accesses, SequencesExt

CONSTANT Ports
GPIO_INT_ENABLE_MASK      == {"INTEN"}
OUTPUT_BUFFER_ENABLE_MASK == {"OUTBUF"}
GPIO_BYTES                == {"GPIO_7_0", "GPIO_15_8", "GPIO_23_16", "GPIO_31_24"}

g_config_reg_lut == [p \in Ports |-> p]
g_gpio_irqn_lut  == [p \in Ports |-> p]

MSS_GPIO_init ==
     EnterReset({"GPIO"}) \o EnterReset(GPIO_BYTES)
  \o FoldLeft(LAMBDA calls, p : calls \o NVIC_DisableIRQ(g_gpio_irqn_lut[p])
                                      \o NVIC_ClearPendingIRQ(g_gpio_irqn_lut[p]),
              << >>, SetToSeq(Ports))
  \o LeaveReset(GPIO_BYTES) \o LeaveReset({"GPIO"})

MSS_GPIO_config(p, value) == Write(g_config_reg_lut[p], value)
MSS_GPIO_set_outputs(ports) == Write("GPIO_OUT", ports)
MSS_GPIO_set_output(p, high) ==
  ReadModifyWrite("GPIO_OUT", {p}, IF high THEN {p} ELSE {})

(* Mutant: the buffer is enabled before it has its level. *)
DriveFirst(p, state) ==
  CASE state = "HIGH" -> ReadModifyWrite(g_config_reg_lut[p], {}, OUTPUT_BUFFER_ENABLE_MASK)
                         \o MSS_GPIO_set_output(p, TRUE)
    [] state = "LOW"  -> ReadModifyWrite(g_config_reg_lut[p], {}, OUTPUT_BUFFER_ENABLE_MASK)
                         \o MSS_GPIO_set_output(p, FALSE)
    [] OTHER -> ReadModifyWrite(g_config_reg_lut[p], OUTPUT_BUFFER_ENABLE_MASK, {})

MSS_GPIO_drive_inout(p, state) ==
  CASE state = "HIGH" -> ReadModifyWrite("GPIO_OUT", {}, {p})
                         \o ReadModifyWrite(g_config_reg_lut[p], {}, OUTPUT_BUFFER_ENABLE_MASK)
    [] state = "LOW"  -> ReadModifyWrite("GPIO_OUT", {p}, {})
                         \o ReadModifyWrite(g_config_reg_lut[p], {}, OUTPUT_BUFFER_ENABLE_MASK)
    [] OTHER -> ReadModifyWrite(g_config_reg_lut[p], OUTPUT_BUFFER_ENABLE_MASK, {})

MSS_GPIO_enable_irq(p) ==
     ReadModifyWrite(g_config_reg_lut[p], {}, GPIO_INT_ENABLE_MASK)
  \o NVIC_EnableIRQ(g_gpio_irqn_lut[p])
MSS_GPIO_disable_irq(p) ==
  ReadModifyWrite(g_config_reg_lut[p], GPIO_INT_ENABLE_MASK, {})
MSS_GPIO_clear_irq(p) == WriteOneToClear("GPIO_IRQ", p) \o DataBarrier

=============================================================================
