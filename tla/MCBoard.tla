------------------------------ MODULE MCBoard ------------------------------
(* Small instances of Board for TLC. *)
EXTENDS Board, TLC

(* UART 0 on its own bus clock and UART 1 on a slower one; a device of the *)
(* first revision and a later one.                                         *)
Buses == (0 :> 142000000) @@ (1 :> 35500000)
Clock(version, init, standby, select, fast) ==
  [device_version |-> version, controller_pll_init |-> init, glmux |-> standby,
   standby_sel |-> select, rcosc_div2 |-> fast]
SomeClocks == {Clock(63490, TRUE, FALSE, 0, TRUE), Clock(325634, FALSE, TRUE, 2, FALSE),
               Clock(325634, FALSE, TRUE, 3, FALSE)}
Lines == {{0, 1}, EightBitsTwoStops}

(* Without and with the functions that are to end a remote loopback. *)
LoopbacksOn  == {"LOCAL_LOOPBACK_ON", "LOCAL_LOOPBACK_OFF", "REMOTE_LOOPBACK_ON",
                 "AUTO_ECHO_ON"}
AllLoopbacks == LoopbacksOn \cup {"REMOTE_LOOPBACK_OFF", "AUTO_ECHO_OFF"}

============================================================================
