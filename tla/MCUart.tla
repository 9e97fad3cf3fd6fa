------------------------------- MODULE MCUart -------------------------------
(* Small instances of Uart for TLC. *)
EXTENDS Uart

Transmitting == {"irq_tx", "tx_complete", "polled_tx", "polled_tx_string",
                 "fill_tx_fifo", "set_tx_handler", "get_tx_status"}

(* Every way to transmit; a receiver with a handler and one that is polled *)
(* next to its line status; modem status and time-outs; LIN and smartcard  *)
(* mode, with the handlers of their interrupts.                            *)
Sender  == [mode |-> "uart", calls |-> Transmitting, registers |-> {},
            bytes |-> 5, rx |-> 0, events |-> 0]
Server  == [mode |-> "uart",
            calls |-> {"register", "enable_irq", "disable_irq", "irq_tx", "tx_complete"},
            registers |-> {"RX"}, bytes |-> 3, rx |-> 2, events |-> 0]
Monitor == [mode |-> "uart",
            calls |-> {"register", "enable_irq", "disable_irq", "get_rx", "get_rx_status"},
            registers |-> {"LS"}, bytes |-> 0, rx |-> 3, events |-> 0]
Timed   == [mode |-> "uart",
            calls |-> {"register", "disable_irq", "enable_rx_timeout", "polled_tx"},
            registers |-> {"MS", "RTO"}, bytes |-> 3, rx |-> 0, events |-> 2]
Lin     == [mode |-> "lin", calls |-> {"register", "irq_tx", "tx_complete"},
            registers |-> {"PIDPE", "LINB", "LINS"}, bytes |-> 1, rx |-> 0, events |-> 2]
Card    == [mode |-> "smartcard", calls |-> {"register", "polled_tx"},
            registers |-> {"NACK"}, bytes |-> 1, rx |-> 0, events |-> 2]

MCApps  == {Sender, Server, Monitor, Timed, Lin, Card}
MCSizes == {1, 3}

(* LIN mode with the application's own transmit handler. *)
LinSender == [mode |-> "lin", calls |-> {"set_tx_handler"}, registers |-> {},
              bytes |-> 3, rx |-> 0, events |-> 1]
LinApps   == {LinSender}

=============================================================================
