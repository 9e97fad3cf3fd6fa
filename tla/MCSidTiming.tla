---------------------------- MODULE MCSidTiming ----------------------------
(* A small instance of SidTiming for TLC. *)
EXTENDS SidTiming

(* Words written to register 1: they keep sid_freq at 3 or more, where an  *)
(* access takes one window; 260 checks that only 8 bits are kept.          *)
SafeWords == {3, 260}
MCBytes   == {200}
MCIndex   == {0, 21}

=============================================================================
