------------------------------- MODULE SidPort -------------------------------
(***************************************************************************)
(* What the bridge promises to the software behind the bus: one access at  *)
(* a time, a control register written or read atomically, and every access *)
(* to the SID carried to the chip exactly once, between its beginning and  *)
(* its end, with its own address and data.                                 *)
(*                                                                         *)
(* The divider, the state machine, the chip's timing and the bus fabric    *)
(* are not visible here; module SidSystem implements this one.             *)
(***************************************************************************)
EXTENDS Integers

CONSTANTS Accesses,   \* the accesses software makes
          Index,      \* registers of the chip
          Bytes,      \* bytes the chip answers with
          ResetFreq

VARIABLES file,   \* registers of the chip
          ctl,    \* the bridge's own registers: [rst_n, freq]
          acc,    \* the access under way, or NoAccess
          answer, \* what the chip answered to the last read that reached it
          got     \* what software got from its last completed read

port == <<file, ctl, acc, answer, got>>

NoAccess == [op |-> [slave |-> "NONE"], done |-> FALSE]
Begun(a) == [op |-> a, done |-> FALSE]
Cleared  == [i \in Index |-> 0]

Init ==
  /\ file = Cleared
  /\ ctl = [rst_n |-> 0, freq |-> ResetFreq]
  /\ acc = NoAccess
  /\ answer = 0 /\ got = 0

Control(a) == a.a14 = 0
Register(a) == a.idx % 4

(* An access may begin in the same instant the one before it ends. *)
MayBegin == acc' \in {NoAccess} \cup {Begun(a) : a \in Accesses}

Begin ==
  /\ acc = NoAccess
  /\ \E a \in Accesses : acc' = Begun(a)
  /\ UNCHANGED <<file, ctl, answer, got>>

WriteControl ==
  /\ acc # NoAccess /\ Control(acc.op) /\ acc.op.HWRITE = 1
  /\ ctl' = CASE Register(acc.op) = 0 -> [ctl EXCEPT !.rst_n = acc.op.data % 2]
              [] Register(acc.op) = 1 -> [ctl EXCEPT !.freq = acc.op.data % 256]
              [] OTHER -> ctl
  /\ file' = IF ctl'.rst_n = 0 THEN Cleared ELSE file
  /\ MayBegin
  /\ UNCHANGED <<answer, got>>

ReadControl ==
  /\ acc # NoAccess /\ Control(acc.op) /\ acc.op.HWRITE = 0
  /\ got' = CASE Register(acc.op) = 0 -> ctl.rst_n
              [] Register(acc.op) = 1 -> ctl.freq
              [] OTHER -> 0
  /\ MayBegin
  /\ UNCHANGED <<file, ctl, answer>>

WriteReachesChip ==
  /\ acc # NoAccess /\ ~Control(acc.op) /\ acc.op.HWRITE = 1 /\ ~acc.done
  /\ acc' = [acc EXCEPT !.done = TRUE]
  /\ file' = IF ctl.rst_n = 0 THEN Cleared
             ELSE [file EXCEPT ![acc.op.idx] = acc.op.data % 256]
  /\ UNCHANGED <<ctl, answer, got>>

ReadReachesChip ==
  /\ acc # NoAccess /\ ~Control(acc.op) /\ acc.op.HWRITE = 0 /\ ~acc.done
  /\ acc' = [acc EXCEPT !.done = TRUE]
  /\ answer' \in Bytes
  /\ UNCHANGED <<file, ctl, got>>

End ==
  /\ acc.done
  /\ got' = IF acc.op.HWRITE = 0 THEN answer ELSE got
  /\ MayBegin
  /\ UNCHANGED <<file, ctl, answer>>

Next == \/ Begin \/ WriteControl \/ ReadControl
        \/ WriteReachesChip \/ ReadReachesChip \/ End

Spec == Init /\ [][Next]_port

=============================================================================
