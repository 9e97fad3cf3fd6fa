----------------------------- MODULE ByteStream -----------------------------
(***************************************************************************)
(* What a transmitter promises: the bytes it is asked to send, numbered in *)
(* the order they are asked for, leave on the line in that order, each     *)
(* once, and all of them in the end.                                       *)
(***************************************************************************)
EXTENDS Naturals, Sequences

VARIABLES asked,        \* bytes asked for
          line          \* the bytes that have left

stream == <<asked, line>>

StreamInit == asked = 0 /\ line = << >>

Ask == asked' > asked /\ asked' \in Nat /\ UNCHANGED line

Leave == /\ Len(line) < asked
         /\ line' = Append(line, Len(line) + 1)
         /\ UNCHANGED asked

StreamSpec == StreamInit /\ [][Ask \/ Leave]_stream /\ WF_stream(Leave)

=============================================================================
