------------------------------ MODULE Transfer ------------------------------
(***************************************************************************)
(* What MSS_HPDMA promises: one transfer at a time, its words moved in     *)
(* order, each once; HPDMA_COMPLETED only when all of them have been       *)
(* moved, or by an abort; one call of the handler for each transfer that   *)
(* ends by itself.  An abort takes time: until it is over words may be     *)
(* moved, and the transfer may end and call the handler, as if complete    *)
(* when it is not.                                                         *)
(***************************************************************************)
EXTENDS Naturals

CONSTANTS Sizes         \* sizes of the transfers that are asked for

Errors == {"SOURCE_ERROR", "DESTINATION_ERROR", "WORD_ALIGN_ERROR"}

VARIABLES state,        \* what MSS_HPDMA_get_transfer_status returns
          size,         \* words of the transfer
          moved,        \* of which the first so many have been moved
          handler,      \* a handler is registered
          reported,     \* what it has been told of this transfer, or "none"
          aborting      \* an abort is under way

vars == <<state, size, moved, handler, reported, aborting>>

Init == /\ state = "COMPLETED" /\ size = 0 /\ moved = 0
        /\ handler = FALSE /\ reported = "none" /\ aborting = FALSE

Start == /\ state # "IN_PROGRESS" /\ ~aborting /\ state' = "IN_PROGRESS"
         /\ size' \in Sizes /\ moved' = 0 /\ reported' = "none"
         /\ UNCHANGED <<handler, aborting>>

Move == /\ state = "IN_PROGRESS"
        /\ moved' \in moved + 1 .. size
        /\ UNCHANGED <<state, size, handler, reported, aborting>>

End(status) == /\ state = "IN_PROGRESS" /\ reported = "none"
               /\ state' = status
               /\ reported' = IF handler THEN status ELSE "none"
               /\ UNCHANGED <<size, moved, handler, aborting>>

Complete == (moved = size \/ aborting) /\ End("COMPLETED")
Fail     == \E e \in Errors : End(e)

BeginAbort == /\ ~aborting /\ aborting'
              /\ UNCHANGED <<state, size, moved, handler, reported>>

EndAbort == /\ aborting /\ ~aborting' /\ state' = "COMPLETED"
            /\ UNCHANGED <<size, moved, handler, reported>>

SetHandler == handler' \in BOOLEAN /\ UNCHANGED <<state, size, moved, reported, aborting>>

Next == Start \/ Move \/ Complete \/ Fail \/ BeginAbort \/ EndAbort \/ SetHandler

Spec == Init /\ [][Next]_vars

=============================================================================
