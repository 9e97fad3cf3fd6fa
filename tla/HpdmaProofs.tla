---------------------------- MODULE HpdmaProofs ----------------------------
(***************************************************************************)
(* Proofs about Hpdma: for every chunk size, every place of the buffers    *)
(* and every transfer of at most twice as many chunks as there are         *)
(* descriptors, as long as no chunk is moved while MSS_HPDMA_start runs,   *)
(* and none behind a cleared one while MSS_HPDMA_abort does.               *)
(***************************************************************************)
EXTENDS Hpdma, TLAPS

(* What the findings about the driver ask of its callers. *)
Undisturbed == Slow /\ \A n \in Sizes : n <= 8 * Max

IInv == TypeOK /\ InOrder /\ Bookkeeping

LEMMA SizeNat == ASSUME TypeOK PROVE size \in Nat
  BY SizesAssumption DEF TypeOK

(* The number of chunks, rounded up, exceeds j when j chunks do not hold   *)
(* the transfer.                                                           *)
LEMMA RoundedUp ==
  ASSUME NEW n \in Nat \ {0}, NEW j \in Nat
  PROVE  (n - 1) \div Max + 1 > j <=> n > j * Max
  <1> DEFINE q == (n - 1) \div Max
  <1>1. q \in Nat /\ q * Max <= n - 1 /\ n - 1 < (q + 1) * Max
    BY MaxAssumption
  <1>2. ASSUME NEW a \in Nat, NEW b \in Nat, a <= b PROVE a * Max <= b * Max
    BY <1>2, MaxAssumption
  <1> HIDE DEF q
  <1>3. CASE q >= j BY <1>1, <1>2, <1>3, MaxAssumption DEF q
  <1>4. CASE q < j
    <2>1. (q + 1) * Max <= j * Max BY <1>1, <1>2, <1>4
    <2> QED BY <1>1, <1>4, <2>1, MaxAssumption DEF q
  <1> QED BY <1>1, <1>3, <1>4

LEMMA ChunksNat ==
  ASSUME NEW n \in Nat \ {0} PROVE (n - 1) \div Max + 1 \in Nat
  BY MaxAssumption

LEMMA QueueTyped ==
  ASSUME TypeOK
  PROVE  Len(queue) \in Nat /\ \A k \in 1 .. Len(queue) : queue[k] \in Descriptors
  BY DEF TypeOK

LEMMA FieldsTyped ==
  ASSUME TypeOK, NEW i \in Descriptors
  PROVE  dcp[i].src \in Nat /\ dcp[i].dst \in Nat /\ dcp[i].len \in Nat
  <1>1. dcp[i] \in [src : Nat, dst : Nat, len : 0 .. Max,
                    irq : BOOLEAN, pause : BOOLEAN]
    BY DEF TypeOK
  <1> QED BY <1>1, MaxAssumption

LEMMA CurrentNat == ASSUME TypeOK PROVE current_desc \in Nat
  BY DEF TypeOK, Descriptors, N

LEMMA AheadRange ==
  ASSUME TypeOK
  PROVE  \A i \in Descriptors : /\ Ahead(i) \in 0 .. N - 1
                                /\ Ahead(i) = 0 <=> i = current_desc
  BY DEF TypeOK, Ahead, N, Descriptors

(* Without a completion that waits for its interrupt nothing is done. *)
LEMMA NothingDone ==
  ASSUME TypeOK, InTurn, ~CompletePending
  PROVE  done = {}
  <1>1. CASE state = "IN_PROGRESS"
    <2>1. PICK m \in 0 .. N : Window(m) BY <1>1 DEF InTurn
    <2>2. ASSUME NEW i \in done PROVE dcp[i].irq
      <3>1. i \in Descriptors BY DEF TypeOK
      <3>2. Ahead(i) < m BY <2>1, <3>1 DEF Window
      <3>3. Ahead(i) < m + Len(queue)
        BY <2>1, <3>1, <3>2, AheadRange, QueueTyped DEF N
      <3> QED BY <2>1, <3>1, <3>3 DEF Window
    <2> QED BY <2>2 DEF CompletePending
  <1>2. CASE state # "IN_PROGRESS" BY <1>2 DEF InTurn
  <1> QED BY <1>1, <1>2

-----------------------------------------------------------------------------
(* Types. *)
Register == [src : Nat, dst : Nat, len : 0 .. Max, irq : BOOLEAN, pause : BOOLEAN]
Registers == [Descriptors -> Register]

LEMMA StartTransferTyped ==
  ASSUME TypeOK, NEW d \in 0 .. N, NEW regs \in Registers,
         StartTransfer(d, regs)
  PROVE  /\ dcp' \in Registers /\ queue' \in Seq(Descriptors)
         /\ xfr_size' \in Nat /\ src_addr' \in Nat /\ des_addr' \in Nat
  <1>1. dcp' \in Registers
    <2>1. [src |-> src_addr, dst |-> des_addr,
           len |-> IF xfr_size \in 1 .. Max THEN xfr_size ELSE Max,
           irq |-> TRUE, pause |-> FALSE] \in Register
      BY MaxAssumption DEF TypeOK, Register
    <2> QED BY <2>1 DEF StartTransfer, Registers
  <1>2. queue' \in Seq(Descriptors)
    BY DEF StartTransfer, TypeOK
  <1>3. /\ xfr_size' \in Nat /\ src_addr' \in Nat /\ des_addr' \in Nat
    <2>1. CASE xfr_size > Max BY <2>1, MaxAssumption DEF StartTransfer, TypeOK
    <2>2. CASE ~(xfr_size > Max) BY <2>2 DEF StartTransfer, TypeOK
    <2> QED BY <2>1, <2>2
  <1> QED BY <1>1, <1>2, <1>3

LEMMA FreedTyped == ASSUME TypeOK PROVE Freed \in Registers
  BY DEF TypeOK, Freed, Registers, Register

LEMMA InitTyped == Init => TypeOK
  <1> SUFFICES ASSUME Init PROVE TypeOK OBVIOUS
  <1>1. dcp \in Registers
    <2>1. Empty(TRUE) \in Register BY MaxAssumption DEF Empty, Register
    <2> QED BY <2>1 DEF Init, Registers
  <1>2. 0 \in Descriptors /\ 0 \in 0 .. N BY DEF N, Descriptors
  <1>3. handler \in BOOLEAN /\ stray \in BOOLEAN BY DEF Init
  <1>4. queue \in Seq(Descriptors) /\ done \subseteq Descriptors
    BY DEF Init
  <1>5. /\ xfr_size \in Nat /\ src_addr \in Nat /\ des_addr \in Nat
        /\ size \in {0} \cup Sizes /\ total \in Nat /\ moved \in Nat
    BY DEF Init
  <1> QED
    BY <1>1, <1>2, <1>3, <1>4, <1>5 DEF Init, TypeOK, Registers, Register

LEMMA WithoutTyped ==
  ASSUME TypeOK, NEW d \in Descriptors PROVE Without(d) \in Seq(Descriptors)
  <1>0. PICK L \in Nat : L = Len(queue) BY DEF TypeOK
  <1>1. CASE \E k \in 1 .. L : queue[k] = d
    <2>1. PICK p : p = CHOOSE k \in 1 .. L : queue[k] = d OBVIOUS
    <2>2. Without(d) = [k \in 1 .. L - 1 |->
                          IF k < p THEN queue[k] ELSE queue[k + 1]]
      BY <1>0, <1>1, <2>1 DEF Without
    <2>3. L - 1 \in Nat BY <1>1
    <2>4. \A k \in 1 .. L - 1 : queue[k] \in Descriptors /\ queue[k + 1] \in Descriptors
      BY <1>0 DEF TypeOK
    <2> QED BY <2>2, <2>3, <2>4
  <1>2. CASE ~\E k \in 1 .. L : queue[k] = d
    BY <1>0, <1>2 DEF Without, TypeOK
  <1> QED BY <1>1, <1>2

(* Every step keeps the types; end_desc stays within bounds when a         *)
(* descriptor is counted that exists.                                      *)
LEMMA NextTyped ==
  ASSUME TypeOK, Next, pc = "count" => end_desc < N
  PROVE  TypeOK'
  <1> USE DEF TypeOK, g_transfer, engine, history
  <1>1. CASE Start
    <2>1. PICK n \in Sizes : /\ xfr_size' = n /\ size' = n
                             /\ total' = (n - 1) \div Max + 1
      BY <1>1 DEF Start
    <2>2. n \in Nat \ {0} BY SizesAssumption
    <2>3. total' \in Nat BY <2>1, <2>2, ChunksNat
    <2>4. xfr_size' \in Nat /\ size' \in {0} \cup Sizes BY <2>1, <2>2
    <2>5. 0 \in Descriptors /\ 0 \in 0 .. N BY DEF N, Descriptors
    <2> QED BY <1>1, <2>3, <2>4, <2>5, AddrAssumption DEF Start
  <1>2. CASE StartOne
    <2>1. CASE end_desc < total /\ end_desc < N
      BY <1>2, <2>1, StartTransferTyped DEF StartOne, Registers, Register
    <2>2. CASE ~(end_desc < total /\ end_desc < N)
      BY <1>2, <2>2 DEF StartOne
    <2> QED BY <2>1, <2>2
  <1>3. CASE CountOne BY <1>3 DEF CountOne, N
  <1>4. ASSUME NEW on \in BOOLEAN, Pause(on) PROVE TypeOK'
    <2>1. dcp' \in Registers BY <1>4 DEF Pause, Registers, Register
    <2> QED BY <1>4, <2>1 DEF Pause, Registers, Register
  <1>5. Clear => /\ dcp' \in Registers /\ queue' \in Seq(Descriptors)
                 /\ fault' = "none"
    BY MaxAssumption DEF Clear, Empty, Registers, Register
  <1>6. CASE AbortOne \/ Abort
    <2>1. CASE AbortOne
      <3>1. PICK d \in Descriptors : d = inc
        BY <2>1 DEF AbortOne, N, Descriptors
      <3>2. Empty(FALSE) \in Register BY MaxAssumption DEF Empty, Register
      <3>3. dcp' \in Registers
        BY <2>1, <3>1, <3>2 DEF AbortOne, Registers, Register
      <3>4. queue' \in Seq(Descriptors)
        BY <2>1, <3>1, WithoutTyped DEF AbortOne
      <3>5. inc' \in 0 .. N BY <2>1, <3>1 DEF AbortOne, N, Descriptors
      <3> QED BY <2>1, <3>3, <3>4, <3>5 DEF AbortOne, Registers, Register
    <2>2. CASE Abort BY <2>2 DEF Abort, N
    <2> QED BY <1>6, <2>1, <2>2
  <1>7. CASE SetHandler BY <1>7 DEF SetHandler
  <1>8. CASE CompleteIrq
    <2>1. CASE HandNextChunk
      <3>1. end_desc' \in 0 .. N /\ current_desc' \in Descriptors
        BY <2>1 DEF HandNextChunk, Following, N, Descriptors
      <3> QED
        BY <1>8, <2>1, <3>1, FreedTyped, StartTransferTyped
        DEF CompleteIrq, HandNextChunk, Registers, Register
    <2>2. CASE AwaitOthers
      <3>1. current_desc' \in Descriptors
        BY <2>2 DEF AwaitOthers, Following, N, Descriptors
      <3> QED
        BY <1>8, <2>2, <3>1, FreedTyped
        DEF CompleteIrq, AwaitOthers, Registers, Register
    <2>3. CASE Finish
      BY <1>8, <2>3, FreedTyped
      DEF CompleteIrq, Finish, Registers, Register, N, Descriptors
    <2> QED BY <1>8, <2>1, <2>2, <2>3 DEF CompleteIrq
  <1>9. CASE ErrorIrq
    <2>1. state' \in {"IN_PROGRESS", "COMPLETED"} \cup Errors
      BY <1>9 DEF ErrorIrq, ErrorPending
    <2> QED BY <1>5, <1>9, <2>1 DEF ErrorIrq, Registers, Register
  <1>10. CASE MoveChunk
    <2>1. Head(queue) \in Descriptors /\ Tail(queue) \in Seq(Descriptors)
      BY <1>10 DEF MoveChunk, Serving
    <2>2. dcp[Head(queue)].len \in Nat BY <2>1, MaxAssumption
    <2>3. \/ moved' = moved + dcp[Head(queue)].len /\ UNCHANGED stray
          \/ stray' = TRUE /\ UNCHANGED moved
      BY <1>10 DEF MoveChunk
    <2>4. moved' \in Nat BY <2>2, <2>3
    <2>5. stray' \in BOOLEAN BY <2>3
    <2> QED BY <1>10, <2>1, <2>4, <2>5 DEF MoveChunk
  <1>11. CASE Fail BY <1>11 DEF Fail
  <1> QED
    BY <1>1, <1>2, <1>3, <1>4, <1>6, <1>7, <1>8, <1>9, <1>10, <1>11 DEF Next

-----------------------------------------------------------------------------
(* The chain of chunks in flight. *)
LEMMA FreedFields ==
  ASSUME TypeOK
  PROVE  /\ \A i \in Descriptors : /\ Freed[i].src = dcp[i].src
                                   /\ Freed[i].dst = dcp[i].dst
                                   /\ Freed[i].len = dcp[i].len
         /\ \A i \in Descriptors \ {current_desc} : Freed[i] = dcp[i]
         /\ ~Freed[current_desc].irq
  BY DEF TypeOK, Freed

LEMMA ChainKept ==
  ASSUME TypeOK, Chain,
         \A i \in Descriptors : /\ dcp'[i].src = dcp[i].src
                                /\ dcp'[i].dst = dcp[i].dst
                                /\ dcp'[i].len = dcp[i].len,
         UNCHANGED <<queue, size, moved, xfr_size, src_addr, des_addr>>
  PROVE  Chain'
  BY QueueTyped DEF Chain, At, HandedOut

(* A chunk that is handed out goes to the end of the chain. *)
LEMMA ChainGrows ==
  ASSUME TypeOK, Chain, xfr_size > 0,
         NEW d \in Descriptors, NEW regs \in Registers,
         \A k \in 1 .. Len(queue) : queue[k] # d,
         \A i \in Descriptors : /\ regs[i].src = dcp[i].src
                                /\ regs[i].dst = dcp[i].dst
                                /\ regs[i].len = dcp[i].len,
         StartTransfer(d, regs), UNCHANGED <<size, moved>>
  PROVE  /\ Chain'
         /\ queue' = Append(queue, d)
         /\ dcp'[d].irq /\ \A i \in Descriptors \ {d} : dcp'[i] = regs[i]
         /\ xfr_size' = IF xfr_size > Max THEN xfr_size - Max ELSE 0
  <1>0. PICK L \in Nat : L = Len(queue) BY QueueTyped
  <1>a. PICK len \in Nat \ {0} : len = IF xfr_size > Max THEN Max ELSE xfr_size
    BY MaxAssumption DEF TypeOK
  <1>1. size \in Nat /\ HandedOut \in Int
    BY SizeNat DEF TypeOK, HandedOut
  <1>2. dcp' = [regs EXCEPT ![d] = [src |-> src_addr, dst |-> des_addr,
                                    len |-> len, irq |-> TRUE, pause |-> FALSE]]
    <2>1. len = IF xfr_size \in 1 .. Max THEN xfr_size ELSE Max
      BY <1>a, MaxAssumption DEF TypeOK
    <2> QED BY <2>1 DEF StartTransfer
  <1>3. queue' = Append(queue, d) BY DEF StartTransfer
  <1>4. xfr_size' = IF xfr_size > Max THEN xfr_size - Max ELSE 0
    BY DEF StartTransfer
  <1>5. /\ dcp'[d].src = src_addr /\ dcp'[d].dst = des_addr /\ dcp'[d].len = len
        /\ dcp'[d].irq
        /\ \A i \in Descriptors \ {d} : dcp'[i] = regs[i]
    BY <1>2 DEF Registers
  <1>6. /\ Len(queue') = L + 1 /\ queue'[L + 1] = d
        /\ \A k \in 1 .. L : queue'[k] = queue[k]
    BY <1>0, <1>1, <1>3 DEF TypeOK
  <1>7. \A k \in 1 .. L : /\ dcp'[queue'[k]].src = dcp[queue[k]].src
                          /\ dcp'[queue'[k]].dst = dcp[queue[k]].dst
                          /\ dcp'[queue'[k]].len = dcp[queue[k]].len
    BY <1>0, <1>5, <1>6, QueueTyped
  <1>8. \A k \in 1 .. L + 1 : At(k)' = At(k)
    BY <1>0, <1>1, <1>7 DEF At
  <1>9. src_addr = Src + HandedOut /\ des_addr = Dst + HandedOut
    BY DEF Chain
  <1>10. At(L + 1) = HandedOut BY <1>0 DEF Chain
  <1>11. HandedOut' = HandedOut + len
    <2>1. xfr_size \in Nat /\ size' = size BY DEF TypeOK
    <2>2. xfr_size' = xfr_size - len BY <1>a, <1>4, <2>1, MaxAssumption
    <2> QED BY <1>a, <1>1, <2>1, <2>2 DEF HandedOut
  <1>12. xfr_size' <= size' BY <1>0, <1>1, <1>4, MaxAssumption DEF Chain, TypeOK
  <1>13. xfr_size' > 0 => /\ src_addr' = Src + HandedOut'
                          /\ des_addr' = Dst + HandedOut'
    <2>1. xfr_size' > 0 => /\ len = Max /\ src_addr' = src_addr + Max
                           /\ des_addr' = des_addr + Max
      BY <1>4, <1>a, MaxAssumption DEF StartTransfer, TypeOK
    <2> QED BY <2>1, <1>9, <1>11, <1>1, AddrAssumption, MaxAssumption
  <1>14. \A k \in 1 .. L + 1 : /\ dcp'[queue'[k]].src = Src + At(k)'
                               /\ dcp'[queue'[k]].dst = Dst + At(k)'
                               /\ dcp'[queue'[k]].len > 0
    <2>1. ASSUME NEW k \in 1 .. L
          PROVE  /\ dcp'[queue'[k]].src = Src + At(k)'
                 /\ dcp'[queue'[k]].dst = Dst + At(k)'
                 /\ dcp'[queue'[k]].len > 0
      <3>1. At(k)' = At(k) BY <1>0, <1>1, <1>8, <2>1
      <3> QED BY <3>1, <1>0, <1>7 DEF Chain
    <2>2. /\ dcp'[queue'[L + 1]].src = Src + At(L + 1)'
          /\ dcp'[queue'[L + 1]].dst = Dst + At(L + 1)'
          /\ dcp'[queue'[L + 1]].len > 0
      <3>1. At(L + 1)' = HandedOut BY <1>0, <1>1, <1>8, <1>10
      <3> QED BY <3>1, <1>5, <1>6, <1>9
    <2> QED BY <1>0, <1>1, <2>1, <2>2
  <1>15. At(L + 2)' = HandedOut'
    <2>1. At(L + 2)' = dcp'[d].src + dcp'[d].len - Src
      BY <1>0, <1>1, <1>6 DEF At
    <2> QED
      BY <2>1, <1>1, <1>5, <1>9, <1>11, AddrAssumption DEF HandedOut, TypeOK
  <1>16. Chain' BY <1>0, <1>1, <1>6, <1>12, <1>13, <1>14, <1>15 DEF Chain
  <1> QED BY <1>3, <1>4, <1>5, <1>16

(* A chunk that is moved leaves the chain at its head. *)
LEMMA ChainShrinks ==
  ASSUME TypeOK, Chain, queue # << >>, queue' = Tail(queue),
         moved' = moved + dcp[Head(queue)].len,
         UNCHANGED <<dcp, size, xfr_size, src_addr, des_addr>>
  PROVE  Chain'
  <1>0. PICK L \in Nat \ {0} : L = Len(queue) BY DEF TypeOK
  <1>1. /\ size \in Nat
        /\ Head(queue) = queue[1] /\ queue[1] \in Descriptors
    BY SizeNat DEF TypeOK
  <1>2. Len(queue') = L - 1 /\ \A k \in 1 .. L - 1 : queue'[k] = queue[k + 1]
    BY <1>0 DEF TypeOK
  <1>3. dcp[queue[1]].src = Src + moved BY <1>0, <1>1 DEF Chain, At
  <1>4. \A k \in 1 .. L : At(k)' = At(k + 1)
    <2>1. At(1)' = At(2)
      <3>1. At(1)' = moved + dcp[queue[1]].len BY <1>1 DEF At
      <3>2. At(2) = dcp[queue[1]].src + dcp[queue[1]].len - Src BY DEF At
      <3>3. moved \in Nat /\ dcp[queue[1]].len \in Nat
        BY <1>1, FieldsTyped DEF TypeOK
      <3> QED BY <1>3, <3>1, <3>2, <3>3, AddrAssumption
    <2>2. ASSUME NEW k \in 2 .. L PROVE At(k)' = At(k + 1)
      <3>1. queue'[k - 1] = queue[k] BY <1>1, <1>2
      <3>2. k # 1 /\ k + 1 # 1 /\ (k + 1) - 1 = k BY <1>0
      <3>3. At(k + 1) = dcp[queue[k]].src + dcp[queue[k]].len - Src
        BY <3>2 DEF At
      <3> QED BY <3>1, <3>2, <3>3 DEF At
    <2> QED BY <1>1, <2>1, <2>2
  <1>5. \A k \in 1 .. L - 1 : /\ dcp'[queue'[k]].src = Src + At(k)'
                              /\ dcp'[queue'[k]].dst = Dst + At(k)'
                              /\ dcp'[queue'[k]].len > 0
    <2>1. ASSUME NEW k \in 1 .. L - 1
          PROVE  /\ dcp'[queue'[k]].src = Src + At(k)'
                 /\ dcp'[queue'[k]].dst = Dst + At(k)'
                 /\ dcp'[queue'[k]].len > 0
      <3>1. k \in 1 .. L /\ k + 1 \in 1 .. L BY <1>1
      <3>2. At(k)' = At(k + 1) /\ queue'[k] = queue[k + 1] BY <1>2, <1>4, <3>1
      <3> QED BY <1>0, <3>1, <3>2 DEF Chain
    <2> QED BY <2>1
  <1>6. At(L)' = At(L + 1) BY <1>1, <1>4
  <1>7. HandedOut' = HandedOut BY DEF HandedOut
  <1> QED BY <1>0, <1>1, <1>2, <1>5, <1>6, <1>7 DEF Chain

-----------------------------------------------------------------------------
(* The steps of MSS_HPDMA_start. *)
LEMMA FilledWindow ==
  ASSUME TypeOK, NEW m \in 0 .. N, Window(m), NEW e \in Nat, Filled(e)
  PROVE  /\ m = 0 /\ Len(queue) = e /\ e <= N
         /\ \A k \in 1 .. e : queue[k] = k - 1
         /\ \A i \in Descriptors : Ahead(i) = i /\ (dcp[i].irq <=> i < e)
  <1>1. current_desc = 0 /\ done = {} /\ Len(queue) = e BY DEF Filled
  <1>2. \A i \in Descriptors : Ahead(i) = i
    BY <1>1 DEF Ahead, N, Descriptors
  <1>3. 0 \in Descriptors BY DEF N, Descriptors
  <1>4. ~(Ahead(0) < m) BY <1>1, <1>3 DEF Window
  <1>5. m = 0 BY <1>2, <1>3, <1>4 DEF N
  <1>6. e <= N BY <1>1, <1>5 DEF Window, N
  <1>7. \A k \in 1 .. e : queue[k] = k - 1
    BY <1>1, <1>2, <1>5, QueueTyped DEF Window
  <1>8. ASSUME NEW i \in Descriptors PROVE dcp[i].irq <=> i < e
    <2>1. dcp[i].irq <=> Ahead(i) < m + Len(queue) BY DEF Window
    <2>2. Ahead(i) = i /\ m + Len(queue) = e BY <1>1, <1>2, <1>5
    <2> QED BY <2>1, <2>2
  <1> QED BY <1>1, <1>2, <1>5, <1>6, <1>7, <1>8

LEMMA StartBooks ==
  ASSUME TypeOK, InTurn, Start
  PROVE  InTurn'
  <1>1. PICK n \in Sizes : /\ xfr_size' = n /\ size' = n
                           /\ total' = (n - 1) \div Max + 1
    BY DEF Start
  <1>2. n \in Nat \ {0} BY SizesAssumption
  <1>3. /\ state' = "IN_PROGRESS" /\ pc' = "start" /\ reported' = "none"
        /\ current_desc' = 0 /\ end_desc' = 0 /\ moved' = 0
        /\ src_addr' = Src /\ des_addr' = Dst
    BY DEF Start
  <1>4. /\ queue' = << >> /\ done' = {} /\ fault' = "none" /\ dcp' = dcp
        /\ \A i \in Descriptors : ~dcp[i].irq
    BY DEF Start, InTurn, engine
  <1>5. Len(queue') = 0 BY <1>4
  <1>6. HandedOut' = 0 BY <1>1, <1>2 DEF HandedOut
  <1>7. Chain'
    BY <1>1, <1>2, <1>3, <1>5, <1>6, AddrAssumption DEF Chain, At
  <1>8. Window(0)'
    <2>1. ASSUME NEW i \in Descriptors
          PROVE  ~(Ahead(i)' < 0) /\ ~(Ahead(i)' < 0 + Len(queue'))
      BY <1>3, <1>5 DEF Ahead, N, Descriptors
    <2>2. \A i \in Descriptors : /\ i \in done' <=> Ahead(i)' < 0
                                 /\ dcp'[i].irq <=> Ahead(i)' < 0 + Len(queue')
      BY <1>4, <2>1
    <2>3. 0 + Len(queue') <= N BY <1>5 DEF N
    <2>4. \A k \in 1 .. Len(queue') : Ahead(queue[k])' = 0 + k - 1 BY <1>5
    <2> QED BY <2>2, <2>3, <2>4 DEF Window
  <1>9. Filled(0)'
    <2>1. Left(0)' = n BY <1>1, <1>2, MaxAssumption DEF Left
    <2>2. \A j \in 0 .. N : total' > j <=> size' > j * Max
      BY <1>1, <1>2, RoundedUp DEF N
    <2> QED BY <1>1, <1>3, <1>4, <1>5, <2>1, <2>2 DEF Filled
  <1>10. Room(0)' BY <1>3, <1>9 DEF Room
  <1>11. 0 \in 0 .. N BY DEF N
  <1> QED BY <1>3, <1>4, <1>7, <1>8, <1>10, <1>11 DEF InTurn

LEMMA StartOneBooks ==
  ASSUME Undisturbed, TypeOK, InTurn, StartOne
  PROVE  InTurn'
  <1>1. pc = "start" /\ state = "IN_PROGRESS" BY DEF StartOne, InTurn
  <1>2. PICK m \in 0 .. N : Window(m) /\ Room(m) BY <1>1 DEF InTurn
  <1>3. PICK e \in 0 .. N : e = end_desc BY DEF TypeOK
  <1>4. Filled(e) BY <1>1, <1>2, <1>3 DEF Room
  <1>5. /\ m = 0 /\ Len(queue) = e
        /\ \A k \in 1 .. e : queue[k] = k - 1
        /\ \A i \in Descriptors : Ahead(i) = i /\ (dcp[i].irq <=> i < e)
    BY <1>2, <1>4, FilledWindow DEF N
  <1>6. /\ current_desc = 0 /\ done = {} /\ xfr_size = Left(e)
        /\ \A j \in 0 .. N : total > j <=> size > j * Max
    BY <1>4 DEF Filled
  <1>7. Chain /\ fault = "none" /\ reported = "none"
    BY <1>1 DEF InTurn
  <1>8. UNCHANGED <<state, end_desc, current_desc, total, done, fault, size,
                    moved, reported>>
    BY DEF StartOne, history
  <1>9. size \in Nat /\ e * Max \in Nat BY <1>3, SizeNat, MaxAssumption DEF N
  <1>10. CASE end_desc < total /\ end_desc < N
    <2>1. StartTransfer(e, dcp) /\ pc' = "count"
      BY <1>3, <1>10 DEF StartOne
    <2>2. e \in Descriptors BY <1>3, <1>10 DEF N, Descriptors
    <2>3. xfr_size > 0 BY <1>3, <1>6, <1>9, <1>10 DEF Left
    <2>4. \A k \in 1 .. Len(queue) : queue[k] # e BY <1>3, <1>5
    <2>5. dcp \in Registers BY DEF TypeOK, Registers, Register
    <2>6. /\ Chain'
          /\ queue' = Append(queue, e)
          /\ dcp'[e].irq /\ \A i \in Descriptors \ {e} : dcp'[i] = dcp[i]
          /\ xfr_size' = IF xfr_size > Max THEN xfr_size - Max ELSE 0
      BY <1>7, <1>8, <2>1, <2>2, <2>3, <2>4, <2>5, ChainGrows
    <2>7. /\ Len(queue') = e + 1 /\ queue'[e + 1] = e
          /\ \A k \in 1 .. e : queue'[k] = k - 1
      <3>1. queue \in Seq(Descriptors) /\ Len(queue) = e /\ queue' = Append(queue, e)
        BY <1>5, <2>2, <2>6 DEF TypeOK
      <3>2. \A k \in 1 .. e : queue[k] = k - 1 BY <1>5, <2>2, <2>6
      <3> QED BY <3>1, <3>2
    <2>8. Window(0)'
      <3>1. \A i \in Descriptors : Ahead(i)' = i
        BY <1>6, <1>8 DEF Ahead, N, Descriptors
      <3>2. ASSUME NEW i \in Descriptors
            PROVE  /\ i \in done' <=> Ahead(i)' < 0
                   /\ dcp'[i].irq <=> Ahead(i)' < 0 + Len(queue')
        <4>1. ~(Ahead(i)' < 0) BY <3>1 DEF N, Descriptors
        <4>2. Ahead(i)' < 0 + Len(queue') <=> i = e \/ i < e
          BY <1>3, <2>7, <3>1 DEF N, Descriptors
        <4>3. dcp'[i].irq <=> i = e \/ i < e BY <1>5, <2>6
        <4> QED BY <1>6, <1>8, <4>1, <4>2, <4>3
      <3>3. \A k \in 1 .. Len(queue') : Ahead(queue[k])' = 0 + k - 1
        <4>1. ASSUME NEW k \in 1 .. e + 1
              PROVE  queue'[k] = k - 1 /\ k - 1 \in Descriptors
          BY <2>2, <2>7 DEF N, Descriptors
        <4>2. ASSUME NEW k \in 1 .. e + 1 PROVE Ahead(queue[k])' = 0 + k - 1
          BY <1>6, <1>8, <4>1 DEF Ahead, N, Descriptors
        <4> QED BY <2>7, <4>2
      <3>4. 0 + Len(queue') <= N BY <2>2, <2>7 DEF N, Descriptors
      <3> QED BY <3>2, <3>3, <3>4 DEF Window
    <2>9. xfr_size' = Left(e + 1)'
      <3>1. (e + 1) * Max = e * Max + Max BY <1>3, MaxAssumption DEF N
      <3> QED
        BY <1>6, <1>8, <1>9, <2>3, <2>6, <3>1, MaxAssumption DEF Left
    <2>10. Filled(e + 1)' BY <1>6, <1>8, <2>7, <2>9 DEF Filled
    <2>11. Room(0)' BY <1>3, <1>8, <2>1, <2>10 DEF Room
    <2>12. 0 \in 0 .. N BY DEF N
    <2> QED BY <1>1, <1>7, <1>8, <2>6, <2>8, <2>11, <2>12 DEF InTurn
  <1>11. CASE ~(end_desc < total /\ end_desc < N)
    <2>1. pc' = "idle" /\ UNCHANGED <<dcp, queue, xfr_size, src_addr, des_addr>>
      BY <1>11 DEF StartOne
    <2>2. Chain' BY <1>7, <1>8, <2>1, ChainKept
    <2>3. Window(m)' BY <1>2, <1>8, <2>1 DEF Window, Ahead
    <2>4. xfr_size > 0 => e = N /\ xfr_size <= N * Max
      <3>1. SUFFICES ASSUME xfr_size > 0 PROVE e = N /\ xfr_size <= N * Max
        OBVIOUS
      <3>2. size > e * Max /\ xfr_size = size - e * Max
        BY <1>6, <1>9, <3>1 DEF Left
      <3>3. total > e BY <1>3, <1>6, <3>2
      <3>4. e = N BY <1>3, <1>11, <3>3 DEF TypeOK, N
      <3>5. size <= 8 * Max
        BY <3>2, <1>9, MaxAssumption, SizesAssumption DEF Undisturbed, TypeOK
      <3> QED BY <1>9, <3>2, <3>4, <3>5, MaxAssumption DEF N
    <2>5. Room(m)'
      BY <1>3, <1>5, <1>6, <1>8, <2>1, <2>4 DEF Room, N
    <2> QED BY <1>1, <1>7, <1>8, <2>1, <2>2, <2>3, <2>5 DEF InTurn
  <1> QED BY <1>10, <1>11

LEMMA CountOneBooks ==
  ASSUME TypeOK, InTurn, CountOne
  PROVE  InTurn' /\ end_desc < N
  <1>1. pc = "count" /\ state = "IN_PROGRESS" BY DEF CountOne, InTurn
  <1>2. PICK m \in 0 .. N : Window(m) /\ Room(m) BY <1>1 DEF InTurn
  <1>3. PICK e \in 0 .. N : e = end_desc BY DEF TypeOK
  <1>4. Filled(e + 1) BY <1>1, <1>2, <1>3 DEF Room
  <1>5. m = 0 /\ e + 1 <= N BY <1>2, <1>3, <1>4, FilledWindow DEF N
  <1>6. UNCHANGED <<g_transfer, current_desc, total, engine, history>>
        /\ end_desc' = e + 1 /\ pc' = "start"
    BY <1>3 DEF CountOne
  <1> USE <1>6 DEF g_transfer, engine, history
  <1>7. Chain /\ fault = "none" /\ reported = "none"
    BY <1>1 DEF InTurn
  <1>8. Chain' BY <1>7, ChainKept
  <1>9. Window(m)' BY <1>2 DEF Window, Ahead
  <1>10. Room(m)' BY <1>4 DEF Room, Filled, Left
  <1> QED BY <1>1, <1>3, <1>5, <1>7, <1>8, <1>9, <1>10 DEF InTurn, N

-----------------------------------------------------------------------------
(* The other steps of the foreground. *)
LEMMA PauseBooks ==
  ASSUME TypeOK, InTurn, NEW on \in BOOLEAN, Pause(on)
  PROVE  InTurn'
  <1>1. /\ \A i \in Descriptors : /\ dcp'[i].src = dcp[i].src
                                  /\ dcp'[i].dst = dcp[i].dst
                                  /\ dcp'[i].len = dcp[i].len
        /\ \A i \in Descriptors : dcp'[i].irq = dcp[i].irq
    BY DEF Pause, TypeOK
  <1>2. UNCHANGED <<g_transfer, end_desc, current_desc, pc, total, inc, queue, done,
                    fault, history>>
    BY DEF Pause
  <1> USE <1>2 DEF g_transfer, history
  <1>3. CASE state = "IN_PROGRESS"
    <2>1. PICK m \in 0 .. N : Window(m) /\ Room(m) BY <1>3 DEF InTurn
    <2>2. Chain' BY <1>1, <1>3, ChainKept DEF InTurn
    <2>3. Window(m)'
      <3>1. \A i \in Descriptors : /\ i \in done' <=> Ahead(i)' < m
                                   /\ dcp'[i].irq <=> Ahead(i)' < m + Len(queue')
        BY <1>1, <2>1 DEF Window, Ahead
      <3>2. \A k \in 1 .. Len(queue') : Ahead(queue[k])' = m + k - 1
        BY <2>1 DEF Window, Ahead
      <3>3. m + Len(queue') <= N BY <2>1 DEF Window
      <3> QED BY <3>1, <3>2, <3>3 DEF Window
    <2>4. Room(m)' BY <2>1 DEF Room, Filled, Left
    <2> QED BY <1>3, <2>2, <2>3, <2>4 DEF InTurn
  <1>4. CASE state # "IN_PROGRESS" BY <1>1, <1>4 DEF InTurn
  <1> QED BY <1>3, <1>4

(* No interrupt is enabled in a descriptor that has been cleared. *)
LEMMA Cleared ==
  ASSUME Clear
  PROVE  /\ queue' = << >> /\ fault' = "none"
         /\ \A i \in Descriptors : ~dcp'[i].irq
  BY DEF Clear, Empty

LEMMA SetHandlerBooks ==
  ASSUME TypeOK, InTurn, SetHandler
  PROVE  InTurn'
  <1>1. UNCHANGED <<state, xfr_size, src_addr, des_addr, end_desc, current_desc,
                    pc, total, engine, history>>
    BY DEF SetHandler
  <1> USE <1>1 DEF engine, history
  <1>2. CASE state = "IN_PROGRESS"
    <2>1. PICK m \in 0 .. N : Window(m) /\ Room(m) BY <1>2 DEF InTurn
    <2>2. Chain' BY <1>2, ChainKept DEF InTurn
    <2>3. Window(m)' BY <2>1 DEF Window, Ahead
    <2>4. Room(m)' BY <2>1 DEF Room, Filled, Left
    <2> QED BY <1>2, <2>2, <2>3, <2>4 DEF InTurn
  <1>3. CASE state # "IN_PROGRESS" BY <1>3 DEF InTurn
  <1> QED BY <1>2, <1>3

-----------------------------------------------------------------------------
(* The engine. *)
LEMMA ServingInProgress ==
  ASSUME Undisturbed, InTurn, pc # "abort", Serving
  PROVE  /\ state = "IN_PROGRESS" /\ pc = "idle"
         /\ queue # << >> /\ fault = "none"
  BY DEF Undisturbed, InTurn, Serving

(* The chunk at the head of the queue is the next one in order. *)
LEMMA HeadInOrder ==
  ASSUME TypeOK, Chain, queue # << >>
  PROVE  /\ Head(queue) \in Descriptors
         /\ dcp[Head(queue)].src = Src + moved
         /\ dcp[Head(queue)].dst = Dst + moved
         /\ dcp[Head(queue)].len \in Nat \ {0}
  <1>1. 1 \in 1 .. Len(queue) /\ Head(queue) = queue[1] BY DEF TypeOK
  <1>2. Head(queue) \in Descriptors BY <1>1, QueueTyped
  <1>3. dcp[Head(queue)].len \in Nat
    BY <1>2, MaxAssumption DEF TypeOK
  <1> QED BY <1>1, <1>2, <1>3 DEF Chain, At

LEMMA MoveChunkBooks ==
  ASSUME Undisturbed, TypeOK, InOrder, InTurn, pc # "abort", MoveChunk
  PROVE  /\ InTurn' /\ InOrder'
         /\ moved' = moved + dcp[Head(queue)].len
  <1>1. state = "IN_PROGRESS" /\ pc = "idle" /\ queue # << >> /\ fault = "none"
    BY ServingInProgress DEF MoveChunk
  <1>2. PICK m \in 0 .. N : Window(m) /\ Room(m) BY <1>1 DEF InTurn
  <1>3. Chain /\ reported = "none" BY <1>1 DEF InTurn
  <1>4. PICK d \in Descriptors : d = Head(queue) BY <1>1, <1>3, HeadInOrder
  <1>5. PICK L \in Nat \ {0} : L = Len(queue) BY <1>1 DEF TypeOK
  <1>6. /\ UNCHANGED <<g_transfer, end_desc, current_desc, pc, total, dcp, fault,
                       size, reported>>
        /\ done' = done \cup {d} /\ queue' = Tail(queue)
    BY <1>4 DEF MoveChunk
  <1>7. moved' = moved + dcp[d].len /\ UNCHANGED stray
    BY <1>1, <1>3, <1>4, HeadInOrder DEF MoveChunk
  <1> USE <1>6 DEF g_transfer
  <1>8. Chain' BY <1>1, <1>3, <1>4, <1>7, ChainShrinks
  <1>9. Len(queue') = L - 1 /\ \A k \in 1 .. L - 1 : queue'[k] = queue[k + 1]
    BY <1>1, <1>5 DEF TypeOK
  <1>10. Ahead(d) = m
    <2>1. d = queue[1] BY <1>1, <1>4
    <2> QED BY <1>2, <1>5, <2>1 DEF Window
  <1>11. m + L <= N BY <1>2, <1>5 DEF Window
  <1>12. Window(m + 1)'
    <2>1. \A i \in Descriptors : Ahead(i)' = Ahead(i) BY DEF Ahead
    <2>2. ASSUME NEW i \in Descriptors
          PROVE  /\ i \in done' <=> Ahead(i)' < m + 1
                 /\ dcp'[i].irq <=> Ahead(i)' < m + 1 + Len(queue')
      <3>1. Ahead(i) = m => i = d
        BY <1>10 DEF Ahead, N, Descriptors, TypeOK
      <3>2. Ahead(i)' < m + 1 <=> Ahead(i) < m \/ i = d
        BY <1>10, <2>1, <3>1 DEF Ahead, N, Descriptors, TypeOK
      <3>3. Ahead(i)' < m + 1 + Len(queue') <=> Ahead(i) < m + Len(queue)
        BY <1>5, <1>9, <2>1 DEF Ahead, N, Descriptors, TypeOK
      <3>4. i \in done <=> Ahead(i) < m BY <1>2 DEF Window
      <3>5. dcp[i].irq <=> Ahead(i) < m + Len(queue) BY <1>2 DEF Window
      <3> QED BY <3>2, <3>3, <3>4, <3>5
    <2>3. \A k \in 1 .. Len(queue') : Ahead(queue[k])' = m + 1 + k - 1
      <3>1. ASSUME NEW k \in 1 .. L - 1
            PROVE  queue'[k] = queue[k + 1] /\ k + 1 \in 1 .. Len(queue)
        BY <1>5, <1>9
      <3>2. ASSUME NEW k \in 1 .. L - 1 PROVE Ahead(queue[k])' = m + 1 + k - 1
        <4>1. Ahead(queue[k + 1]) = m + (k + 1) - 1 BY <1>2, <3>1 DEF Window
        <4>2. Ahead(queue[k])' = Ahead(queue[k + 1]) BY <3>1 DEF Ahead
        <4>3. m + (k + 1) - 1 = m + 1 + k - 1 BY DEF N
        <4> QED BY <4>1, <4>2, <4>3
      <3> QED BY <1>9, <3>2
    <2>4. m + 1 + Len(queue') <= N BY <1>9, <1>11 DEF N
    <2> QED BY <2>2, <2>3, <2>4 DEF Window
  <1>13. Room(m + 1)'
    BY <1>1, <1>2, <1>5, <1>9 DEF Room
  <1>14. m + 1 \in 0 .. N BY <1>11 DEF N
  <1>15. fault' = "none" BY <1>1
  <1>16. InTurn'
    BY <1>1, <1>3, <1>8, <1>12, <1>13, <1>14, <1>15 DEF InTurn
  <1> QED BY <1>4, <1>7, <1>16 DEF InOrder

LEMMA FailBooks ==
  ASSUME Undisturbed, TypeOK, InTurn, pc # "abort", Fail
  PROVE  InTurn'
  <1>1. state = "IN_PROGRESS" /\ pc = "idle" /\ queue # << >>
    BY ServingInProgress DEF Fail
  <1>2. UNCHANGED <<g_transfer, end_desc, current_desc, pc, total, dcp, queue,
                    done, history>>
    BY DEF Fail
  <1> USE <1>2 DEF g_transfer, history
  <1>3. PICK m \in 0 .. N : Window(m) /\ Room(m) BY <1>1 DEF InTurn
  <1>4. Chain' BY <1>1, ChainKept DEF InTurn
  <1>5. Window(m)' BY <1>3 DEF Window, Ahead
  <1>6. Room(m)' BY <1>3 DEF Room, Filled, Left
  <1> QED BY <1>1, <1>4, <1>5, <1>6 DEF InTurn

-----------------------------------------------------------------------------
(* The interrupt handlers.  A completion interrupt comes when              *)
(* MSS_HPDMA_start is done, and finds the current descriptor completed.    *)
LEMMA Completed ==
  ASSUME TypeOK, InTurn, pc # "abort", CompletePending
  PROVE  /\ state = "IN_PROGRESS" /\ pc = "idle"
         /\ \E m \in 1 .. N : Window(m) /\ Room(m)
  <1>1. PICK i \in done : dcp[i].irq BY DEF CompletePending
  <1>2. i \in Descriptors BY DEF TypeOK
  <1>3. state = "IN_PROGRESS" BY <1>1 DEF InTurn
  <1>4. PICK m \in 0 .. N : Window(m) /\ Room(m) BY <1>3 DEF InTurn
  <1>5. Ahead(i) < m BY <1>1, <1>2, <1>4 DEF Window
  <1>6. m \in 1 .. N
    BY <1>2, <1>4, <1>5 DEF Ahead, N, Descriptors, TypeOK
  <1>7. pc = "idle"
    BY <1>1, <1>4 DEF Room, Filled, TypeOK
  <1> QED BY <1>3, <1>4, <1>6, <1>7

(* The completed descriptor leaves the window: seen from the next one, all *)
(* others are one place closer and it is the last.                         *)
LEMMA StepAhead ==
  ASSUME TypeOK, current_desc' = Following
  PROVE  \A i \in Descriptors :
           Ahead(i)' = IF i = current_desc THEN N - 1 ELSE Ahead(i) - 1
  BY DEF TypeOK, Following, Ahead, N, Descriptors

LEMMA HandNextChunkBooks ==
  ASSUME Undisturbed, TypeOK, InTurn, pc # "abort", CompleteIrq, HandNextChunk
  PROVE  InTurn'
  <1>1. state = "IN_PROGRESS" /\ pc = "idle"
    BY Completed DEF CompleteIrq
  <1>2. PICK m \in 1 .. N : Window(m) /\ Room(m) BY Completed DEF CompleteIrq
  <1>3. Chain /\ reported = "none" /\ (fault # "none" => queue # << >>)
    BY <1>1 DEF InTurn
  <1>4. PICK c \in Descriptors : c = current_desc BY DEF TypeOK
  <1>5. PICK L \in Nat : L = Len(queue) BY QueueTyped
  <1>6. /\ xfr_size > 0 /\ current_desc' = Following
        /\ StartTransfer(end_desc', Freed)
        /\ UNCHANGED <<state, reported, pc, fault, size, moved>>
        /\ done' = done \ {c}
    BY <1>4 DEF CompleteIrq, HandNextChunk
  <1>7. /\ m + L = N /\ xfr_size <= (N - c) * Max
        /\ IF c = 0 THEN end_desc = N ELSE end_desc = c - 1
    BY <1>1, <1>2, <1>4, <1>5, <1>6 DEF Room
  <1>8. end_desc' = c BY <1>4, <1>7 DEF HandNextChunk, N, Descriptors
  <1>9. \A i \in Descriptors : /\ Ahead(i) \in 0 .. N - 1
                               /\ Ahead(i) = 0 <=> i = c
    BY <1>4, AheadRange
  <1>10. \A i \in Descriptors : Ahead(i)' = IF i = c THEN N - 1 ELSE Ahead(i) - 1
    BY <1>4, <1>6, StepAhead
  <1>11. \A k \in 1 .. Len(queue) : Ahead(queue[k]) = m + k - 1
    BY <1>2 DEF Window
  <1>12. \A k \in 1 .. Len(queue) : queue[k] # c
    <2>1. SUFFICES ASSUME NEW k \in 1 .. Len(queue) PROVE queue[k] # c OBVIOUS
    <2>2. Ahead(queue[k]) # 0 BY <1>5, <1>11 DEF N
    <2> QED BY <1>9, <2>2
  <1>13. /\ Chain'
         /\ queue' = Append(queue, c)
         /\ dcp'[c].irq /\ \A i \in Descriptors \ {c} : dcp'[i] = Freed[i]
         /\ xfr_size' = IF xfr_size > Max THEN xfr_size - Max ELSE 0
    <2>1. /\ Freed \in Registers
          /\ \A i \in Descriptors : /\ Freed[i].src = dcp[i].src
                                    /\ Freed[i].dst = dcp[i].dst
                                    /\ Freed[i].len = dcp[i].len
      BY FreedTyped, FreedFields
    <2>2. StartTransfer(c, Freed) BY <1>6, <1>8
    <2> QED BY <1>3, <1>6, <1>12, <2>1, <2>2, ChainGrows
  <1>14. /\ Len(queue') = L + 1 /\ queue'[L + 1] = c
         /\ \A k \in 1 .. L : queue'[k] = queue[k]
    BY <1>5, <1>13 DEF TypeOK
  <1>15. Window(m - 1)'
    <2>1. ASSUME NEW i \in Descriptors
          PROVE  /\ i \in done' <=> Ahead(i)' < m - 1
                 /\ dcp'[i].irq <=> Ahead(i)' < m - 1 + Len(queue')
      <3>1. i \in done <=> Ahead(i) < m BY <1>2 DEF Window
      <3>2. dcp[i].irq <=> Ahead(i) < m + Len(queue) BY <1>2 DEF Window
      <3>3. Ahead(i)' < m - 1 <=> i # c /\ Ahead(i) < m
        BY <1>9, <1>10 DEF N
      <3>4. Ahead(i)' < m - 1 + Len(queue')
        BY <1>7, <1>9, <1>10, <1>14 DEF N
      <3>5. Ahead(i) < m + Len(queue) BY <1>5, <1>7, <1>9 DEF N
      <3>6. dcp'[i].irq
        <4>1. CASE i = c BY <1>13, <4>1
        <4>2. CASE i # c
          <5>1. dcp'[i] = dcp[i] BY <1>4, <1>13, <4>2, FreedFields
          <5> QED BY <3>2, <3>5, <5>1
        <4> QED BY <4>1, <4>2
      <3>7. i \in done' <=> i # c /\ i \in done BY <1>6
      <3> QED BY <3>1, <3>3, <3>4, <3>6, <3>7
    <2>2. \A k \in 1 .. Len(queue') : Ahead(queue[k])' = m - 1 + k - 1
      <3>1. ASSUME NEW k \in 1 .. L PROVE Ahead(queue[k])' = m - 1 + k - 1
        <4>1. queue'[k] = queue[k] /\ queue[k] \in Descriptors /\ queue[k] # c
          BY <1>5, <1>12, <1>14, QueueTyped
        <4>2. Ahead(queue[k])' = Ahead(queue[k]) - 1
          <5>1. PICK q \in Descriptors : q = queue[k] /\ q # c BY <4>1
          <5>2. Ahead(q)' = Ahead(q) - 1 BY <1>10, <5>1
          <5> QED BY <4>1, <5>1, <5>2 DEF Ahead
        <4> QED BY <1>5, <1>11, <4>2 DEF N
      <3>2. Ahead(queue[L + 1])' = m - 1 + (L + 1) - 1
        <4>1. Ahead(c)' = N - 1 BY <1>10
        <4> QED BY <1>7, <1>14, <4>1 DEF Ahead, N
      <3> QED BY <1>14, <3>1, <3>2
    <2>3. m - 1 + Len(queue') <= N BY <1>7, <1>14 DEF N
    <2> QED BY <2>1, <2>2, <2>3 DEF Window
  <1>16. Room(m - 1)'
    <2>1. m - 1 + Len(queue') = N BY <1>7, <1>14 DEF N
    <2>2. xfr_size' > 0 => xfr_size' <= (N - c) * Max - Max
      BY <1>7, <1>13, MaxAssumption DEF TypeOK, N, Descriptors
    <2>3. (N - c) * Max - Max = (N - (c + 1)) * Max
      BY MaxAssumption DEF N, Descriptors
    <2>4. CASE c = N - 1
      <3>1. ~(xfr_size' > 0)
        BY <1>13, <2>2, <2>3, <2>4, MaxAssumption DEF TypeOK, N
      <3> QED BY <1>1, <1>6, <3>1 DEF Room
    <2>5. CASE c # N - 1
      <3>1. current_desc' = c + 1 /\ c + 1 # 0
        BY <1>4, <1>6, <2>5 DEF Following, N, Descriptors
      <3>2. end_desc' = (c + 1) - 1 BY <1>8 DEF Descriptors, N
      <3> QED BY <1>1, <1>6, <2>1, <2>2, <2>3, <3>1, <3>2 DEF Room
    <2> QED BY <2>4, <2>5
  <1>17. m - 1 \in 0 .. N BY DEF N
  <1>18. queue' # << >> BY <1>14, <1>5
  <1> QED BY <1>1, <1>3, <1>6, <1>13, <1>15, <1>16, <1>17, <1>18 DEF InTurn

LEMMA FreedChain ==
  ASSUME TypeOK, Chain, dcp' = Freed,
         UNCHANGED <<queue, size, moved, xfr_size, src_addr, des_addr>>
  PROVE  Chain'
  BY FreedFields, ChainKept

LEMMA AwaitOthersBooks ==
  ASSUME Undisturbed, TypeOK, InTurn, pc # "abort", CompleteIrq, AwaitOthers
  PROVE  InTurn'
  <1>1. state = "IN_PROGRESS" /\ pc = "idle"
    BY Completed DEF CompleteIrq
  <1>2. PICK m \in 1 .. N : Window(m) /\ Room(m) BY Completed DEF CompleteIrq
  <1>3. Chain /\ reported = "none" /\ (fault # "none" => queue # << >>)
    BY <1>1 DEF InTurn
  <1>4. PICK c \in Descriptors : c = current_desc BY DEF TypeOK
  <1>5. PICK L \in Nat : L = Len(queue) BY QueueTyped
  <1>6. /\ xfr_size = 0 /\ current_desc' = Following /\ dcp' = Freed
        /\ UNCHANGED <<state, xfr_size, src_addr, des_addr, queue, reported, pc,
                       fault, size, moved>>
        /\ done' = done \ {c}
    BY <1>4 DEF CompleteIrq, AwaitOthers
  <1>7. \A i \in Descriptors : /\ Ahead(i) \in 0 .. N - 1
                               /\ Ahead(i) = 0 <=> i = c
    BY <1>4, AheadRange
  <1>8. \A i \in Descriptors : Ahead(i)' = IF i = c THEN N - 1 ELSE Ahead(i) - 1
    BY <1>4, <1>6, StepAhead
  <1>9. \A k \in 1 .. Len(queue) : Ahead(queue[k]) = m + k - 1
    BY <1>2 DEF Window
  <1>10. m + L <= N BY <1>2, <1>5 DEF Window
  <1>11. Chain' BY <1>3, <1>6, FreedChain
  <1>12. Window(m - 1)'
    <2>1. ASSUME NEW i \in Descriptors
          PROVE  /\ i \in done' <=> Ahead(i)' < m - 1
                 /\ dcp'[i].irq <=> Ahead(i)' < m - 1 + Len(queue')
      <3>1. i \in done <=> Ahead(i) < m BY <1>2 DEF Window
      <3>2. dcp[i].irq <=> Ahead(i) < m + Len(queue) BY <1>2 DEF Window
      <3>3. Ahead(i)' < m - 1 <=> i # c /\ Ahead(i) < m
        BY <1>7, <1>8 DEF N
      <3>4. Ahead(i)' < m - 1 + Len(queue')
              <=> i # c /\ Ahead(i) < m + Len(queue)
        BY <1>5, <1>6, <1>7, <1>8, <1>10 DEF N
      <3>5. dcp'[i].irq <=> i # c /\ dcp[i].irq
        BY <1>4, <1>6, FreedFields
      <3>6. i \in done' <=> i # c /\ i \in done BY <1>6
      <3> QED BY <3>1, <3>2, <3>3, <3>4, <3>5, <3>6
    <2>2. ASSUME NEW k \in 1 .. Len(queue')
          PROVE  Ahead(queue[k])' = m - 1 + k - 1
      <3>1. k \in 1 .. Len(queue) /\ queue[k] \in Descriptors /\ queue' = queue
        BY <1>6, QueueTyped
      <3>2. Ahead(queue[k]) = m + k - 1 BY <1>9, <3>1
      <3>3. queue[k] # c
        <4>1. Ahead(queue[k]) # 0 BY <1>5, <3>1, <3>2 DEF N
        <4> QED BY <1>7, <4>1
      <3>4. Ahead(queue[k])' = Ahead(queue[k]) - 1
        <4>1. PICK q \in Descriptors : q = queue[k] /\ q # c BY <3>1, <3>3
        <4>2. Ahead(q)' = Ahead(q) - 1 BY <1>8, <4>1
        <4> QED BY <3>1, <4>1, <4>2 DEF Ahead
      <3> QED BY <1>5, <3>1, <3>2, <3>4 DEF N
    <2>3. m - 1 + Len(queue') <= N BY <1>5, <1>6, <1>10 DEF N
    <2> QED BY <2>1, <2>2, <2>3 DEF Window
  <1>13. Room(m - 1)' BY <1>1, <1>6 DEF Room
  <1>14. m - 1 \in 0 .. N BY DEF N
  <1> QED BY <1>1, <1>3, <1>6, <1>11, <1>12, <1>13, <1>14 DEF InTurn

(* The transfer ends when the window holds nothing but the descriptor that *)
(* has completed: then the chain is empty and every word has been moved.   *)
LEMMA FinishBooks ==
  ASSUME Undisturbed, TypeOK, InTurn, pc # "abort", CompleteIrq, Finish
  PROVE  /\ InTurn'
         /\ state = "IN_PROGRESS" /\ reported = "none" /\ moved = size
  <1>1. state = "IN_PROGRESS" /\ pc = "idle"
    BY Completed DEF CompleteIrq
  <1>2. PICK m \in 1 .. N : Window(m) /\ Room(m) BY Completed DEF CompleteIrq
  <1>3. /\ Chain /\ reported = "none"
        /\ fault # "none" => queue # << >>
    BY <1>1 DEF InTurn
  <1>4. PICK c \in Descriptors : c = current_desc BY DEF TypeOK
  <1>5. PICK L \in Nat : L = Len(queue) BY QueueTyped
  <1>6. /\ xfr_size = 0 /\ ~Freed[Following].irq /\ dcp' = Freed
        /\ UNCHANGED <<queue, pc, fault>>
        /\ done' = done \ {c} /\ state' = "COMPLETED"
    BY <1>4 DEF CompleteIrq, Finish
  <1>7. \A i \in Descriptors : /\ Ahead(i) \in 0 .. N - 1
                               /\ Ahead(i) = 0 <=> i = c
    BY <1>4, AheadRange
  <1>8. PICK f \in Descriptors : f = Following /\ f # c /\ Ahead(f) = 1
    BY <1>4 DEF Following, Ahead, N, Descriptors
  <1>9. m = 1 /\ L = 0
    <2>1. ~dcp[f].irq BY <1>4, <1>6, <1>8, FreedFields
    <2>2. ~(Ahead(f) < m + Len(queue)) BY <1>2, <2>1 DEF Window
    <2> QED BY <1>5, <1>8, <2>2 DEF N
  <1>10. queue = << >>
    <2>1. queue # << >> => Len(queue) # 0 BY DEF TypeOK
    <2> QED BY <1>5, <1>9, <2>1
  <1>11. ASSUME NEW i \in Descriptors PROVE i \notin done' /\ ~dcp'[i].irq
    <2>1. i # c => ~(Ahead(i) < m) /\ ~(Ahead(i) < m + Len(queue))
      BY <1>5, <1>7, <1>9 DEF N
    <2>2. i # c => i \notin done /\ ~dcp[i].irq BY <1>2, <2>1 DEF Window
    <2> QED BY <1>4, <1>6, <2>2, FreedFields
  <1>12. done' = {} BY <1>6, <1>11 DEF TypeOK
  <1>13. InTurn'
    BY <1>1, <1>3, <1>6, <1>10, <1>11, <1>12 DEF InTurn
  <1>14. moved = size
    BY <1>3, <1>5, <1>6, <1>9, SizeNat DEF Chain, At, HandedOut, TypeOK
  <1> QED BY <1>1, <1>3, <1>13, <1>14

(* The error handler finds the descriptor with the error, for every        *)
(* completion has been counted before it runs.                             *)
LEMMA ErrorAtCurrent ==
  ASSUME TypeOK, InTurn, ErrorPending, ~CompletePending
  PROVE  /\ Head(queue) = current_desc /\ done = {}
         /\ state = "IN_PROGRESS" /\ pc = "idle" /\ reported = "none"
  <1>1. /\ state = "IN_PROGRESS" /\ queue # << >> /\ pc = "idle"
        /\ reported = "none"
    BY DEF ErrorPending, InTurn
  <1>2. done = {} BY NothingDone
  <1>3. PICK m \in 0 .. N : Window(m) BY <1>1 DEF InTurn
  <1>4. m = 0
    <2>1. current_desc \in Descriptors /\ Ahead(current_desc) = 0
      BY DEF TypeOK, Ahead, N, Descriptors
    <2>2. ~(Ahead(current_desc) < m) BY <1>2, <1>3, <2>1 DEF Window
    <2> QED BY <2>1, <2>2 DEF N
  <1>5. Head(queue) = current_desc
    <2>1. 1 \in 1 .. Len(queue) /\ Head(queue) = queue[1] BY <1>1 DEF TypeOK
    <2>2. Ahead(queue[1]) = 0 BY <1>3, <1>4, <2>1 DEF Window
    <2> QED BY <2>1, <2>2, QueueTyped, AheadRange
  <1> QED BY <1>1, <1>2, <1>5

LEMMA ErrorIrqBooks ==
  ASSUME TypeOK, InTurn, ErrorIrq
  PROVE  InTurn' /\ state' = fault /\ fault \in Errors /\ Report(fault)
  <1>1. /\ Head(queue) = current_desc /\ done = {}
        /\ state = "IN_PROGRESS" /\ pc = "idle" /\ reported = "none"
    BY ErrorAtCurrent DEF ErrorIrq
  <1>2. state' = fault /\ fault \in Errors /\ Report(fault)
    BY <1>1 DEF ErrorIrq, ErrorPending, TypeOK
  <1>3. state' # "IN_PROGRESS" BY <1>2 DEF Errors
  <1>4. pc' = "idle" /\ done' = {} BY <1>1 DEF ErrorIrq
  <1> QED BY <1>2, <1>3, <1>4, Cleared DEF ErrorIrq, InTurn

-----------------------------------------------------------------------------
(* MSS_HPDMA_abort.  What is left of the queue without a descriptor.       *)
LEMMA WithoutKeeps ==
  ASSUME TypeOK, NEW d \in Descriptors,
         \A j, k \in 1 .. Len(queue) : queue[j] = queue[k] => j = k,
         queue' = Without(d)
  PROVE  /\ queue' \in Seq(Descriptors)
         /\ \A i \in Descriptors :
              Queued(i)' <=> i # d /\ Queued(i)
         /\ \A j, k \in 1 .. Len(queue') : queue'[j] = queue'[k] => j = k
         /\ \A l \in 0 .. Len(queue) :
              (\A k \in 1 .. l : queue[k] # d) =>
                 /\ l \in 0 .. Len(queue') /\ \A k \in 1 .. l : queue'[k] = queue[k]
                 /\ \A k \in l + 1 .. Len(queue') :
                      \E j \in l + 1 .. Len(queue) : queue'[k] = queue[j]
  <1>0. PICK L \in Nat : L = Len(queue) BY QueueTyped
  <1>q. \A k \in 1 .. L : queue[k] \in Descriptors BY <1>0, QueueTyped
  <1>1. CASE \E k \in 1 .. L : queue[k] = d
    <2>1. PICK p \in 1 .. L : queue[p] = d BY <1>1
    <2>2. p = CHOOSE k \in 1 .. Len(queue) : queue[k] = d BY <1>0, <2>1
    <2>3. queue' = [k \in 1 .. L - 1 |-> IF k < p THEN queue[k] ELSE queue[k + 1]]
      BY <1>0, <2>1, <2>2 DEF Without
    <2>4. \A k \in 1 .. L - 1 : queue'[k] \in Descriptors BY <1>q, <2>1, <2>3
    <2>5. queue' \in Seq(Descriptors) /\ Len(queue') = L - 1
      <3>1. L - 1 \in Nat BY <2>1
      <3>2. queue' \in [1 .. L - 1 -> Descriptors] BY <2>3, <2>4
      <3> QED BY <3>1, <3>2
    <2>6. ASSUME NEW k \in 1 .. L - 1
          PROVE  \E j \in 1 .. L : j # p /\ j = (IF k < p THEN k ELSE k + 1)
                                   /\ queue'[k] = queue[j]
      BY <2>1, <2>3
    <2>7. ASSUME NEW i \in Descriptors
          PROVE  (\E k \in 1 .. L - 1 : queue'[k] = i) <=> i # d /\ Queued(i)
      <3>1. ASSUME NEW k \in 1 .. L - 1, queue'[k] = i PROVE i # d /\ Queued(i)
        BY <1>0, <2>1, <2>6, <3>1 DEF Queued
      <3>2. ASSUME i # d, NEW j \in 1 .. L, queue[j] = i
            PROVE  \E k \in 1 .. L - 1 : queue'[k] = i
        <4>1. j # p BY <2>1, <3>2
        <4>2. CASE j < p
          <5>1. j \in 1 .. L - 1 /\ queue'[j] = queue[j] BY <2>1, <2>3, <4>2
          <5> QED BY <3>2, <5>1
        <4>3. CASE j > p
          <5>1. j - 1 \in 1 .. L - 1 /\ queue'[j - 1] = queue[j] BY <2>1, <2>3, <4>3
          <5> QED BY <3>2, <5>1
        <4> QED BY <4>1, <4>2, <4>3
      <3> QED BY <1>0, <3>1, <3>2 DEF Queued
    <2>8. ASSUME NEW j \in 1 .. L - 1, NEW k \in 1 .. L - 1, queue'[j] = queue'[k]
          PROVE  j = k
      <3>1. PICK a \in 1 .. L : a = (IF j < p THEN j ELSE j + 1) /\ queue'[j] = queue[a]
        BY <2>6
      <3>2. PICK b \in 1 .. L : b = (IF k < p THEN k ELSE k + 1) /\ queue'[k] = queue[b]
        BY <2>6
      <3>3. a = b BY <1>0, <2>8, <3>1, <3>2
      <3> QED BY <2>1, <3>1, <3>2, <3>3
    <2>9. ASSUME NEW l \in 0 .. L, \A k \in 1 .. l : queue[k] # d
          PROVE  /\ l \in 0 .. L - 1 /\ \A k \in 1 .. l : queue'[k] = queue[k]
                 /\ \A k \in l + 1 .. L - 1 : \E j \in l + 1 .. L : queue'[k] = queue[j]
      <3>1. l < p BY <2>1, <2>9
      <3>2. \A k \in 1 .. l : queue'[k] = queue[k] BY <2>1, <2>3, <3>1
      <3>3. ASSUME NEW k \in l + 1 .. L - 1
            PROVE  \E j \in l + 1 .. L : queue'[k] = queue[j]
        <4>1. k \in 1 .. L - 1 BY <3>3
        <4> QED BY <2>6, <4>1
      <3> QED BY <2>1, <3>1, <3>2, <3>3
    <2>10. \A i \in Descriptors : Queued(i)' <=> i # d /\ Queued(i)
      BY <2>5, <2>7 DEF Queued
    <2>11. \A j, k \in 1 .. Len(queue') : queue'[j] = queue'[k] => j = k
      BY <2>5, <2>8
    <2>12. \A l \in 0 .. Len(queue) :
             (\A k \in 1 .. l : queue[k] # d) =>
                /\ l \in 0 .. Len(queue') /\ \A k \in 1 .. l : queue'[k] = queue[k]
                /\ \A k \in l + 1 .. Len(queue') :
                     \E j \in l + 1 .. Len(queue) : queue'[k] = queue[j]
      <3> SUFFICES ASSUME NEW l \in 0 .. Len(queue), \A k \in 1 .. l : queue[k] # d
                   PROVE  /\ l \in 0 .. Len(queue')
                          /\ \A k \in 1 .. l : queue'[k] = queue[k]
                          /\ \A k \in l + 1 .. Len(queue') :
                               \E j \in l + 1 .. Len(queue) : queue'[k] = queue[j]
        OBVIOUS
      <3>1. l \in 0 .. L BY <1>0
      <3>2. /\ l \in 0 .. L - 1 /\ \A k \in 1 .. l : queue'[k] = queue[k]
            /\ \A k \in l + 1 .. L - 1 : \E j \in l + 1 .. L : queue'[k] = queue[j]
        BY <2>9, <3>1
      <3> QED BY <1>0, <2>5, <3>2
    <2> QED BY <2>5, <2>10, <2>11, <2>12
  <1>2. CASE ~\E k \in 1 .. L : queue[k] = d
    <2>1. queue' = queue BY <1>0, <1>2 DEF Without
    <2>2. \A i \in Descriptors : Queued(i) => i # d BY <1>0, <1>2 DEF Queued
    <2>3. queue' \in Seq(Descriptors) /\ Len(queue') = L BY <1>0, <2>1 DEF TypeOK
    <2>4. \A i \in Descriptors : Queued(i)' <=> Queued(i) BY <2>1 DEF Queued
    <2>5. ASSUME NEW l \in 0 .. L
          PROVE  /\ l \in 0 .. L /\ \A k \in 1 .. l : queue'[k] = queue[k]
                 /\ \A k \in l + 1 .. L : \E j \in l + 1 .. L : queue'[k] = queue[j]
      BY <2>1
    <2>6. \A j, k \in 1 .. Len(queue') : queue'[j] = queue'[k] => j = k
      BY <2>1
    <2>7. \A l \in 0 .. Len(queue) :
             (\A k \in 1 .. l : queue[k] # d) =>
                /\ l \in 0 .. Len(queue') /\ \A k \in 1 .. l : queue'[k] = queue[k]
                /\ \A k \in l + 1 .. Len(queue') :
                     \E j \in l + 1 .. Len(queue) : queue'[k] = queue[j]
      BY <1>0, <2>1, <2>3, <2>5
    <2>8. \A i \in Descriptors : Queued(i)' <=> i # d /\ Queued(i)
      BY <2>2, <2>4
    <2> QED BY <2>3, <2>6, <2>7, <2>8
  <1> QED BY <1>1, <1>2

(* The loop is not entered nor continued with an interrupt to serve, so    *)
(* that nothing is done and nothing has failed.                            *)
LEMMA QuietAbort ==
  ASSUME TypeOK, Aborting, Foreground
  PROVE  done = {} /\ fault = "none"
  <1>1. done = {}
    <2>1. ASSUME NEW i \in done PROVE FALSE
      <3>1. i \in Descriptors BY DEF TypeOK
      <3> QED BY <2>1, <3>1 DEF Aborting, Foreground, CompletePending
    <2> QED BY <2>1
  <1>2. ASSUME fault # "none" PROVE FALSE
    <2>1. queue # << >> BY <1>2 DEF Aborting
    <2>2. 1 \in 1 .. Len(queue) /\ Head(queue) = queue[1] BY <2>1 DEF TypeOK
    <2>3. Head(queue) \in Descriptors /\ Queued(Head(queue))
      BY <2>2, QueueTyped DEF Queued
    <2>4. dcp[Head(queue)].irq BY <2>3 DEF Aborting
    <2> QED BY <1>2, <2>4 DEF Foreground, ErrorPending
  <1> QED BY <1>1, <1>2

(* What a turn of the loop does to a queue that is in line.                *)
LEMMA TurnBooks ==
  ASSUME TypeOK, AbortOne, done = {}, fault = "none",
         \A i \in Descriptors : dcp[i].irq <=> Queued(i),
         \A i \in Descriptors : Queued(i) => i >= inc,
         \A j, k \in 1 .. Len(queue) : queue[j] = queue[k] => j = k,
         IF state = "IN_PROGRESS"
         THEN /\ reported = "none"
              /\ current_desc > inc => \E l \in 0 .. Len(queue) : InLine(l)
         ELSE queue = << >> \/ current_desc <= inc
  PROVE  Aborting'
  <1>1. PICK d \in Descriptors : d = inc
    BY DEF AbortOne, TypeOK, N, Descriptors
  <1>2. /\ dcp' = [dcp EXCEPT ![d] = Empty(FALSE)] /\ queue' = Without(d)
        /\ inc' = d + 1
        /\ UNCHANGED <<state, xfr_size, end_desc, current_desc, done, moved,
                       size, reported>>
    BY <1>1 DEF AbortOne, g_transfer, history
  <1>3. fault' = "none" BY DEF AbortOne
  <1>4. /\ queue' \in Seq(Descriptors)
        /\ \A i \in Descriptors : Queued(i)' <=> i # d /\ Queued(i)
        /\ \A j, k \in 1 .. Len(queue') : queue'[j] = queue'[k] => j = k
        /\ \A l \in 0 .. Len(queue) :
             (\A k \in 1 .. l : queue[k] # d) =>
                /\ l \in 0 .. Len(queue') /\ \A k \in 1 .. l : queue'[k] = queue[k]
                /\ \A k \in l + 1 .. Len(queue') :
                     \E j \in l + 1 .. Len(queue) : queue'[k] = queue[j]
    BY <1>2, WithoutKeeps
  <1>5. \A i \in Descriptors : dcp'[i] = IF i = d THEN Empty(FALSE) ELSE dcp[i]
    BY <1>2 DEF TypeOK
  <1>6. inc' \in 1 .. N /\ done' \subseteq {current_desc'}
    BY <1>2 DEF Descriptors, N
  <1>7. ASSUME NEW i \in Descriptors
        PROVE  /\ dcp'[i].irq <=> i \in done' \/ Queued(i)'
               /\ Queued(i)' => i >= inc' /\ i \notin done'
    <2>1. done' = {} BY <1>2
    <2>2. dcp'[i].irq <=> Queued(i)'
      BY <1>4, <1>5 DEF Empty
    <2>3. Queued(i)' => i >= inc' BY <1>1, <1>2, <1>4 DEF Descriptors, N
    <2> QED BY <2>1, <2>2, <2>3
  <1>8. ASSUME state = "IN_PROGRESS", current_desc >= d + 1
        PROVE  \E l \in 0 .. Len(queue') : InLine(l)'
    <2>0. current_desc \in 0 .. 3 /\ d \in 0 .. 3 BY DEF TypeOK, Descriptors, N
    <2>1. PICK l \in 0 .. Len(queue) : InLine(l) BY <1>1, <1>8, <2>0
    <2>2. \A k \in 1 .. l : queue[k] # d BY <1>8, <2>0, <2>1 DEF InLine
    <2>3. /\ l \in 0 .. Len(queue') /\ \A k \in 1 .. l : queue'[k] = queue[k]
          /\ \A k \in l + 1 .. Len(queue') :
               \E j \in l + 1 .. Len(queue) : queue'[k] = queue[j]
      BY <1>4, <2>1, <2>2
    <2>4. ASSUME NEW k \in 1 .. l
          PROVE  queue[k] \in Descriptors /\ dcp'[queue[k]] = dcp[queue[k]]
      <3>1. k \in 1 .. Len(queue) BY <2>1, QueueTyped
      <3>2. queue[k] \in Descriptors /\ queue[k] # d BY <2>2, <3>1, QueueTyped
      <3> QED BY <1>5, <3>2
    <2>5. ASSUME NEW k \in 1 .. l + 1 PROVE At(k)' = At(k)
      <3>1. CASE k = 1 BY <1>2, <3>1 DEF At
      <3>2. CASE k # 1
        <4>1. k - 1 \in 1 .. l BY <2>1, <3>2
        <4> QED BY <2>3, <2>4, <3>2, <4>1 DEF At
      <3> QED BY <3>1, <3>2
    <2>6. ASSUME NEW k \in 1 .. l
          PROVE  /\ queue'[k] = current_desc' + (IF done' = {} THEN 0 ELSE 1) + k - 1
                 /\ dcp'[queue'[k]].src = Src + At(k)'
                 /\ dcp'[queue'[k]].dst = Dst + At(k)'
                 /\ dcp'[queue'[k]].len > 0 /\ At(k + 1)' <= size'
      <3>1. At(k)' = At(k) /\ At(k + 1)' = At(k + 1) BY <2>1, <2>5
      <3>2. queue'[k] = queue[k] /\ dcp'[queue[k]] = dcp[queue[k]] BY <2>3, <2>4
      <3>3. /\ queue[k] = current_desc + (IF done = {} THEN 0 ELSE 1) + k - 1
            /\ dcp[queue[k]].src = Src + At(k)
            /\ dcp[queue[k]].dst = Dst + At(k)
            /\ dcp[queue[k]].len > 0 /\ At(k + 1) <= size
        BY <2>1 DEF InLine
      <3> QED BY <1>2, <3>1, <3>2, <3>3
    <2>7. \A k \in l + 1 .. Len(queue') : queue'[k] < current_desc'
      BY <1>2, <2>1, <2>3 DEF InLine
    <2>8. xfr_size' > 0 => end_desc' = current_desc' - 1
      BY <1>2, <2>1 DEF InLine
    <2> QED BY <2>3, <2>6, <2>7, <2>8 DEF InLine
  <1>9. ASSUME state # "IN_PROGRESS" PROVE queue' = << >> \/ current_desc' < inc'
    <2>1. CASE queue = << >>
      <3>1. Without(d) = queue BY <2>1 DEF Without
      <3> QED BY <1>2, <2>1, <3>1
    <2>2. CASE current_desc <= d
      BY <1>2, <2>2 DEF TypeOK, Descriptors, N
    <2> QED BY <1>1, <1>9, <2>1, <2>2
  <1> QED BY <1>2, <1>3, <1>4, <1>6, <1>7, <1>8, <1>9 DEF Aborting


(* The chunks in flight end within the transfer. *)
LEMMA ChainWithin ==
  ASSUME TypeOK, Chain, Len(queue) <= 4
  PROVE  \A k \in 1 .. Len(queue) : At(k + 1) <= size
  <1>0. Len(queue) \in Nat BY QueueTyped
  <1>a. \A n \in Nat : n <= 4 => n \in 0 .. 4 OBVIOUS
  <1>1. PICK L \in 0 .. 4 : L = Len(queue) BY <1>0, <1>a
  <1>2. At(L + 1) <= size
    BY <1>1, SizeNat DEF Chain, HandedOut, TypeOK
  <1>3. ASSUME NEW k \in 1 .. L
        PROVE  At(k) \in Int /\ At(k + 1) \in Int /\ At(k) <= At(k + 1)
    <2>1. queue[k] \in Descriptors BY <1>1, QueueTyped
    <2>2. dcp[queue[k]].src \in Nat /\ dcp[queue[k]].len \in Nat
      BY <2>1, FieldsTyped
    <2>3. dcp[queue[k]].src = Src + At(k) BY <1>1 DEF Chain
    <2>4. At(k + 1) = dcp[queue[k]].src + dcp[queue[k]].len - Src BY DEF At
    <2>5. At(k) \in Int
      <3>1. CASE k = 1 BY <3>1 DEF At, TypeOK
      <3>2. CASE k # 1
        <4>1. k - 1 \in 1 .. L BY <3>2
        <4>2. queue[k - 1] \in Descriptors BY <1>1, <4>1, QueueTyped
        <4>3. dcp[queue[k - 1]].src \in Nat /\ dcp[queue[k - 1]].len \in Nat
          BY <4>2, FieldsTyped
        <4> QED BY <3>2, <4>3, AddrAssumption DEF At
      <3> QED BY <3>1, <3>2
    <2>6. \A a, b, c \in Int, n \in Nat : a = Src + b /\ c = a + n - Src => b <= c
      BY AddrAssumption
    <2>7. At(k + 1) \in Int BY <2>2, <2>4, AddrAssumption
    <2> QED BY <2>2, <2>3, <2>4, <2>5, <2>6, <2>7
  <1>4. size \in Nat BY SizeNat
  <1>5. ASSUME NEW k \in 1 .. L PROVE At(k + 1) <= size
    <2>1. CASE k = L BY <1>2, <2>1
    <2>2. CASE k = L - 1
      <3>1. At(k + 1) \in Int /\ At(L) <= At(L + 1) /\ At(L + 1) \in Int
        BY <1>3, <2>2
      <3> QED BY <1>2, <1>4, <2>2, <3>1
    <2>3. CASE k = L - 2
      <3>1. k + 1 \in 1 .. L /\ L \in 1 .. L /\ (k + 1) + 1 = L /\ L - 1 = k + 1
        BY <2>3
      <3>2. At(k + 1) \in Int /\ At(L) \in Int /\ At(L + 1) \in Int
        BY <1>3, <3>1
      <3>3. At(k + 1) <= At(L) /\ At(L) <= At(L + 1) BY <1>3, <3>1
      <3> QED BY <1>2, <1>4, <3>2, <3>3
    <2>4. CASE k = L - 3
      <3>1. L = 4 /\ k = 1 BY <2>4
      <3>2. /\ At(2) \in Int /\ At(3) \in Int /\ At(4) \in Int /\ At(5) \in Int
            /\ At(2) <= At(3) /\ At(3) <= At(4) /\ At(4) <= At(5)
        BY <1>3, <3>1
      <3> QED BY <1>2, <1>4, <3>1, <3>2
    <2> QED BY <2>1, <2>2, <2>3, <2>4
  <1> QED BY <1>1, <1>5

(* The first turn: the window of the driver is in line. *)
LEMMA AbortBegins ==
  ASSUME TypeOK, InTurn, pc = "idle", inc = 0, AbortOne
  PROVE  Aborting'
  <1>1. done = {} BY NothingDone DEF AbortOne, Foreground
  <1>2. CASE state # "IN_PROGRESS"
    <2>1. /\ queue = << >> /\ fault = "none"
          /\ \A i \in Descriptors : ~dcp[i].irq
      BY <1>2 DEF InTurn
    <2>2. \A i \in Descriptors : ~Queued(i) BY <2>1 DEF Queued
    <2>3. \A j, k \in 1 .. Len(queue) : queue[j] = queue[k] => j = k BY <2>1
    <2> QED BY <1>1, <1>2, <2>1, <2>2, <2>3, TurnBooks
  <1>3. CASE state = "IN_PROGRESS"
    <2>1. /\ Chain /\ reported = "none"
          /\ fault # "none" => queue # << >>
      BY <1>3 DEF InTurn
    <2>2. PICK m \in 0 .. N : Window(m) /\ Room(m) BY <1>3 DEF InTurn
    <2>3. \A i \in Descriptors : /\ Ahead(i) \in 0 .. 3
                                 /\ Ahead(i) = 0 <=> i = current_desc
      BY AheadRange DEF N
    <2>4. m = 0
      <3>1. current_desc \in Descriptors /\ Ahead(current_desc) = 0
        BY <2>3 DEF TypeOK
      <3>2. ~(Ahead(current_desc) < m) BY <1>1, <2>2, <3>1 DEF Window
      <3> QED BY <3>1, <3>2 DEF N
    <2>a. Len(queue) \in Nat BY QueueTyped
    <2>b. Len(queue) <= 4 BY <2>2, <2>4, <2>a DEF Window, N
    <2>c. \A n \in Nat : n <= 4 => n \in 0 .. 4 OBVIOUS
    <2>5. PICK L \in 0 .. 4 : L = Len(queue) BY <2>a, <2>b, <2>c
    <2>6. /\ \A i \in Descriptors : dcp[i].irq <=> Ahead(i) < L
          /\ \A k \in 1 .. L : queue[k] \in Descriptors /\ Ahead(queue[k]) = k - 1
      BY <2>2, <2>4, <2>5, QueueTyped DEF Window
    <2>7. \A i, j \in Descriptors : Ahead(i) = Ahead(j) => i = j
      BY DEF TypeOK, Ahead, N, Descriptors
    <2>8. \A j, k \in 1 .. Len(queue) : queue[j] = queue[k] => j = k
      BY <2>5, <2>6
    <2>9. ASSUME NEW i \in Descriptors PROVE dcp[i].irq <=> Queued(i)
      <3>1. ASSUME Ahead(i) < L PROVE Queued(i)
        <4>1. PICK k \in 1 .. L : k = Ahead(i) + 1 BY <2>3, <3>1
        <4>2. queue[k] = i BY <2>3, <2>6, <2>7, <4>1
        <4> QED BY <2>5, <4>2 DEF Queued
      <3>2. ASSUME NEW k \in 1 .. L, queue[k] = i PROVE Ahead(i) < L
        BY <2>6, <3>2
      <3> QED BY <2>5, <2>6, <3>1, <3>2 DEF Queued
    <2>10. fault = "none"
      <3>1. ASSUME fault # "none" PROVE FALSE
        <4>1. queue # << >> BY <2>1, <3>1
        <4>2. 1 \in 1 .. Len(queue) /\ Head(queue) = queue[1] BY <4>1 DEF TypeOK
        <4>3. Head(queue) \in Descriptors /\ Queued(Head(queue))
          BY <4>2, QueueTyped DEF Queued
        <4>4. dcp[Head(queue)].irq BY <2>9, <4>3
        <4> QED BY <3>1, <4>4 DEF AbortOne, Foreground, ErrorPending
      <3> QED BY <3>1
    <2>11. ASSUME current_desc > 0 PROVE \E l \in 0 .. Len(queue) : InLine(l)
      <3>1. PICK c \in 1 .. 3 : c = current_desc
        BY <2>11 DEF TypeOK, Descriptors, N
      <3>2. \A i \in Descriptors : Ahead(i) = IF i >= c THEN i - c ELSE i - c + 4
        BY <3>1 DEF Ahead, N
      <3>3. PICK l \in 0 .. L : l = IF L <= 4 - c THEN L ELSE 4 - c OBVIOUS
      <3>4. ASSUME NEW k \in 1 .. l
            PROVE  /\ queue[k] = current_desc + (IF done = {} THEN 0 ELSE 1) + k - 1
                   /\ dcp[queue[k]].src = Src + At(k)
                   /\ dcp[queue[k]].dst = Dst + At(k)
                   /\ dcp[queue[k]].len > 0 /\ At(k + 1) <= size
        <4>1. k \in 1 .. L BY <3>3
        <4>2. PICK q \in 0 .. 3 : q = queue[k] /\ Ahead(q) = k - 1
          BY <2>6, <4>1 DEF Descriptors, N
        <4>3. q = c + k - 1
          <5>1. q \in Descriptors BY DEF Descriptors, N
          <5>2. k - 1 < 4 - c BY <3>3
          <5>3. Ahead(q) = IF q >= c THEN q - c ELSE q - c + 4 BY <3>2, <5>1
          <5> QED BY <4>2, <5>2, <5>3
        <4>4. queue[k] = current_desc + (IF done = {} THEN 0 ELSE 1) + k - 1
          BY <1>1, <3>1, <4>2, <4>3
        <4>5. At(k + 1) <= size BY <2>1, <2>5, <4>1, ChainWithin
        <4> QED BY <2>1, <2>5, <4>1, <4>4, <4>5 DEF Chain
      <3>5. ASSUME NEW k \in l + 1 .. L PROVE queue[k] < current_desc
        <4>1. PICK q \in 0 .. 3 : q = queue[k] /\ Ahead(q) = k - 1
          BY <2>6, <3>3 DEF Descriptors, N
        <4>2. q \in Descriptors BY DEF Descriptors, N
        <4>3. k - 1 >= 4 - c BY <3>3
        <4>4. Ahead(q) = IF q >= c THEN q - c ELSE q - c + 4 BY <3>2, <4>2
        <4> QED BY <3>1, <4>1, <4>3, <4>4
      <3>6. xfr_size > 0 => end_desc = current_desc - 1
        BY <2>2, <3>1 DEF Room
      <3>7. InLine(l) BY <2>5, <3>4, <3>5, <3>6 DEF InLine
      <3> QED BY <2>5, <3>7
    <2>12. \A i \in Descriptors : Queued(i) => i >= inc BY DEF Descriptors, N
    <2> QED BY <1>1, <1>3, <2>1, <2>8, <2>9, <2>10, <2>11, <2>12, TurnBooks
  <1> QED BY <1>2, <1>3

LEMMA AbortGoesOn ==
  ASSUME TypeOK, Aborting, AbortOne PROVE Aborting'
  <1>1. done = {} /\ fault = "none" BY QuietAbort DEF AbortOne
  <1>2. /\ \A i \in Descriptors : dcp[i].irq <=> Queued(i)
        /\ \A i \in Descriptors : Queued(i) => i >= inc
        /\ \A j, k \in 1 .. Len(queue) : queue[j] = queue[k] => j = k
    BY <1>1 DEF Aborting
  <1>3. inc \in Int /\ current_desc \in Int
    BY DEF TypeOK, Descriptors, N
  <1>4. IF state = "IN_PROGRESS"
        THEN /\ reported = "none"
             /\ current_desc > inc => \E l \in 0 .. Len(queue) : InLine(l)
        ELSE queue = << >> \/ current_desc <= inc
    BY <1>3 DEF Aborting
  <1> QED BY <1>1, <1>2, <1>4, TurnBooks

(* When every descriptor has been cleared, nothing is in flight. *)
LEMMA AbortEnds ==
  ASSUME TypeOK, Aborting, Abort
  PROVE  InTurn' /\ inc' = 0 /\ pc' = "idle"
  <1>1. done = {} /\ fault = "none" BY QuietAbort DEF Abort
  <1>2. \A i \in Descriptors : ~Queued(i) /\ ~dcp[i].irq
    BY <1>1 DEF Abort, Aborting, Descriptors, N
  <1>3. queue = << >>
    <2>1. ASSUME queue # << >> PROVE FALSE
      <3>1. 1 \in 1 .. Len(queue) BY <2>1 DEF TypeOK
      <3>2. queue[1] \in Descriptors /\ Queued(queue[1])
        BY <3>1, QueueTyped DEF Queued
      <3> QED BY <1>2, <3>2
    <2> QED BY <2>1
  <1>4. /\ state' = "COMPLETED" /\ inc' = 0 /\ pc' = "idle"
        /\ UNCHANGED <<dcp, queue, done, fault>>
    BY DEF Abort, engine
  <1> QED BY <1>1, <1>2, <1>3, <1>4 DEF InTurn

(* A descriptor that completes while the loop runs is the current one, and *)
(* none that the loop has cleared.                                         *)
LEMMA CompletedAborting ==
  ASSUME TypeOK, Aborting, CompletePending
  PROVE  /\ done = {current_desc} /\ fault = "none" /\ state = "IN_PROGRESS"
         /\ current_desc >= inc /\ reported = "none" /\ ~Queued(current_desc)
         /\ \E l \in 0 .. Len(queue) : InLine(l)
  <1>1. done = {current_desc} BY DEF CompletePending, Aborting
  <1>2. state = "IN_PROGRESS" /\ current_desc >= inc BY <1>1 DEF Aborting
  <1>3. ~Queued(current_desc) BY <1>1 DEF Aborting, TypeOK
  <1>4. fault = "none"
    <2>1. ASSUME fault # "none" PROVE FALSE
      <3>1. queue # << >> /\ Head(queue) = current_desc BY <2>1 DEF Aborting
      <3>2. 1 \in 1 .. Len(queue) /\ Head(queue) = queue[1] BY <3>1 DEF TypeOK
      <3> QED BY <1>3, <3>1, <3>2 DEF Queued
    <2> QED BY <2>1
  <1> QED BY <1>1, <1>2, <1>3, <1>4 DEF Aborting

(* The current descriptor is left behind: those in line follow the next.   *)
LEMMA LineAdvances ==
  ASSUME TypeOK, NEW l \in 0 .. Len(queue), InLine(l), done = {current_desc},
         done' = {}, current_desc' = current_desc + 1,
         UNCHANGED <<moved, size>>,
         NEW M \in Nat, M = Len(queue'), Len(queue) <= M,
         \A k \in 1 .. Len(queue) : queue'[k] = queue[k],
         \A k \in Len(queue) + 1 .. M : queue'[k] = current_desc,
         \A k \in 1 .. l : /\ dcp'[queue[k]].src = dcp[queue[k]].src
                           /\ dcp'[queue[k]].dst = dcp[queue[k]].dst
                           /\ dcp'[queue[k]].len = dcp[queue[k]].len,
         xfr_size' > 0 => end_desc' = current_desc
  PROVE  l \in 0 .. Len(queue') /\ InLine(l)'
  <1>0. PICK L \in Nat : L = Len(queue) BY QueueTyped
  <1>a. current_desc \in Nat BY CurrentNat
  <1>b. l \in 0 .. L BY <1>0
  <1>c. L <= M BY <1>0
  <1>1. current_desc \in Nat /\ l \in 0 .. L /\ L <= M
    BY <1>a, <1>b, <1>c, Zenon
  <1>2. ASSUME NEW k \in 1 .. l + 1 PROVE At(k)' = At(k)
    <2>1. CASE k = 1 BY <2>1 DEF At
    <2>2. CASE k # 1
      <3>1. k - 1 \in 1 .. l /\ k - 1 \in 1 .. Len(queue) BY <1>0, <1>1, <2>2
      <3>2. queue'[k - 1] = queue[k - 1] BY <3>1
      <3> QED BY <2>2, <3>1, <3>2 DEF At
    <2> QED BY <2>1, <2>2
  <1>3. ASSUME NEW k \in 1 .. l
        PROVE  /\ queue'[k] = current_desc' + (IF done' = {} THEN 0 ELSE 1) + k - 1
               /\ dcp'[queue'[k]].src = Src + At(k)'
               /\ dcp'[queue'[k]].dst = Dst + At(k)'
               /\ dcp'[queue'[k]].len > 0 /\ At(k + 1)' <= size'
    <2>1. k \in 1 .. Len(queue) BY <1>0, <1>1
    <2>2. queue'[k] = queue[k] BY <2>1
    <2>3. queue[k] = current_desc + (IF done = {} THEN 0 ELSE 1) + k - 1
      BY DEF InLine
    <2>4. queue[k] = current_desc + 1 + k - 1 BY <2>3
    <2>5. queue'[k] = current_desc' + (IF done' = {} THEN 0 ELSE 1) + k - 1
      BY <1>1, <2>2, <2>4
    <2>6. At(k)' = At(k) /\ At(k + 1)' = At(k + 1)
      <3>1. k \in 1 .. l + 1 /\ k + 1 \in 1 .. l + 1 BY <1>1
      <3> QED BY <1>2, <3>1
    <2> QED BY <2>2, <2>5, <2>6 DEF InLine
  <1>4. ASSUME NEW k \in l + 1 .. M PROVE queue'[k] < current_desc'
    <2>1. CASE k \in l + 1 .. Len(queue)
      <3>1. k \in 1 .. Len(queue) BY <1>0, <1>1, <2>1
      <3>2. queue'[k] = queue[k] /\ queue[k] < current_desc
        BY <2>1, <3>1 DEF InLine
      <3>3. queue[k] \in Int BY <3>1, QueueTyped DEF Descriptors
      <3> QED BY <1>1, <3>2, <3>3
    <2>2. CASE k \in Len(queue) + 1 .. M BY <1>1, <2>2
    <2> QED BY <1>0, <1>1, <2>1, <2>2
  <1>5. xfr_size' > 0 => end_desc' = current_desc' - 1 BY <1>1
  <1>6. l \in 0 .. Len(queue') BY <1>1
  <1> QED BY <1>3, <1>4, <1>5, <1>6 DEF InLine

LEMMA CompleteAborting ==
  ASSUME TypeOK, Aborting, CompleteIrq
  PROVE  Aborting'
  <1>1. /\ done = {current_desc} /\ fault = "none" /\ state = "IN_PROGRESS"
        /\ current_desc >= inc /\ reported = "none" /\ ~Queued(current_desc)
        /\ \E l \in 0 .. Len(queue) : InLine(l)
    BY CompletedAborting DEF CompleteIrq
  <1>2. PICK l \in 0 .. Len(queue) : InLine(l) BY <1>1
  <1>3. PICK c \in 1 .. 3 : c = current_desc
    BY <1>1 DEF TypeOK, Aborting, Descriptors, N
  <1>4. /\ done' = {} /\ fault' = "none" /\ inc' = inc
        /\ UNCHANGED <<size, moved>>
    BY <1>1 DEF CompleteIrq
  <1>5. inc' \in 1 .. N BY <1>4 DEF Aborting
  <1>6. /\ \A i \in Descriptors : dcp[i].irq <=> i = c \/ Queued(i)
        /\ \A i \in Descriptors : Queued(i) => i >= inc /\ i # c
        /\ \A j, k \in 1 .. Len(queue) : queue[j] = queue[k] => j = k
    BY <1>1, <1>3 DEF Aborting
  <1>7. c \in Descriptors /\ inc \in Int /\ c >= inc /\ inc > 0
    BY <1>1, <1>3 DEF Descriptors, N, Aborting
  <1>8. current_desc' = Following => current_desc' = IF c = 3 THEN 0 ELSE c + 1
    BY <1>3 DEF Following, N
  <1>9. CASE AwaitOthers \/ Finish
    <2>1. dcp' = Freed /\ queue' = queue BY <1>9 DEF AwaitOthers, Finish
    <2>2. \A i \in Descriptors : Queued(i)' <=> Queued(i) BY <2>1 DEF Queued
    <2>3. \A i \in Descriptors : dcp'[i].irq <=> i # c /\ dcp[i].irq
      BY <1>3, <2>1, FreedFields
    <2>4. ASSUME NEW i \in Descriptors
          PROVE  /\ dcp'[i].irq <=> i \in done' \/ Queued(i)'
                 /\ Queued(i)' => i >= inc' /\ i \notin done'
      BY <1>4, <1>6, <2>2, <2>3
    <2>5. \A j, k \in 1 .. Len(queue') : queue'[j] = queue'[k] => j = k
      BY <1>6, <2>1
    <2>6. CASE AwaitOthers
      <3>1. /\ state' = "IN_PROGRESS" /\ reported' = "none" /\ xfr_size' = 0
            /\ current_desc' = IF c = 3 THEN 0 ELSE c + 1
        BY <1>1, <1>8, <2>6 DEF AwaitOthers
      <3>2. ASSUME current_desc' >= inc'
            PROVE  \E n \in 0 .. Len(queue') : InLine(n)'
        <4>1. current_desc' = current_desc + 1
          BY <1>3, <1>4, <1>7, <3>1, <3>2
        <4>2. \A k \in 1 .. l : /\ dcp'[queue[k]].src = dcp[queue[k]].src
                                /\ dcp'[queue[k]].dst = dcp[queue[k]].dst
                                /\ dcp'[queue[k]].len = dcp[queue[k]].len
          BY <1>2, <2>1, FreedFields, QueueTyped
        <4>3. Len(queue') \in Nat /\ Len(queue) <= Len(queue')
          BY <2>1, QueueTyped
        <4>4. /\ \A k \in 1 .. Len(queue) : queue'[k] = queue[k]
              /\ \A k \in Len(queue) + 1 .. Len(queue') : queue'[k] = current_desc
          BY <2>1, QueueTyped
        <4>5. xfr_size' > 0 => end_desc' = current_desc BY <3>1
        <4> QED
          BY <1>1, <1>2, <1>4, <4>1, <4>2, <4>3, <4>4, <4>5, LineAdvances
      <3> QED BY <1>4, <1>5, <2>4, <2>5, <3>1, <3>2 DEF Aborting
    <2>7. CASE Finish
      <3>1. state' = "COMPLETED" /\ current_desc' = 0 BY <2>7 DEF Finish
      <3>2. current_desc' < inc' BY <1>4, <1>7, <3>1
      <3> QED BY <1>4, <1>5, <2>4, <2>5, <3>1, <3>2 DEF Aborting
    <2> QED BY <1>9, <2>6, <2>7
  <1>10. CASE HandNextChunk
    <2>1. /\ xfr_size > 0 /\ StartTransfer(end_desc', Freed)
          /\ end_desc' = IF end_desc = N THEN 0 ELSE end_desc + 1
          /\ current_desc' = IF c = 3 THEN 0 ELSE c + 1
          /\ UNCHANGED <<state, reported>>
      BY <1>8, <1>10 DEF HandNextChunk
    <2>2. end_desc = c - 1 BY <1>2, <1>3, <2>1 DEF InLine
    <2>3. end_desc' = c BY <2>1, <2>2 DEF N
    <2>4. ~\E k \in 1 .. Len(queue) : queue[k] = c
      BY <1>1, <1>3 DEF Queued
    <2>5. queue' = Append(queue, c) BY <1>7, <2>1, <2>3, <2>4 DEF StartTransfer
    <2>6. dcp'[c].irq /\ \A i \in Descriptors \ {c} : dcp'[i] = dcp[i]
      <3>1. Freed \in Registers /\ \A i \in Descriptors \ {c} : Freed[i] = dcp[i]
        BY <1>3, FreedTyped, FreedFields
      <3>2. dcp' = [Freed EXCEPT ![c] = [src |-> src_addr, dst |-> des_addr,
                      len |-> IF xfr_size \in 1 .. Max THEN xfr_size ELSE Max,
                      irq |-> TRUE, pause |-> FALSE]]
        BY <1>7, <2>1, <2>3 DEF StartTransfer
      <3> QED BY <1>7, <3>1, <3>2 DEF Registers
    <2>7. PICK L \in Nat : L = Len(queue) BY QueueTyped
    <2>8. /\ Len(queue') = L + 1 /\ queue'[L + 1] = c
          /\ \A k \in 1 .. L : queue'[k] = queue[k]
      BY <1>7, <2>5, <2>7 DEF TypeOK
    <2>9. ASSUME NEW i \in Descriptors PROVE Queued(i)' <=> i = c \/ Queued(i)
      <3>1. Queued(i)' <=> \E k \in 1 .. L + 1 : queue'[k] = i
        BY <2>8 DEF Queued
      <3>2. Queued(i) <=> \E k \in 1 .. L : queue[k] = i BY <2>7 DEF Queued
      <3>3. (\E k \in 1 .. L + 1 : queue'[k] = i)
              <=> i = c \/ \E k \in 1 .. L : queue[k] = i
        <4>1. ASSUME NEW k \in 1 .. L + 1, queue'[k] = i
              PROVE  i = c \/ \E j \in 1 .. L : queue[j] = i
          <5>1. CASE k = L + 1 BY <2>8, <4>1, <5>1
          <5>2. CASE k # L + 1
            <6>1. k \in 1 .. L BY <5>2
            <6> QED BY <2>8, <4>1, <6>1
          <5> QED BY <5>1, <5>2
        <4>2. L + 1 \in 1 .. L + 1 /\ \A k \in 1 .. L : k \in 1 .. L + 1
          OBVIOUS
        <4> QED BY <2>8, <4>1, <4>2
      <3> QED BY <3>1, <3>2, <3>3
    <2>10. ASSUME NEW i \in Descriptors
           PROVE  /\ dcp'[i].irq <=> i \in done' \/ Queued(i)'
                  /\ Queued(i)' => i >= inc' /\ i \notin done'
      <3>1. CASE i = c BY <1>4, <1>7, <2>6, <2>9, <3>1
      <3>2. CASE i # c
        <4>1. dcp'[i] = dcp[i] BY <2>6, <3>2
        <4> QED BY <1>4, <1>6, <2>9, <3>2, <4>1
      <3> QED BY <3>1, <3>2
    <2>11. ASSUME NEW j \in 1 .. L + 1, NEW k \in 1 .. L + 1, queue'[j] = queue'[k]
           PROVE  j = k
      <3>1. j # L + 1 => j \in 1 .. L /\ queue'[j] = queue[j] /\ queue[j] # c
        BY <2>4, <2>7, <2>8
      <3>2. k # L + 1 => k \in 1 .. L /\ queue'[k] = queue[k] /\ queue[k] # c
        BY <2>4, <2>7, <2>8
      <3>3. CASE j = L + 1 BY <2>8, <2>11, <3>2, <3>3
      <3>4. CASE j # L + 1 /\ k = L + 1 BY <2>8, <2>11, <3>1, <3>4
      <3>5. CASE j # L + 1 /\ k # L + 1
        BY <1>6, <2>7, <2>11, <3>1, <3>2, <3>5
      <3> QED BY <3>3, <3>4, <3>5
    <2>12. ASSUME current_desc' >= inc'
           PROVE  \E n \in 0 .. Len(queue') : InLine(n)'
      <3>1. current_desc' = current_desc + 1
        BY <1>3, <1>4, <1>7, <2>1, <2>12
      <3>2. ASSUME NEW k \in 1 .. l
            PROVE  /\ dcp'[queue[k]].src = dcp[queue[k]].src
                   /\ dcp'[queue[k]].dst = dcp[queue[k]].dst
                   /\ dcp'[queue[k]].len = dcp[queue[k]].len
        <4>1. k \in 1 .. Len(queue) BY <1>2, <2>7
        <4>2. queue[k] \in Descriptors \ {c} BY <2>4, <4>1, QueueTyped
        <4> QED BY <2>6, <4>2
      <3>3. Len(queue') \in Nat /\ Len(queue) <= Len(queue') BY <2>7, <2>8
      <3>4. /\ \A k \in 1 .. Len(queue) : queue'[k] = queue[k]
            /\ \A k \in Len(queue) + 1 .. Len(queue') : queue'[k] = current_desc
        BY <1>3, <2>7, <2>8
      <3>5. xfr_size' > 0 => end_desc' = current_desc BY <1>3, <2>3
      <3> QED BY <1>1, <1>2, <1>4, <3>1, <3>2, <3>3, <3>4, <3>5, LineAdvances
    <2>13. \A j, k \in 1 .. Len(queue') : queue'[j] = queue'[k] => j = k
      BY <2>8, <2>11
    <2> QED BY <1>1, <1>4, <1>5, <2>1, <2>10, <2>12, <2>13 DEF Aborting
  <1> QED BY <1>9, <1>10 DEF CompleteIrq

LEMMA ErrorAborting ==
  ASSUME TypeOK, Aborting, ErrorIrq
  PROVE  /\ Aborting' /\ state' = fault /\ fault \in Errors /\ Report(fault)
         /\ state = "IN_PROGRESS" /\ reported = "none" /\ Head(queue) = current_desc
  <1>1. /\ fault # "none" /\ state = "IN_PROGRESS" /\ reported = "none"
        /\ Head(queue) = current_desc
    BY DEF ErrorIrq, ErrorPending, Aborting
  <1>2. state' = fault /\ fault \in Errors /\ Report(fault)
    BY <1>1 DEF ErrorIrq, TypeOK
  <1>3. /\ queue' = << >> /\ fault' = "none" /\ \A i \in Descriptors : ~dcp'[i].irq
    BY Cleared DEF ErrorIrq
  <1>4. state' # "IN_PROGRESS" BY <1>2 DEF Errors
  <1>5. done' = {} /\ inc' = inc BY DEF ErrorIrq
  <1>6. \A i \in Descriptors : ~Queued(i)' BY <1>3 DEF Queued
  <1>7. \A j, k \in 1 .. Len(queue') : queue'[j] = queue'[k] => j = k BY <1>3
  <1>8. Aborting' BY <1>3, <1>4, <1>5, <1>6, <1>7 DEF Aborting
  <1> QED BY <1>1, <1>2, <1>8

(* The engine serves the current descriptor, whose chunk is the next one.  *)
LEMMA ServingAborting ==
  ASSUME Undisturbed, TypeOK, Aborting, pc = "abort", Serving
  PROVE  /\ state = "IN_PROGRESS" /\ current_desc >= inc /\ reported = "none"
         /\ queue # << >> /\ Head(queue) = queue[1] /\ queue[1] = current_desc
         /\ done = {} /\ fault = "none"
         /\ \E l \in 1 .. Len(queue) : InLine(l)
  <1>1. queue # << >> /\ fault = "none" /\ Head(queue) = current_desc
    BY DEF Undisturbed, Serving
  <1>2. 1 \in 1 .. Len(queue) /\ Head(queue) = queue[1] BY <1>1 DEF TypeOK
  <1>3. current_desc \in Descriptors /\ Queued(current_desc)
    BY <1>1, <1>2 DEF Queued, TypeOK
  <1>4. current_desc >= inc /\ done = {} BY <1>3 DEF Aborting
  <1>5. state = "IN_PROGRESS"
    BY <1>1, <1>4 DEF Aborting, TypeOK, Descriptors, N
  <1>6. reported = "none" /\ \E l \in 0 .. Len(queue) : InLine(l)
    BY <1>4, <1>5 DEF Aborting
  <1>7. PICK l \in 0 .. Len(queue) : InLine(l) BY <1>6
  <1>8. l # 0
    <2>1. ASSUME l = 0 PROVE FALSE
      <3>1. queue[1] < current_desc BY <1>2, <1>7, <2>1 DEF InLine
      <3> QED BY <1>1, <1>2, <1>3, <3>1 DEF Descriptors, N
    <2> QED BY <2>1
  <1>9. l \in 1 .. Len(queue) BY <1>8, QueueTyped
  <1> QED BY <1>1, <1>2, <1>4, <1>5, <1>6, <1>7, <1>9

LEMMA MoveChunkAborting ==
  ASSUME Undisturbed, TypeOK, InOrder, Aborting, pc = "abort", MoveChunk
  PROVE  /\ Aborting' /\ InOrder' /\ state = "IN_PROGRESS"
         /\ moved' \in moved + 1 .. size
  <1>1. /\ state = "IN_PROGRESS" /\ current_desc >= inc /\ reported = "none"
        /\ queue # << >> /\ Head(queue) = queue[1] /\ queue[1] = current_desc
        /\ done = {} /\ fault = "none"
        /\ \E l \in 1 .. Len(queue) : InLine(l)
    BY ServingAborting DEF MoveChunk
  <1>2. PICK l \in 1 .. Len(queue) : InLine(l) BY <1>1
  <1>3. PICK c \in Descriptors : c = current_desc BY DEF TypeOK
  <1>a. dcp[c] \in Register BY DEF TypeOK, Register
  <1>10. moved \in Nat /\ dcp[c].len \in Nat /\ dcp[c].src \in Nat
    BY <1>a, MaxAssumption DEF TypeOK, Register
  <1>4. PICK L \in Nat \ {0} : L = Len(queue) BY <1>1 DEF TypeOK
  <1>5. 1 \in 1 .. l /\ l \in 1 .. L BY <1>2, <1>4
  <1>6. /\ dcp[c].src = Src + moved /\ dcp[c].dst = Dst + moved
        /\ dcp[c].len > 0 /\ At(2) <= size
    BY <1>1, <1>2, <1>3, <1>5 DEF InLine, At
  <1>7. /\ UNCHANGED <<g_transfer, end_desc, current_desc, inc, dcp, fault, size,
                       reported>>
        /\ done' = {c} /\ queue' = Tail(queue)
    BY <1>1, <1>3 DEF MoveChunk
  <1>8. moved' = moved + dcp[c].len /\ UNCHANGED stray
    BY <1>1, <1>3, <1>6 DEF MoveChunk
  <1> USE <1>7 DEF g_transfer
  <1>9. Len(queue') = L - 1 /\ \A k \in 1 .. L - 1 : queue'[k] = queue[k + 1]
    BY <1>1, <1>4 DEF TypeOK
  <1>11. At(2) = moved'
    <2>1. At(2) = dcp[c].src + dcp[c].len - Src BY <1>1, <1>3 DEF At
    <2> QED BY <1>6, <1>8, <1>10, <2>1, AddrAssumption
  <1>12. moved' \in moved + 1 .. size
    BY <1>6, <1>8, <1>10, <1>11, SizeNat
  <1>13. /\ \A i \in Descriptors : dcp[i].irq <=> Queued(i)
         /\ \A i \in Descriptors : Queued(i) => i >= inc
         /\ \A j, k \in 1 .. Len(queue) : queue[j] = queue[k] => j = k
    BY <1>1 DEF Aborting
  <1>14. ASSUME NEW i \in Descriptors PROVE Queued(i)' <=> i # c /\ Queued(i)
    <2>1. ASSUME NEW k \in 1 .. L - 1, queue'[k] = i PROVE i # c /\ Queued(i)
      <3>1. k + 1 \in 1 .. Len(queue) /\ 1 \in 1 .. Len(queue) /\ k + 1 # 1
        BY <1>4
      <3>2. queue[k + 1] = i BY <1>9, <2>1
      <3>3. i # c BY <1>1, <1>3, <1>13, <3>1, <3>2
      <3> QED BY <3>1, <3>2, <3>3 DEF Queued
    <2>2. ASSUME i # c, NEW k \in 1 .. L, queue[k] = i
          PROVE  \E j \in 1 .. L - 1 : queue'[j] = i
      <3>1. k # 1 BY <1>1, <1>3, <2>2
      <3>2. k - 1 \in 1 .. L - 1 /\ (k - 1) + 1 = k BY <3>1
      <3>3. queue'[k - 1] = i BY <1>9, <2>2, <3>2
      <3> QED BY <3>2, <3>3
    <2> QED BY <1>4, <1>9, <2>1, <2>2 DEF Queued
  <1>15. ASSUME NEW i \in Descriptors
         PROVE  /\ dcp'[i].irq <=> i \in done' \/ Queued(i)'
                /\ Queued(i)' => i >= inc' /\ i \notin done'
    <2>1. Queued(c)
      <3>1. 1 \in 1 .. Len(queue) BY <1>4
      <3> QED BY <1>1, <1>3, <3>1 DEF Queued
    <2> QED BY <1>13, <1>14, <2>1
  <1>16. ASSUME NEW j \in 1 .. L - 1, NEW k \in 1 .. L - 1, queue'[j] = queue'[k]
         PROVE  j = k
    <2>1. j + 1 \in 1 .. Len(queue) /\ k + 1 \in 1 .. Len(queue) BY <1>4
    <2>2. queue[j + 1] = queue[k + 1] BY <1>9, <1>16
    <2>3. j + 1 = k + 1 BY <1>13, <2>1, <2>2
    <2> QED BY <2>3
  <1>17. ASSUME NEW k \in 1 .. l PROVE At(k)' = At(k + 1)
    <2>1. CASE k = 1 BY <1>11, <2>1 DEF At
    <2>2. CASE k # 1
      <3>1. k - 1 \in 1 .. L - 1 /\ (k - 1) + 1 = k /\ (k + 1) - 1 = k /\ k + 1 # 1
        BY <1>5, <2>2
      <3>2. queue'[k - 1] = queue[k] BY <1>9, <3>1
      <3>3. At(k + 1) = dcp[queue[k]].src + dcp[queue[k]].len - Src
        BY <3>1 DEF At
      <3> QED BY <2>2, <3>2, <3>3 DEF At
    <2> QED BY <2>1, <2>2
  <1>18. InLine(l - 1)'
    <2>0. c \in Int /\ l \in Nat BY <1>5 DEF Descriptors
    <2>1. ASSUME NEW k \in 1 .. l - 1
          PROVE  /\ queue'[k] = current_desc' + (IF done' = {} THEN 0 ELSE 1) + k - 1
                 /\ dcp'[queue'[k]].src = Src + At(k)'
                 /\ dcp'[queue'[k]].dst = Dst + At(k)'
                 /\ dcp'[queue'[k]].len > 0 /\ At(k + 1)' <= size'
      <3>1. k \in 1 .. l /\ k + 1 \in 1 .. l /\ k \in 1 .. L - 1 BY <1>5
      <3>2. queue'[k] = queue[k + 1] BY <1>9, <3>1
      <3>3. At(k)' = At(k + 1) /\ At(k + 1)' = At((k + 1) + 1) BY <1>17, <3>1
      <3>4. queue[k + 1] = c + 0 + (k + 1) - 1
        BY <1>1, <1>2, <1>3, <3>1 DEF InLine
      <3>5. done' # {} OBVIOUS
      <3>6. queue'[k] = current_desc' + (IF done' = {} THEN 0 ELSE 1) + k - 1
        BY <1>3, <2>0, <3>2, <3>4, <3>5
      <3>7. /\ dcp[queue[k + 1]].src = Src + At(k + 1)
            /\ dcp[queue[k + 1]].dst = Dst + At(k + 1)
            /\ dcp[queue[k + 1]].len > 0 /\ At((k + 1) + 1) <= size
        BY <1>2, <3>1 DEF InLine
      <3> QED BY <3>2, <3>3, <3>6, <3>7
    <2>2. ASSUME NEW k \in l .. L - 1 PROVE queue'[k] < current_desc'
      <3>1. k \in 1 .. L - 1 /\ k + 1 \in l + 1 .. Len(queue) BY <1>4, <1>5
      <3>2. queue'[k] = queue[k + 1] BY <1>9, <3>1
      <3> QED BY <1>2, <3>1, <3>2 DEF InLine
    <2>3. (l - 1) + 1 = l BY <2>0
    <2>4. xfr_size' > 0 => end_desc' = current_desc' - 1 BY <1>2 DEF InLine
    <2> QED BY <1>9, <2>1, <2>2, <2>3, <2>4 DEF InLine
  <1>19. l - 1 \in 0 .. Len(queue') BY <1>5, <1>9
  <1>20. \A j, k \in 1 .. Len(queue') : queue'[j] = queue'[k] => j = k
    BY <1>9, <1>16
  <1>21. inc' \in 1 .. N /\ done' \subseteq {current_desc'} /\ current_desc' >= inc'
    BY <1>1, <1>3 DEF Aborting
  <1>22. Aborting'
    BY <1>1, <1>15, <1>18, <1>19, <1>20, <1>21 DEF Aborting
  <1> QED BY <1>1, <1>8, <1>12, <1>22 DEF InOrder

(* What does not touch the descriptors leaves them in line. *)
LEMMA LineKept ==
  ASSUME NEW l \in 0 .. Len(queue), InLine(l),
         UNCHANGED <<dcp, queue, current_desc, end_desc, xfr_size, done, moved, size>>
  PROVE  InLine(l)'
  BY DEF InLine, At

LEMMA FailAborting ==
  ASSUME Undisturbed, TypeOK, Aborting, pc = "abort", Fail
  PROVE  Aborting'
  <1>1. /\ state = "IN_PROGRESS" /\ current_desc >= inc /\ reported = "none"
        /\ queue # << >> /\ Head(queue) = current_desc
        /\ done = {}
        /\ \E l \in 1 .. Len(queue) : InLine(l)
    BY ServingAborting DEF Fail
  <1>2. PICK l \in 1 .. Len(queue) : InLine(l) BY <1>1
  <1>3. /\ UNCHANGED <<state, xfr_size, end_desc, current_desc, inc, dcp, queue,
                       done, moved, size, reported>>
    BY DEF Fail, g_transfer, history
  <1>4. l \in 0 .. Len(queue) BY <1>2, QueueTyped
  <1>5. InLine(l)' BY <1>2, <1>3, <1>4, LineKept
  <1>6. \A i \in Descriptors : Queued(i)' <=> Queued(i) BY <1>3 DEF Queued
  <1> QED BY <1>1, <1>3, <1>4, <1>5, <1>6 DEF Aborting

LEMMA StutterAborting ==
  ASSUME TypeOK, Aborting, UNCHANGED hpdma
  PROVE  Aborting'
  <1>1. UNCHANGED <<state, xfr_size, end_desc, current_desc, inc, dcp, queue,
                    done, fault, moved, size, reported>>
    BY DEF hpdma, g_transfer, engine, history
  <1>2. \A i \in Descriptors : Queued(i)' <=> Queued(i) BY <1>1 DEF Queued
  <1>3. \A l \in 0 .. Len(queue) : InLine(l) => InLine(l)' BY <1>1, LineKept
  <1> QED BY <1>1, <1>2, <1>3 DEF Aborting

-----------------------------------------------------------------------------
(* The inductive invariant. *)
LEMMA InitInv == Init => IInv
  <1> SUFFICES ASSUME Init PROVE IInv OBVIOUS
  <1>1. \A i \in Descriptors : ~dcp[i].irq BY DEF Init, Empty
  <1>2. Bookkeeping BY <1>1 DEF Init, Bookkeeping, InTurn
  <1>3. InOrder BY DEF Init, InOrder
  <1> QED BY <1>2, <1>3, InitTyped DEF IInv

LEMMA Counted ==
  ASSUME TypeOK, Bookkeeping, pc = "count"
  PROVE  end_desc < N
  <1>0. InTurn BY DEF Bookkeeping
  <1>1. state = "IN_PROGRESS" BY <1>0 DEF InTurn
  <1>2. PICK m \in 0 .. N : Window(m) /\ Room(m) BY <1>0, <1>1 DEF InTurn
  <1>3. end_desc \in Nat /\ Filled(end_desc + 1)
    BY <1>2 DEF Room, TypeOK, N
  <1>4. end_desc + 1 <= N BY <1>2, <1>3, FilledWindow
  <1> QED BY <1>3, <1>4 DEF N

(* A step outside MSS_HPDMA_abort. *)
LEMMA NextInTurn ==
  ASSUME Undisturbed, TypeOK, InOrder, InTurn, inc = 0, pc # "abort", Next
  PROVE  InOrder' /\ Bookkeeping'
  <1>1. CASE Start
    BY <1>1, StartBooks DEF Start, InOrder, Bookkeeping
  <1>2. CASE StartOne
    BY <1>2, StartOneBooks DEF StartOne, InOrder, history, Bookkeeping
  <1>3. CASE CountOne
    BY <1>3, CountOneBooks DEF CountOne, InOrder, history, Bookkeeping
  <1>4. ASSUME NEW on \in BOOLEAN, Pause(on) PROVE InOrder' /\ Bookkeeping'
    BY <1>4, PauseBooks DEF Pause, InOrder, history, Bookkeeping
  <1>5. CASE AbortOne
    BY <1>5, AbortBegins DEF AbortOne, InOrder, history, Bookkeeping
  <1>6. CASE Abort BY <1>6 DEF Abort
  <1>7. CASE SetHandler
    BY <1>7, SetHandlerBooks DEF SetHandler, InOrder, history, Bookkeeping
  <1>8. CASE CompleteIrq
    <2>1. InTurn'
      BY <1>8, HandNextChunkBooks, AwaitOthersBooks, FinishBooks
      DEF CompleteIrq
    <2>2. UNCHANGED <<pc, inc, stray>> BY <1>8 DEF CompleteIrq
    <2> QED BY <2>1, <2>2 DEF InOrder, Bookkeeping
  <1>9. CASE ErrorIrq
    BY <1>9, ErrorIrqBooks DEF ErrorIrq, InOrder, Bookkeeping
  <1>10. CASE MoveChunk
    BY <1>10, MoveChunkBooks DEF MoveChunk, Bookkeeping
  <1>11. CASE Fail
    BY <1>11, FailBooks DEF Fail, InOrder, history, Bookkeeping
  <1> QED
    BY <1>1, <1>2, <1>3, <1>4, <1>5, <1>6, <1>7, <1>8, <1>9, <1>10, <1>11
    DEF Next

(* A step while MSS_HPDMA_abort runs. *)
LEMMA NextAborting ==
  ASSUME Undisturbed, TypeOK, InOrder, Aborting, pc = "abort", Next
  PROVE  InOrder' /\ Bookkeeping'
  <1>1. CASE AbortOne
    BY <1>1, AbortGoesOn DEF AbortOne, InOrder, history, Bookkeeping
  <1>2. CASE Abort
    BY <1>2, AbortEnds DEF Abort, InOrder, history, Bookkeeping
  <1>3. CASE CompleteIrq
    BY <1>3, CompleteAborting DEF CompleteIrq, InOrder, Bookkeeping
  <1>4. CASE ErrorIrq
    BY <1>4, ErrorAborting DEF ErrorIrq, InOrder, Bookkeeping
  <1>5. CASE MoveChunk
    BY <1>5, MoveChunkAborting DEF MoveChunk, Bookkeeping
  <1>6. CASE Fail
    BY <1>6, FailAborting DEF Fail, InOrder, history, Bookkeeping
  <1>7. ~Start /\ ~StartOne /\ ~CountOne /\ ~SetHandler
    BY DEF Start, StartOne, CountOne, SetHandler
  <1>8. ASSUME NEW on \in BOOLEAN PROVE ~Pause(on) BY DEF Pause
  <1> QED BY <1>1, <1>2, <1>3, <1>4, <1>5, <1>6, <1>7, <1>8 DEF Next

LEMMA StutterInTurn ==
  ASSUME TypeOK, InTurn, UNCHANGED hpdma PROVE InTurn'
  <1> USE DEF hpdma, g_transfer, engine, history
  <1>1. CASE state = "IN_PROGRESS"
    <2>1. PICK m \in 0 .. N : Window(m) /\ Room(m) BY <1>1 DEF InTurn
    <2>2. Chain' BY <1>1, ChainKept DEF InTurn
    <2>3. Window(m)' BY <2>1 DEF Window, Ahead
    <2>4. Room(m)' BY <2>1 DEF Room, Filled, Left
    <2> QED BY <1>1, <2>2, <2>3, <2>4 DEF InTurn
  <1>2. CASE state # "IN_PROGRESS" BY <1>2 DEF InTurn
  <1> QED BY <1>1, <1>2

LEMMA NextInv ==
  ASSUME Undisturbed, IInv, [Next]_hpdma
  PROVE  IInv'
  <1> USE DEF IInv
  <1>1. CASE UNCHANGED hpdma
    <2>1. UNCHANGED <<pc, inc, stray>>
      BY <1>1 DEF hpdma, history
    <2>2. TypeOK' BY <1>1 DEF hpdma, g_transfer, engine, history, TypeOK
    <2>3. Bookkeeping'
      BY <1>1, <2>1, StutterInTurn, StutterAborting DEF Bookkeeping
    <2> QED BY <2>1, <2>2, <2>3 DEF InOrder
  <1>2. CASE Next
    <2>1. TypeOK' BY <1>2, NextTyped, Counted
    <2>2. InOrder' /\ Bookkeeping'
      BY <1>2, NextInTurn, NextAborting DEF Bookkeeping
    <2> QED BY <2>1, <2>2
  <1> QED BY <1>1, <1>2

(* The chain from the next word in order to the next one to hand out makes *)
(* up, with the words moved and those not handed out, the transfer.        *)
LEMMA ChainAddsUp == IInv => NothingLost
  <1> SUFFICES ASSUME IInv, state = "IN_PROGRESS", pc # "abort"
               PROVE  moved + Flying(1) + Flying(2) + Flying(3) + Flying(4)
                        + xfr_size = size
    BY DEF NothingLost
  <1>1. TypeOK /\ Chain BY DEF IInv, Bookkeeping, InTurn
  <1>2. PICK m \in 0 .. N : Window(m) BY DEF IInv, Bookkeeping, InTurn
  <1>3. Len(queue) \in Nat /\ m + Len(queue) <= N
    BY <1>1, <1>2, QueueTyped DEF Window
  <1>4. m \in 0 .. 4 BY <1>2 DEF N
  <1>5. \A l \in Nat : m + l <= N => l \in 0 .. 4 BY <1>4 DEF N
  <1>6. PICK L \in 0 .. 4 : L = Len(queue) BY <1>3, <1>5
  <1>7. At(L + 1) = size - xfr_size BY <1>1, <1>6 DEF Chain, HandedOut
  <1>8. /\ moved \in Nat /\ size \in Nat /\ xfr_size \in Nat
        /\ \A k \in 1 .. L : dcp[queue[k]].len \in Nat
    BY <1>1, <1>6, SizeNat, QueueTyped, MaxAssumption DEF TypeOK
  <1>9. At(1) = moved BY DEF At
  <1>10. ASSUME NEW k \in 1 .. 4, k <= L
        PROVE  At(k + 1) = At(k) + Flying(k)
    <2>1. dcp[queue[k]].src = Src + At(k) BY <1>1, <1>6, <1>10 DEF Chain
    <2>2. At(k + 1) = dcp[queue[k]].src + dcp[queue[k]].len - Src
      BY <1>10 DEF At
    <2>3. At(k) \in Int
      <3>1. CASE k = 1 BY <1>8, <1>9, <3>1
      <3>2. CASE k # 1
        <4>1. k - 1 \in 1 .. Len(queue) BY <1>6, <1>10, <3>2
        <4>2. queue[k - 1] \in Descriptors BY <1>1, <4>1, QueueTyped
        <4>3. dcp[queue[k - 1]].src \in Nat /\ dcp[queue[k - 1]].len \in Nat
          BY <1>1, <4>2, FieldsTyped
        <4> QED BY <3>2, <4>3, AddrAssumption DEF At
      <3> QED BY <3>1, <3>2
    <2>4. Flying(k) = dcp[queue[k]].len BY <1>6, <1>10 DEF Flying
    <2> QED BY <1>8, <1>10, <2>1, <2>2, <2>3, <2>4, AddrAssumption
  <1>11. ASSUME NEW k \in 1 .. 4, k > L PROVE Flying(k) = 0
    BY <1>6, <1>11 DEF Flying
  <1>15. ASSUME NEW k \in 1 .. 4, k <= L PROVE Flying(k) \in Nat
    BY <1>6, <1>8, <1>15 DEF Flying
  <1>12. CASE L = 0 BY <1>7, <1>8, <1>9, <1>11, <1>12
  <1>13. CASE L = 1
    <2>1. At(2) = moved + Flying(1) /\ Flying(1) \in Nat BY <1>9, <1>10, <1>15, <1>13
    <2>2. At(2) = size - xfr_size BY <1>7, <1>13
    <2>3. Flying(2) = 0 /\ Flying(3) = 0 /\ Flying(4) = 0 BY <1>11, <1>13
    <2> QED BY <1>8, <2>1, <2>2, <2>3
  <1>14. CASE L = 2
    <2>1. At(2) = moved + Flying(1) /\ Flying(1) \in Nat BY <1>9, <1>10, <1>15, <1>14
    <2>2. At(3) = At(2) + Flying(2) /\ Flying(2) \in Nat BY <1>10, <1>15, <1>14
    <2>3. At(3) = size - xfr_size BY <1>7, <1>14
    <2>4. Flying(3) = 0 /\ Flying(4) = 0 BY <1>11, <1>14
    <2> QED BY <1>8, <2>1, <2>2, <2>3, <2>4
  <1>16. CASE L = 3
    <2>1. At(2) = moved + Flying(1) BY <1>9, <1>10, <1>16
    <2>2. At(3) = At(2) + Flying(2) BY <1>10, <1>16
    <2>3. At(4) = At(3) + Flying(3) BY <1>10, <1>16
    <2>4. At(4) = size - xfr_size /\ Flying(4) = 0 BY <1>7, <1>11, <1>16
    <2>5. Flying(1) \in Nat /\ Flying(2) \in Nat /\ Flying(3) \in Nat
      BY <1>15, <1>16
    <2> QED BY <1>8, <2>1, <2>2, <2>3, <2>4, <2>5
  <1>17. CASE L = 4
    <2>1. At(2) = moved + Flying(1) BY <1>9, <1>10, <1>17
    <2>2. At(3) = At(2) + Flying(2) BY <1>10, <1>17
    <2>3. At(4) = At(3) + Flying(3) BY <1>10, <1>17
    <2>4. At(5) = At(4) + Flying(4) BY <1>10, <1>17
    <2>5. At(5) = size - xfr_size BY <1>7, <1>17
    <2>6. /\ Flying(1) \in Nat /\ Flying(2) \in Nat
          /\ Flying(3) \in Nat /\ Flying(4) \in Nat
      BY <1>15, <1>17
    <2> QED BY <1>8, <2>1, <2>2, <2>3, <2>4, <2>5, <2>6
  <1> QED BY <1>12, <1>13, <1>14, <1>16, <1>17

-----------------------------------------------------------------------------
(* The invariant holds in every reachable state. *)
THEOREM Invariant == Undisturbed /\ Spec => []IInv
  <1> SUFFICES ASSUME Undisturbed PROVE Spec => []IInv OBVIOUS
  <1> QED BY InitInv, NextInv, PTL DEF Spec

(* Every variable of the driver keeps its type; end_desc in particular     *)
(* never names a descriptor beyond the one behind the last.                *)
THEOREM Typing == Undisturbed /\ Spec => []TypeOK
  BY Invariant, PTL DEF IInv

(* The descriptors that have completed, those in flight and the free ones  *)
(* follow each other around the ring, and the chunks in flight follow each *)
(* other in the buffers.                                                   *)
THEOREM BookkeepingHolds == Undisturbed /\ Spec => []Bookkeeping
  BY Invariant, PTL DEF IInv

(* The words are moved in order, none twice and none to a wrong place.     *)
THEOREM MovedInOrder == Undisturbed /\ Spec => []InOrder
  BY Invariant, PTL DEF IInv

(* The words moved, in flight and not handed out make up the transfer.     *)
THEOREM NothingIsLost == Undisturbed /\ Spec => []NothingLost
  BY ChainAddsUp, Invariant, PTL

(* The error handler looks at the descriptor that has the error.           *)
THEOREM ErrorIsFound == Undisturbed /\ Spec => []ErrorFound
  <1>1. IInv => ErrorFound
    BY ErrorAtCurrent DEF IInv, ErrorFound, Bookkeeping, Aborting, ErrorPending
  <1> QED BY <1>1, Invariant, PTL

(* Nothing is in flight when the next transfer may be started.             *)
THEOREM EndIsIdle == Undisturbed /\ Spec => []EndsIdle
  <1>1. IInv => EndsIdle
    BY DEF IInv, Bookkeeping, InTurn, EndsIdle, CompletePending
  <1> QED BY <1>1, Invariant, PTL

-----------------------------------------------------------------------------
(* A chunk that is moved is within the transfer. *)
LEMMA MoveWithin ==
  ASSUME Undisturbed, IInv, pc # "abort", MoveChunk
  PROVE  state = "IN_PROGRESS" /\ moved' \in moved + 1 .. size
  <1>0. InTurn BY DEF IInv, Bookkeeping
  <1>1. /\ state = "IN_PROGRESS" /\ queue # << >>
        /\ moved' = moved + dcp[Head(queue)].len
        /\ dcp[Head(queue)].len \in Nat \ {0}
    BY <1>0, ServingInProgress, MoveChunkBooks, HeadInOrder
    DEF IInv, MoveChunk, InTurn
  <1>2. /\ moved \in Nat /\ xfr_size \in Nat /\ size \in Nat
        /\ moved + Flying(1) + Flying(2) + Flying(3) + Flying(4)
             + xfr_size = size
    BY <1>1, ChainAddsUp, SizeNat DEF IInv, NothingLost, TypeOK
  <1>3. \A k \in 1 .. 4 : Flying(k) \in Nat
    BY QueueTyped, MaxAssumption DEF IInv, Flying, TypeOK
  <1>4. Flying(1) = dcp[Head(queue)].len
    <2>1. 1 <= Len(queue) /\ Head(queue) = queue[1] BY <1>1 DEF IInv, TypeOK
    <2> QED BY <2>1 DEF Flying
  <1>5. moved' \in moved + 1 .. size
    <2>1. /\ Flying(1) \in Nat \ {0} /\ Flying(2) \in Nat
          /\ Flying(3) \in Nat /\ Flying(4) \in Nat
      BY <1>1, <1>3, <1>4
    <2>2. \A a, b, c, d, e, f \in Nat :
             a + b + c + d + e + f = size /\ b # 0 => a + b \in a + 1 .. size
      BY <1>2
    <2>3. moved + Flying(1) \in moved + 1 .. size BY <1>2, <2>1, <2>2
    <2> QED BY <1>1, <1>4, <2>3
  <1> QED BY <1>1, <1>5


LEMMA MoveRefines ==
  ASSUME Undisturbed, IInv, MoveChunk PROVE TRANSFER!Move
  <1>1. state = "IN_PROGRESS" /\ moved' \in moved + 1 .. size
    BY MoveWithin, MoveChunkAborting DEF IInv, Bookkeeping
  <1> QED BY <1>1 DEF MoveChunk, g_transfer, TRANSFER!Move

(* Every step of the driver and of the engine is one of the promise, or    *)
(* changes nothing that the promise speaks of.                             *)
LEMMA NextRefines ==
  ASSUME Undisturbed, IInv, [Next]_hpdma PROVE [TRANSFER!Next]_TRANSFER!vars
  <1> USE DEF g_transfer, engine, history, TRANSFER!vars
  <1>a. pc # "abort" => InTurn BY DEF IInv, Bookkeeping
  <1>b. pc = "abort" => Aborting BY DEF IInv, Bookkeeping
  <1>1. CASE UNCHANGED hpdma BY <1>1 DEF hpdma
  <1>2. CASE Start BY <1>2 DEF Start, TRANSFER!Next, TRANSFER!Start
  <1>3. CASE StartOne BY <1>3 DEF StartOne
  <1>4. CASE CountOne BY <1>4 DEF CountOne
  <1>5. ASSUME NEW on \in BOOLEAN, Pause(on) PROVE UNCHANGED TRANSFER!vars
    BY <1>5 DEF Pause
  <1>6. CASE AbortOne
    <2>1. UNCHANGED <<state, size, moved, handler, reported>> /\ pc' = "abort"
      BY <1>6 DEF AbortOne
    <2>2. CASE pc = "abort" BY <2>1, <2>2
    <2>3. CASE pc # "abort"
      BY <2>1, <2>3 DEF TRANSFER!Next, TRANSFER!BeginAbort
    <2> QED BY <2>2, <2>3
  <1>7. CASE Abort
    <2>1. /\ UNCHANGED <<size, moved, handler, reported>> /\ state' = "COMPLETED"
          /\ pc = "abort" /\ pc' = "idle"
      BY <1>7 DEF Abort
    <2> QED BY <2>1 DEF TRANSFER!Next, TRANSFER!EndAbort
  <1>8. CASE SetHandler
    BY <1>8 DEF SetHandler, TRANSFER!Next, TRANSFER!SetHandler
  <1>9. CASE CompleteIrq
    <2>0. UNCHANGED <<handler, pc, size, moved>> BY <1>9 DEF CompleteIrq
    <2>1. CASE HandNextChunk BY <2>0, <2>1 DEF HandNextChunk
    <2>2. CASE AwaitOthers BY <2>0, <2>2 DEF AwaitOthers
    <2>3. CASE Finish
      <3>1. /\ state = "IN_PROGRESS" /\ reported = "none"
            /\ moved = size \/ pc = "abort"
        BY <1>9, <1>a, <1>b, <2>3, FinishBooks, CompletedAborting
        DEF IInv, CompleteIrq
      <3>2. state' = "COMPLETED" /\ Report("COMPLETED") BY <2>3 DEF Finish
      <3> QED
        BY <2>0, <3>1, <3>2
        DEF Report, TRANSFER!Next, TRANSFER!Complete, TRANSFER!End
    <2> QED BY <1>9, <2>1, <2>2, <2>3 DEF CompleteIrq
  <1>10. CASE ErrorIrq
    <2>1. /\ state' = fault /\ fault \in TRANSFER!Errors /\ Report(fault)
          /\ state = "IN_PROGRESS" /\ reported = "none"
      BY <1>10, <1>a, <1>b, ErrorIrqBooks, ErrorAtCurrent, ErrorAborting
      DEF IInv, ErrorIrq, Errors, TRANSFER!Errors
    <2>2. UNCHANGED <<handler, pc, size, moved>> BY <1>10 DEF ErrorIrq
    <2>3. TRANSFER!End(fault) BY <2>1, <2>2 DEF Report, TRANSFER!End
    <2> QED BY <2>1, <2>3 DEF TRANSFER!Next, TRANSFER!Fail
  <1>11. CASE MoveChunk BY <1>11, MoveRefines DEF TRANSFER!Next
  <1>12. CASE Fail BY <1>12 DEF Fail
  <1> QED
    BY <1>1, <1>2, <1>3, <1>4, <1>5, <1>6, <1>7, <1>8, <1>9, <1>10, <1>11, <1>12
    DEF Next

(* The driver implements the promise of mss_hpdma.h: one transfer at a     *)
(* time, moved in order, complete when it says so, reported once.          *)
THEOREM KeepsThePromise == Undisturbed /\ Spec => ImplementsTransfer
  <1>1. Init => TRANSFER!Init BY DEF Init, TRANSFER!Init
  <1>2. Undisturbed /\ IInv /\ [Next]_hpdma => [TRANSFER!Next]_TRANSFER!vars
    BY NextRefines
  <1>3. SUFFICES ASSUME Undisturbed PROVE Spec => ImplementsTransfer OBVIOUS
  <1>4. IInv /\ [Next]_hpdma => [TRANSFER!Next]_TRANSFER!vars
    BY <1>2, <1>3
  <1> QED
    BY <1>1, <1>3, <1>4, Invariant, PTL DEF Spec, ImplementsTransfer, TRANSFER!Spec

=============================================================================
