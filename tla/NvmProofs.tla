----------------------------- MODULE NvmProofs ------------------------------
(***************************************************************************)
(* Proofs about Nvm: for every page and word size, every device, every     *)
(* sequence of calls and every behaviour of the other master.              *)
(***************************************************************************)
EXTENDS Nvm, TLAPS

Bits == {"WVERIFY_FAIL", "DENIED", "PEFAIL_LOCK", "VERIFY_FAIL", "WRCNT_OVER"}
Bytes == [0 .. BYTES_PER_PAGE - 1 -> Int \X Int]

ControllerSet ==
  [cmd : {"none", "PROG", "UNLOCK_PROG", "VERIFY", "READ"}, page : Nat, wd : Bytes,
   lock : Nat, status : SUBSET Bits, busy : BOOLEAN, valid : BOOLEAN, aux : BOOLEAN]

Good     == {"SUCCESS", "WRITE_THRESHOLD_WARNING"}
Statuses == Good \cup {"INVALID_PARAMETER", "PROTECTION_ERROR", "PAGE_LOCK_ERROR",
                       "VERIFY_FAILURE", "IN_USE_BY_OTHER_MASTER", "PAGE_LOCK_WARNING"}

CallSet ==
  [at : {"idle", "access", "page", "wait", "release", "restore"},
   op : {"none", "write", "unlock", "count"}, offset : Nat, length : Nat, lock : Nat,
   warn : BOOLEAN, done : Nat, status : Statuses,
   blocks : {<< >>, <<0>>, <<1>>, <<0, 1>>}, tries : Nat, reads : 0 .. 1]

TypeOK ==
  /\ device \in [family : {"005", "010/025/050", "060", "090/150"}, first : BOOLEAN,
                 users : [0 .. 3 -> {0, 1, 8, 9}]]
  /\ envmCr \in {"design", "max"}
  /\ REQ_ACCESS \in [0 .. 1 -> {"none", "m3", "fabric"}]
  /\ DOMAIN flash \subseteq Nat /\ flash \in [DOMAIN flash -> Bytes]
  /\ locked \subseteq Nat
  /\ ctrl \in [0 .. 1 -> ControllerSet]
  /\ g_envm_ctrl_locks \subseteq 0 .. 1
  /\ g_do_not_lock_page \in BOOLEAN
  /\ call \in CallSet
  /\ outcomes \subseteq Bits
  /\ calls \in Nat /\ fabric \in Nat

(* The blocks that hold a byte of the call. *)
Blocks == {b \in 0 .. 1 : BlockOf(call.offset) <= b /\ b <= BlockOf(Last(call.offset, call.length))}

(* The driver knows what it holds: nothing between calls, all that the     *)
(* call needs while it works on pages, the first block while it asks for   *)
(* the second.                                                             *)
Held ==
  /\ \A b \in 0 .. 1 : b \in g_envm_ctrl_locks <=> REQ_ACCESS[b] = "m3"
  /\ call.at \in {"idle", "restore"} => g_envm_ctrl_locks = {}
  /\ call.at \in {"page", "wait", "release"} => g_envm_ctrl_locks = Blocks
  /\ call.at = "access" => \/ /\ call.blocks = Needs(call.offset, call.length)
                              /\ g_envm_ctrl_locks = {}
                           \/ /\ call.blocks = <<1>> /\ g_envm_ctrl_locks = {0}
                              /\ Needs(call.offset, call.length) = <<0, 1>>

(* Where a call stands: within its bytes, at the start of a page but for   *)
(* the first one.                                                          *)
Position ==
  call.at \in {"access", "page", "wait", "release"} =>
    /\ call.op # "none" /\ call.length > 0
    /\ call.op = "count" => call.length = 1 /\ call.done = 0
    /\ call.at = "access" => call.done = 0
    /\ call.at \in {"page", "wait"} => /\ call.done < call.length
                                       /\ call.done > 0 => Here % BYTES_PER_PAGE = 0

(* A call past the checks may write its bytes, and lock their pages.       *)
Permitted ==
  /\ call.at \in {"access", "page", "wait", "release"} /\ call.op # "count" =>
       check_protection_reserved_nvm(call.offset, call.length) = "SUCCESS"
  /\ call.lock = 1 => /\ ~device.first /\ device.family # "060" /\ call.op = "write"
                      /\ device.family = "090/150" =>
                           call.offset + call.length <= NVM1_BOTTOM_OFFSET

(* Only the controller of the page at hand is used, with the command of    *)
(* the call.                                                               *)
Commanded ==
  /\ \A b \in 0 .. 1 :
       /\ ctrl[b].busy => call.at = "wait" /\ b = BlockOfPage(Page)
       /\ ctrl[b].aux  => call.at = "wait" /\ b = BlockOfPage(Page) /\ call.op = "count"
  /\ call.at = "wait" =>
       LET c == ctrl[BlockOfPage(Page)]
       IN  /\ c.page = Page
           /\ call.op = "write"  => c.cmd \in {"PROG", "VERIFY"} /\ c.lock = call.lock
           /\ call.op = "unlock" => c.cmd = "UNLOCK_PROG" /\ c.lock = call.lock
           /\ call.op = "count"  => c.cmd = "READ"
           /\ call.reads = 1 => c.valid /\ ~c.busy

(* What is behind the warning or the success of the pages so far. *)
Prior(status) == IF status = "SUCCESS" THEN {} ELSE {"WRCNT_OVER"}

(* The bits of the page at hand, once its command has ended. *)
Ended ==
  LET c == ctrl[BlockOfPage(Page)] IN IF call.op = "count" \/ c.busy THEN {} ELSE c.status

Reported ==
  /\ call.at = "access" => call.status = "SUCCESS" /\ outcomes = {}
  /\ call.at = "page" => call.status \in Good /\ outcomes = Prior(call.status)
  /\ call.at \in {"page", "wait"} /\ call.op = "count" => call.status = "SUCCESS"
  /\ call.at = "wait" =>
       LET c == ctrl[BlockOfPage(Page)]
       IN  /\ call.status \in Good /\ outcomes = Prior(call.status) \cup Ended
           /\ call.op # "count" /\ c.busy => c.status = {}
           /\ c.cmd = "PROG" => "WRCNT_OVER" \notin c.status
           /\ c.cmd = "UNLOCK_PROG" => c.status \subseteq {"WRCNT_OVER", "WVERIFY_FAIL", "DENIED"}
  /\ call.at = "release" =>
       IF call.status \in Good THEN outcomes = Prior(call.status)
       ELSE outcomes \cap WRITE_ERROR_MASK # {}

(* What WD holds changes the bytes of the call only. *)
WithinRange ==
  \A b \in 0 .. 1 : ctrl[b].busy /\ ctrl[b].cmd \in {"PROG", "UNLOCK_PROG"} =>
    \A i \in 0 .. BYTES_PER_PAGE - 1 :
      InRange(Page, i) \/ ctrl[b].wd[i] = Content(Page)[i]

(* Byte i of the data of the call is in the flash; those up to n are. *)
Stands(i) == LET o == call.offset + i - 1
             IN  Content(PageOf(o))[o % BYTES_PER_PAGE] = <<calls, i>>
InFlash(n) == \A i \in 1 .. n : Stands(i)

(* The data of the page at hand are in WD, then in the flash. *)
Stored ==
  call.op = "write" =>
    /\ call.at \in {"page", "wait"} => InFlash(call.done)
    /\ call.at = "wait" =>
         LET c == ctrl[BlockOfPage(Page)]
         IN  /\ c.cmd = "PROG" /\ c.busy =>
                  \A i \in call.done + 1 .. call.done + Written :
                    c.wd[(call.offset + i - 1) % BYTES_PER_PAGE] = <<calls, i>>
             /\ c.cmd = "VERIFY" \/ (~c.busy /\ c.status = {}) => InFlash(call.done + Written)
    /\ call.at = "release" /\ call.status \in Good => InFlash(call.length)

(* The pages of the bytes of the call up to n are not locked. *)
Freed(n) == \A i \in 1 .. n : PageOf(call.offset + i - 1) \notin locked

Opened ==
  call.op = "unlock" =>
    /\ call.at \in {"page", "wait"} => Freed(call.done)
    /\ call.at = "wait" =>
         LET c == ctrl[BlockOfPage(Page)]
         IN  ~c.busy /\ c.status \subseteq {"WRCNT_OVER"} => Freed(call.done + Unlocked)
    /\ call.at = "release" /\ call.status \in Good => Freed(call.length)

(* ENVM_CR is changed within a write and an unlock only. *)
Between ==
  call.at = "idle" \/ call.op = "count" => envmCr = "design"

IInv == /\ TypeOK /\ Held /\ Position /\ Permitted /\ Commanded /\ Reported
        /\ WithinRange /\ Stored /\ Opened /\ Between

-----------------------------------------------------------------------------
(* Offsets and pages. *)
LEMMA DivMod ==
  ASSUME NEW o \in Nat
  PROVE  /\ PageOf(o) \in Nat /\ (o % BYTES_PER_PAGE) \in 0 .. BYTES_PER_PAGE - 1
         /\ o = BYTES_PER_PAGE * PageOf(o) + (o % BYTES_PER_PAGE)
BY NvmAssumption DEF PageOf

LEMMA Times ==
  ASSUME NEW a \in Nat, NEW b \in Nat, a < b
  PROVE  BYTES_PER_PAGE * a + BYTES_PER_PAGE <= BYTES_PER_PAGE * b
<1>1. BYTES_PER_PAGE * (b - a - 1) >= 0
  BY NvmAssumption
<1> QED BY <1>1, NvmAssumption

(* The page and the place in it are the only quotient and remainder. *)
LEMMA Placed ==
  ASSUME NEW o \in Nat, NEW p \in Nat, NEW r \in 0 .. BYTES_PER_PAGE - 1,
         o = BYTES_PER_PAGE * p + r
  PROVE  PageOf(o) = p /\ (o % BYTES_PER_PAGE) = r
<1> DEFINE q == PageOf(o)
           m == o % BYTES_PER_PAGE
<1>1. q \in Nat /\ m \in 0 .. BYTES_PER_PAGE - 1 /\ o = BYTES_PER_PAGE * q + m
  BY DivMod
<1> HIDE DEF q, m
<1>2. ~(q < p)
  BY <1>1, Times, NvmAssumption
<1>3. ~(p < q)
  BY <1>1, Times, NvmAssumption
<1>4. q = p
  BY <1>1, <1>2, <1>3
<1> QED BY <1>1, <1>4, NvmAssumption DEF q, m

LEMMA PageMono ==
  ASSUME NEW o \in Nat, NEW p \in Nat, o <= p
  PROVE  PageOf(o) <= PageOf(p)
<1> DEFINE q == PageOf(o)
           r == PageOf(p)
           m == o % BYTES_PER_PAGE
           n == p % BYTES_PER_PAGE
<1>1. /\ q \in Nat /\ m \in 0 .. BYTES_PER_PAGE - 1 /\ o = BYTES_PER_PAGE * q + m
      /\ r \in Nat /\ n \in 0 .. BYTES_PER_PAGE - 1 /\ p = BYTES_PER_PAGE * r + n
  BY DivMod
<1> HIDE DEF q, r, m, n
<1>2. r < q => BYTES_PER_PAGE * r + BYTES_PER_PAGE <= BYTES_PER_PAGE * q
  BY <1>1, Times
<1>3. q <= r
  BY <1>1, <1>2, NvmAssumption
<1> QED BY <1>3 DEF q, r

LEMMA SamePage ==
  ASSUME NEW o \in Nat, NEW k \in Nat, (o % BYTES_PER_PAGE) + k < BYTES_PER_PAGE
  PROVE  /\ PageOf(o + k) = PageOf(o)
         /\ (o + k) % BYTES_PER_PAGE = (o % BYTES_PER_PAGE) + k
<1> DEFINE q == PageOf(o)
           m == o % BYTES_PER_PAGE
<1>1. q \in Nat /\ m \in 0 .. BYTES_PER_PAGE - 1 /\ o = BYTES_PER_PAGE * q + m
  BY DivMod
<1>2. m + k < BYTES_PER_PAGE
  OBVIOUS
<1> HIDE DEF q, m
<1>3. o + k = BYTES_PER_PAGE * q + (m + k) /\ m + k \in 0 .. BYTES_PER_PAGE - 1
  BY <1>1, <1>2, NvmAssumption
<1>4. PageOf(o + k) = q /\ ((o + k) % BYTES_PER_PAGE) = m + k
  BY <1>1, <1>3, Placed
<1> QED BY <1>4 DEF q, m

LEMMA EarlierPage ==
  ASSUME NEW o \in Nat, NEW p \in Nat, o < p, p % BYTES_PER_PAGE = 0
  PROVE  PageOf(o) < PageOf(p)
<1> DEFINE q == PageOf(o)
           r == PageOf(p)
           m == o % BYTES_PER_PAGE
<1>1. /\ q \in Nat /\ m \in 0 .. BYTES_PER_PAGE - 1 /\ o = BYTES_PER_PAGE * q + m
      /\ r \in Nat /\ p = BYTES_PER_PAGE * r + (p % BYTES_PER_PAGE)
  BY DivMod
<1>2. q <= r
  BY PageMono
<1> HIDE DEF q, r, m
<1>3. p = BYTES_PER_PAGE * r
  BY <1>1, NvmAssumption
<1>4. q # r
  BY <1>1, <1>3, NvmAssumption
<1>5. q < r
  BY <1>1, <1>2, <1>4
<1> QED BY <1>5 DEF q, r

LEMMA NextPage ==
  ASSUME NEW o \in Nat
  PROVE  (o + (BYTES_PER_PAGE - (o % BYTES_PER_PAGE))) % BYTES_PER_PAGE = 0
<1> DEFINE q == PageOf(o)
           m == o % BYTES_PER_PAGE
           n == o + (BYTES_PER_PAGE - m)
<1>1. q \in Nat /\ m \in 0 .. BYTES_PER_PAGE - 1 /\ o = BYTES_PER_PAGE * q + m
  BY DivMod
<1> HIDE DEF q, m
<1>2. n = BYTES_PER_PAGE * (q + 1) + 0 /\ n \in Nat /\ q + 1 \in Nat /\ 0 \in 0 .. BYTES_PER_PAGE - 1
  BY <1>1, NvmAssumption
<1> HIDE DEF n
<1>3. n % BYTES_PER_PAGE = 0
  BY <1>2, Placed
<1> QED BY <1>3 DEF n, m

(* The driver computes the block from the offset and from the page. *)
LEMMA BlockOfPageOf ==
  ASSUME NEW o \in Nat PROVE BlockOfPage(PageOf(o)) = BlockOf(o)
<1> DEFINE q == PageOf(o)
           m == o % BYTES_PER_PAGE
           h == 2048
<1>1. q \in Nat /\ m \in 0 .. BYTES_PER_PAGE - 1 /\ o = BYTES_PER_PAGE * q + m
  BY DivMod
<1>2. h \in Nat
  OBVIOUS
<1> HIDE DEF q, m, h
<1>3. q < h => BYTES_PER_PAGE * q + BYTES_PER_PAGE <= BYTES_PER_PAGE * h
  BY <1>1, <1>2, Times
<1>4. h < q => BYTES_PER_PAGE * h + BYTES_PER_PAGE <= BYTES_PER_PAGE * q
  BY <1>1, <1>2, Times
<1>5. q >= h <=> o >= BYTES_PER_PAGE * h
  BY <1>1, <1>2, <1>3, <1>4, NvmAssumption
<1>6. NVM1_BOTTOM_OFFSET = BYTES_PER_PAGE * h
  BY NvmAssumption DEF NVM1_BOTTOM_OFFSET, PAGES_PER_BLOCK, h
<1>7. NVM1_BOTTOM_OFFSET \in Nat
  BY NvmAssumption DEF NVM1_BOTTOM_OFFSET, PAGES_PER_BLOCK
<1>8. BlockOfPage(q) = IF q >= h THEN 1 ELSE 0
  BY DEF BlockOfPage, PAGES_PER_BLOCK, h
<1> QED BY <1>1, <1>5, <1>6, <1>7, <1>8 DEF BlockOf, q

(* What is written to a page: at least a byte, not over its end nor over   *)
(* that of the data, and all up to one of the two.                         *)
LEMMA Remaining ==
  ASSUME NEW o \in Nat, NEW n \in Nat \ {0}
  PROVE  LET w == get_remaining_page_length(o, n)
         IN  /\ w \in Nat \ {0} /\ w <= n /\ (o % BYTES_PER_PAGE) + w <= BYTES_PER_PAGE
             /\ w = n \/ w = BYTES_PER_PAGE - (o % BYTES_PER_PAGE)
<1> DEFINE w == get_remaining_page_length(o, n)
<1>1. w = IF PageOf(o + n) >= PageOf(o) + 1 THEN BYTES_PER_PAGE - (o % BYTES_PER_PAGE) ELSE n
  BY DEF get_remaining_page_length, PageOf
<1>2. o = BYTES_PER_PAGE * PageOf(o) + (o % BYTES_PER_PAGE)
  BY DivMod
<1>3. o + n = BYTES_PER_PAGE * PageOf(o + n) + ((o + n) % BYTES_PER_PAGE)
  BY DivMod
<1>4. /\ PageOf(o) \in Nat /\ (o % BYTES_PER_PAGE) \in 0 .. BYTES_PER_PAGE - 1
      /\ PageOf(o + n) \in Nat /\ ((o + n) % BYTES_PER_PAGE) \in 0 .. BYTES_PER_PAGE - 1
      /\ PageOf(o) <= PageOf(o + n)
  BY DivMod, PageMono
<1>5. CASE PageOf(o + n) >= PageOf(o) + 1
  <2>1. BYTES_PER_PAGE * PageOf(o) + BYTES_PER_PAGE <= BYTES_PER_PAGE * PageOf(o + n)
    BY <1>4, <1>5, Times
  <2> QED BY <1>1, <1>2, <1>3, <1>4, <1>5, <2>1, NvmAssumption
<1>6. CASE ~(PageOf(o + n) >= PageOf(o) + 1)
  <2>1. PageOf(o + n) = PageOf(o)
    BY <1>4, <1>6
  <2> QED BY <1>1, <1>2, <1>3, <1>4, <1>6, <2>1, NvmAssumption
<1> QED BY <1>5, <1>6

LEMMA Quotient ==
  ASSUME NEW n \in Nat, NEW d \in Nat \ {0}
  PROVE  n \div d \in Nat /\ (n \div d) * d <= n /\ n < (n \div d) * d + d
<1>1. n \div d \in Nat
  BY SMT
<1>2. n = d * (n \div d) + (n % d) /\ n % d \in 0 .. d - 1
  BY SMT
<1> QED BY <1>1, <1>2

(* The new contents of WD: the data where they go, around them what the    *)
(* page holds, whatever WD held.                                           *)
LEMMA Filled ==
  ASSUME NEW wd \in Bytes, NEW old \in Bytes, NEW first \in 0 .. BYTES_PER_PAGE - 1,
         NEW length \in Nat \ {0}, first + length <= BYTES_PER_PAGE, NEW done \in Nat,
         calls \in Nat
  PROVE  LET new == fill_wd_buffer(wd, old, first, length, done)
         IN  /\ new \in Bytes
             /\ \A i \in 0 .. BYTES_PER_PAGE - 1 :
                  new[i] = IF i >= first /\ i < first + length
                           THEN <<calls, done + i - first + 1>> ELSE old[i]
<1> DEFINE W == NB_OF_BYTES_IN_A_WORD
           end == (first + length) % BYTES_PER_PAGE
           front == WordsUpto(first) * W
           back == (end \div W) * W
           new == fill_wd_buffer(wd, old, first, length, done)
<1>1. front >= first
  <2>1. W \in Nat \ {0} /\ first + W - 1 \in Nat
    BY NvmAssumption
  <2>2. first + W - 1 < ((first + W - 1) \div W) * W + W
    BY <2>1, Quotient
  <2>3. front = ((first + W - 1) \div W) * W /\ front \in Int
    BY <2>1, Quotient DEF WordsUpto
  <2> HIDE DEF front
  <2> QED BY <2>1, <2>2, <2>3
<1>2. first + length < BYTES_PER_PAGE => back <= first + length
  <2>1. SUFFICES ASSUME first + length < BYTES_PER_PAGE PROVE back <= first + length
    OBVIOUS
  <2>2. end = first + length
    BY <2>1, NvmAssumption, SMT
  <2> QED BY <2>2, Quotient, NvmAssumption
<1>3. new = [i \in 0 .. BYTES_PER_PAGE - 1 |->
               IF i >= first /\ i < first + length THEN <<calls, done + i - first + 1>>
               ELSE IF length # BYTES_PER_PAGE /\ (i < front \/ i >= back) THEN old[i] ELSE wd[i]]
  BY DEF fill_wd_buffer, Bytes
<1>4. /\ front \in Int /\ back \in Int
  <2>1. end \in Nat BY NvmAssumption, SMT
  <2>2. end \div W \in Nat BY <2>1, Quotient, NvmAssumption
  <2>3. (first + W - 1) \div W \in Nat BY Quotient, NvmAssumption
  <2> QED BY <2>2, <2>3, NvmAssumption DEF WordsUpto
<1> HIDE DEF front, back, new
<1>5. ASSUME NEW i \in 0 .. BYTES_PER_PAGE - 1
      PROVE  new[i] = IF i >= first /\ i < first + length
                      THEN <<calls, done + i - first + 1>> ELSE old[i]
  <2>1. CASE i >= first /\ i < first + length
    BY <1>3, <2>1
  <2>2. CASE ~(i >= first /\ i < first + length)
    <3>1. length # BYTES_PER_PAGE /\ (i < front \/ i >= back)
      BY <1>1, <1>2, <1>4, <2>2, NvmAssumption
    <3> QED BY <1>3, <2>2, <3>1
  <2> QED BY <2>1, <2>2
<1>6. new \in Bytes
  <2>1. ASSUME NEW i \in 0 .. BYTES_PER_PAGE - 1 PROVE new[i] \in Int \X Int
    <3>1. <<calls, done + i - first + 1>> \in Int \X Int
      BY NvmAssumption
    <3>2. old[i] \in Int \X Int
      BY DEF Bytes
    <3> QED BY <1>5, <3>1, <3>2
  <2> QED BY <1>3, <2>1 DEF Bytes
<1> QED BY <1>5, <1>6 DEF new

(* Every page has its contents. *)
LEMMA ContentTyped ==
  ASSUME TypeOK, NEW p
  PROVE  Content(p) \in Bytes
BY DEF TypeOK, Content, OldPage, Bytes

LEMMA ReadTyped ==
  ASSUME TypeOK, NEW p
  PROVE  ReadPage(p) \in Bytes
<1>1. [i \in DOMAIN OldPage |-> Unknown] \in Bytes
  BY DEF OldPage, Unknown, Bytes
<1> QED BY <1>1, ContentTyped DEF ReadPage

(* The place of a call in the flash. *)
LEMMA HereTyped ==
  ASSUME TypeOK
  PROVE  /\ Here \in Nat /\ Page \in Nat /\ Here % BYTES_PER_PAGE \in 0 .. BYTES_PER_PAGE - 1
         /\ Unlocked \in Nat \ {0} /\ BlockOfPage(Page) \in 0 .. 1
<1>1. Here \in Nat
  BY DEF TypeOK, CallSet, Here
<1>2. Page \in Nat /\ Here % BYTES_PER_PAGE \in 0 .. BYTES_PER_PAGE - 1
  BY <1>1, DivMod DEF Page
<1>3. Unlocked \in Nat \ {0}
  BY <1>2, NvmAssumption DEF Unlocked
<1> QED BY <1>1, <1>2, <1>3 DEF BlockOfPage

LEMMA WrittenTyped ==
  ASSUME TypeOK, call.done < call.length
  PROVE  /\ Written \in Nat \ {0} /\ Written <= call.length - call.done
         /\ (Here % BYTES_PER_PAGE) + Written <= BYTES_PER_PAGE
         /\ Written = call.length - call.done \/ Written = Unlocked
<1>1. call.length - call.done \in Nat \ {0}
  BY DEF TypeOK, CallSet
<1> QED BY <1>1, HereTyped, Remaining DEF Written, Unlocked

-----------------------------------------------------------------------------
(* Types. *)
LEMMA Checked ==
  ASSUME NEW o, NEW n
  PROVE  check_protection_reserved_nvm(o, n) \in
           {"SUCCESS", "PROTECTION_ERROR", "INVALID_PARAMETER"}
BY Zenon DEF check_protection_reserved_nvm

LEMMA OffsetTyped == ASSUME NEW a \in Nat PROVE Offset(a) \in Nat
<1>1. NVM_TOP_OFFSET + 1 \in Nat \ {0}
  BY NvmAssumption DEF NVM_TOP_OFFSET, NVM1_BOTTOM_OFFSET, PAGES_PER_BLOCK
<1> HIDE DEF NVM_TOP_OFFSET
<1> QED BY <1>1 DEF Offset

LEMMA ProceedTyped ==
  ASSUME NEW c \in Calls, NEW n \in Nat,
         NEW status \in {"SUCCESS", "PROTECTION_ERROR", "INVALID_PARAMETER"}
  PROVE  Proceed(c, n, status) \in CallSet
<1>1. Offset(c.start_addr) \in Nat /\ c.op \in {"write", "unlock", "count"}
  BY CallAssumption, OffsetTyped
<1>2. Needs(Offset(c.start_addr), n) \in {<< >>, <<0>>, <<1>>, <<0, 1>>}
  BY DEF Needs
<1>3. status \in Statuses
  BY DEF Statuses, Good
<1>4. Idle \in CallSet
  BY DEF Idle, CallSet, Statuses, Good
<1> DEFINE at == IF status = "SUCCESS" THEN "access" ELSE "restore"
<1>5. at \in {"access", "restore"}
  OBVIOUS
<1>6. Proceed(c, n, status) =
        [Idle EXCEPT !.at = at, !.op = c.op, !.offset = Offset(c.start_addr), !.length = n,
                     !.status = status, !.blocks = Needs(Offset(c.start_addr), n)]
  BY DEF Proceed
<1> HIDE DEF at
<1> QED BY <1>1, <1>2, <1>3, <1>4, <1>5, <1>6 DEF CallSet

LEMMA WriteTyped ==
  ASSUME TypeOK, NEW c \in Calls, NVM_write(c)
  PROVE  TypeOK'
<1>1. PICK status \in {"SUCCESS", "PROTECTION_ERROR", "INVALID_PARAMETER"},
           lock \in Nat, warn \in BOOLEAN :
        call' = [Proceed(c, c.length, status) EXCEPT !.lock = lock, !.warn = warn]
  <2> DEFINE offset  == Offset(c.start_addr)
             invalid == BadAddress(c.start_addr) \/ c.length = 0 \/ c.lock_page > 2
             status  == IF invalid THEN "INVALID_PARAMETER"
                        ELSE check_protection_reserved_nvm(offset, c.length)
             lock    == IF device.first THEN 0 ELSE c.lock_page
             flag    == ~invalid /\ DoNotLock(offset)
             refused == lock = 1 /\ LockRefused(flag, offset, c.length)
  <2>1. status \in {"SUCCESS", "PROTECTION_ERROR", "INVALID_PARAMETER"}
    BY Checked
  <2>2. lock \in Nat /\ (IF refused THEN 0 ELSE lock) \in Nat
    BY CallAssumption
  <2>3. call' = [Proceed(c, c.length, status) EXCEPT
                   !.lock = IF refused THEN 0 ELSE lock, !.warn = refused]
    BY DEF NVM_write
  <2>4. refused \in BOOLEAN
    OBVIOUS
  <2> HIDE DEF status, lock, refused
  <2> QED BY <2>1, <2>2, <2>3, <2>4
<1>2. call' \in CallSet
  <2>1. Proceed(c, c.length, status) \in CallSet
    BY ProceedTyped, CallAssumption
  <2> QED BY <1>1, <2>1 DEF CallSet
<1>3. g_do_not_lock_page' \in BOOLEAN
  BY DEF NVM_write
<1> QED BY <1>2, <1>3 DEF TypeOK, NVM_write, Begin

LEMMA UnlockTyped ==
  ASSUME TypeOK, NEW c \in Calls, NVM_unlock(c)
  PROVE  TypeOK'
<1>1. call' \in CallSet
  BY ProceedTyped, CallAssumption, Checked DEF NVM_unlock
<1> QED BY <1>1 DEF TypeOK, NVM_unlock, Begin, DoNotLock

LEMMA CountTyped ==
  ASSUME TypeOK, NEW c \in Calls, NVM_read_page_write_count(c)
  PROVE  TypeOK'
<1> DEFINE status == IF BadAddress(c.start_addr) THEN "INVALID_PARAMETER"
                     ELSE check_protection_reserved_nvm(Offset(c.start_addr), 0)
<1>1. status \in {"SUCCESS", "PROTECTION_ERROR", "INVALID_PARAMETER"}
  BY Checked
<1>2. Proceed(c, 1, status) \in CallSet
  BY <1>1, ProceedTyped
<1>3. call' = Proceed(c, 1, status)
  BY DEF NVM_read_page_write_count
<1> HIDE DEF status
<1>4. call' \in CallSet
  BY <1>2, <1>3 DEF CallSet
<1> QED BY <1>4 DEF TypeOK, NVM_read_page_write_count, Begin

LEMMA RequestTyped ==
  ASSUME TypeOK, Held, request_nvm_access
  PROVE  TypeOK'
<1> DEFINE b == Head(call.blocks)
<1>1. call.blocks \in {<<0>>, <<1>>, <<0, 1>>}
  BY DEF TypeOK, Held, request_nvm_access, Needs
<1>2. b \in 0 .. 1 /\ Tail(call.blocks) \in {<< >>, <<1>>}
  <2>1. CASE call.blocks = <<0>>
    BY <2>1
  <2>2. CASE call.blocks = <<1>>
    BY <2>2
  <2>3. CASE call.blocks = <<0, 1>>
    BY <2>3
  <2> QED BY <1>1, <2>1, <2>2, <2>3
<1> HIDE DEF b
<1>3. CASE /\ REQ_ACCESS' = [REQ_ACCESS EXCEPT ![b] = "m3"]
           /\ g_envm_ctrl_locks' = g_envm_ctrl_locks \cup {b}
           /\ call' = [call EXCEPT !.blocks = Tail(@), !.tries = 0,
                                   !.at = IF Len(call.blocks) = 1 THEN "page" ELSE "access"]
  <2> DEFINE at == IF Len(call.blocks) = 1 THEN "page" ELSE "access"
             rest == Tail(call.blocks)
  <2>1. call' = [call EXCEPT !.blocks = rest, !.tries = 0, !.at = at]
    BY <1>3
  <2>2. at \in {"page", "access"} /\ rest \in {<< >>, <<1>>} /\ call \in CallSet
    BY <1>2 DEF TypeOK
  <2> HIDE DEF at, rest
  <2>3. call' \in CallSet
    BY <2>1, <2>2, ZenonT(60) DEF CallSet
  <2> QED BY <1>2, <1>3, <2>3 DEF TypeOK, request_nvm_access
<1>4. CASE /\ call' = [call EXCEPT !.tries = Counted(@)]
           /\ UNCHANGED <<REQ_ACCESS, g_envm_ctrl_locks>>
  <2>1. call' \in CallSet
    BY <1>4 DEF TypeOK, CallSet, Counted
  <2> QED BY <1>4, <2>1 DEF TypeOK, request_nvm_access
<1>5. CASE /\ WhenRefused
           /\ call' = [call EXCEPT !.status = "IN_USE_BY_OTHER_MASTER", !.at = "restore"]
  <2>1. call' \in CallSet
    BY <1>5 DEF TypeOK, CallSet, Statuses
  <2> QED BY <1>5, <2>1 DEF TypeOK, request_nvm_access, WhenRefused, release_ctrl_access
<1> QED BY <1>3, <1>4, <1>5 DEF request_nvm_access, b

LEMMA CommandTyped ==
  ASSUME TypeOK, NEW b \in 0 .. 1, NEW c \in ControllerSet, NEW page \in Nat,
         NEW cmd \in {"PROG", "UNLOCK_PROG", "VERIFY", "READ"}, Command(b, c, cmd, page)
  PROVE  ctrl' \in [0 .. 1 -> ControllerSet]
<1>1. [c EXCEPT !.cmd = cmd, !.page = page, !.busy = TRUE, !.valid = FALSE,
                !.status = @ \cap {"DENIED"}] \in ControllerSet
  BY DEF ControllerSet
<1> QED BY <1>1 DEF Command, TypeOK

LEMMA EndTyped ==
  ASSUME TypeOK, NEW bits \in SUBSET Bits, NEW size \in Nat
  PROVE  EndOfPage(bits, size) \in CallSet
<1> DEFINE status == IF bits = {} THEN call.status ELSE get_error_code(bits)
           more   == status \in Good /\ call.done + size < call.length
           at     == IF more THEN "page" ELSE "release"
           new    == [call EXCEPT !.status = status, !.done = @ + size, !.at = at]
<1>1. status \in Statuses
  BY DEF TypeOK, CallSet, Statuses, Good, get_error_code
<1>2. EndOfPage(bits, size) = new
  BY DEF EndOfPage, Good
<1>3. at \in {"page", "release"}
  OBVIOUS
<1> HIDE DEF status, at
<1>4. call \in CallSet /\ call.done + size \in Nat
  BY DEF TypeOK, CallSet
<1>5. new \in CallSet
  BY <1>1, <1>3, <1>4 DEF CallSet
<1> QED BY <1>2, <1>5

LEMMA Waiting ==
  ASSUME NEW k \in CallSet PROVE [k EXCEPT !.at = "wait", !.reads = 0] \in CallSet
<1>1. [k EXCEPT !.at = "wait"] \in CallSet
  BY DEF CallSet
<1>2. \A l \in CallSet : [l EXCEPT !.reads = 0] \in CallSet
  BY DEF CallSet
<1>3. [k EXCEPT !.at = "wait", !.reads = 0] = [[k EXCEPT !.at = "wait"] EXCEPT !.reads = 0]
  BY DEF CallSet
<1> QED BY <1>1, <1>2, <1>3

(* The command that writes a page: from where WD and the lock bit come.    *)
LEMMA Programmed ==
  ASSUME TypeOK, Position, ProgramPage
  PROVE  LET b == BlockOfPage(Page)
         IN  \E wd \in Bytes :
               /\ Command(b, [DeniedCleared(ctrl[b]) EXCEPT !.wd = wd, !.lock = call.lock],
                          IF call.op = "write" THEN "PROG" ELSE "UNLOCK_PROG", Page)
               /\ \A i \in 0 .. BYTES_PER_PAGE - 1 :
                    wd[i] = IF call.op = "write" /\ i >= Here % BYTES_PER_PAGE
                                 /\ i < (Here % BYTES_PER_PAGE) + Written
                            THEN <<calls, call.done + i - (Here % BYTES_PER_PAGE) + 1>>
                            ELSE ReadPage(Page)[i]
<1> DEFINE b == BlockOfPage(Page)
           c == DeniedCleared(ctrl[b])
           filled == fill_wd_buffer(c.wd, ReadPage(Page), Here % BYTES_PER_PAGE, Written, call.done)
           wd == IF call.op = "write" THEN filled ELSE ReadPage(Page)
<1>1. Command(b, [c EXCEPT !.wd = wd, !.lock = call.lock],
              IF call.op = "write" THEN "PROG" ELSE "UNLOCK_PROG", Page)
  BY DEF ProgramPage
<1>2. c.wd \in Bytes
  BY HereTyped DEF TypeOK, ControllerSet, DeniedCleared
<1>3. call.done < call.length
  BY DEF ProgramPage, Position
<1>4. calls \in Nat /\ call.done \in Nat
  BY DEF TypeOK, CallSet
<1>5. /\ filled \in Bytes
      /\ \A i \in 0 .. BYTES_PER_PAGE - 1 :
           filled[i] = IF i >= Here % BYTES_PER_PAGE /\ i < (Here % BYTES_PER_PAGE) + Written
                       THEN <<calls, call.done + i - (Here % BYTES_PER_PAGE) + 1>>
                       ELSE ReadPage(Page)[i]
  <2>1. /\ Here % BYTES_PER_PAGE \in 0 .. BYTES_PER_PAGE - 1 /\ Written \in Nat \ {0}
        /\ (Here % BYTES_PER_PAGE) + Written <= BYTES_PER_PAGE
    BY <1>3, HereTyped, WrittenTyped
  <2>2. ReadPage(Page) \in Bytes
    BY ReadTyped
  <2> HIDE DEF c
  <2> DEFINE first == Here % BYTES_PER_PAGE
             old == ReadPage(Page)
             len == Written
             done == call.done
             from == c.wd
  <2>3. /\ first \in 0 .. BYTES_PER_PAGE - 1 /\ len \in Nat \ {0} /\ done \in Nat
        /\ first + len <= BYTES_PER_PAGE /\ old \in Bytes /\ from \in Bytes
    BY <1>2, <1>4, <2>1, <2>2
  <2>4. filled = fill_wd_buffer(from, old, first, len, done)
    OBVIOUS
  <2> HIDE DEF first, old, len, done, from
  <2>5. /\ filled \in Bytes
        /\ \A i \in 0 .. BYTES_PER_PAGE - 1 :
             filled[i] = IF i >= first /\ i < first + len THEN <<calls, done + i - first + 1>>
                         ELSE old[i]
    BY <1>4, <2>3, <2>4, Filled
  <2> QED BY <2>5 DEF first, old, len, done
<1>6. wd \in Bytes
  BY <1>5, ReadTyped
<1>7. ASSUME NEW i \in 0 .. BYTES_PER_PAGE - 1
      PROVE  wd[i] = IF call.op = "write" /\ i >= Here % BYTES_PER_PAGE
                          /\ i < (Here % BYTES_PER_PAGE) + Written
                     THEN <<calls, call.done + i - (Here % BYTES_PER_PAGE) + 1>>
                     ELSE ReadPage(Page)[i]
  <2> HIDE DEF filled
  <2>1. CASE call.op = "write"
    BY <1>5, <2>1
  <2>2. CASE call.op # "write"
    BY <2>2
  <2> QED BY <2>1, <2>2
<1> HIDE DEF c, wd
<1> QED BY <1>1, <1>6, <1>7 DEF c

LEMMA ProgramTyped ==
  ASSUME TypeOK, Position, ProgramPage
  PROVE  TypeOK'
<1> DEFINE b == BlockOfPage(Page)
           cmd == IF call.op = "write" THEN "PROG" ELSE "UNLOCK_PROG"
<1>1. b \in 0 .. 1 /\ Page \in Nat
  BY HereTyped
<1>2. PICK wd \in Bytes :
        Command(b, [DeniedCleared(ctrl[b]) EXCEPT !.wd = wd, !.lock = call.lock], cmd, Page)
  BY Programmed
<1>3. cmd \in {"PROG", "UNLOCK_PROG", "VERIFY", "READ"}
  OBVIOUS
<1> HIDE DEF b, cmd
<1>4. [DeniedCleared(ctrl[b]) EXCEPT !.wd = wd, !.lock = call.lock] \in ControllerSet
  <2>1. ctrl[b] \in ControllerSet /\ call.lock \in Nat
    BY <1>1 DEF TypeOK, CallSet
  <2>2. DeniedCleared(ctrl[b]) \in ControllerSet
    BY <2>1 DEF DeniedCleared, ControllerSet
  <2> QED BY <2>1, <2>2 DEF ControllerSet
<1>5. ctrl' \in [0 .. 1 -> ControllerSet]
  BY <1>1, <1>2, <1>3, <1>4, CommandTyped
<1>6. call' \in CallSet
  <2>1. call' = [call EXCEPT !.at = "wait", !.reads = 0] /\ call \in CallSet
    BY DEF ProgramPage, TypeOK
  <2> QED BY <2>1, Waiting
<1> QED BY <1>5, <1>6 DEF TypeOK, ProgramPage

LEMMA ReadCountTyped ==
  ASSUME TypeOK, ReadCount
  PROVE  TypeOK'
<1> DEFINE b == BlockOf(call.offset)
<1>1. b \in 0 .. 1 /\ Page \in Nat
  BY HereTyped DEF BlockOf
<1>2. Command(b, [ctrl[b] EXCEPT !.aux = TRUE], "READ", Page)
  BY DEF ReadCount
<1> HIDE DEF b
<1>3. [ctrl[b] EXCEPT !.aux = TRUE] \in ControllerSet
  BY <1>1 DEF TypeOK, ControllerSet
<1>4. ctrl' \in [0 .. 1 -> ControllerSet]
  BY <1>1, <1>2, <1>3, CommandTyped
<1>5. call' \in CallSet
  <2>1. call' = [call EXCEPT !.at = "wait", !.reads = 0] /\ call \in CallSet
    BY DEF ReadCount, TypeOK
  <2> QED BY <2>1, Waiting
<1> QED BY <1>4, <1>5 DEF TypeOK, ReadCount

LEMMA WaitTyped ==
  ASSUME TypeOK, Position, wait_nvm_ready
  PROVE  TypeOK'
<1> DEFINE b == BlockOfPage(Page)
           c == ctrl[b]
<1>1. b \in 0 .. 1 /\ Page \in Nat
  BY HereTyped
<1>2. c \in ControllerSet /\ ctrl \in [0 .. 1 -> ControllerSet]
  BY <1>1 DEF TypeOK
<1>3. SUFFICES call' \in CallSet /\ ctrl' \in [0 .. 1 -> ControllerSet]
  BY DEF TypeOK, wait_nvm_ready
<1> HIDE DEF b
<1>4. CASE /\ call.reads + 1 < ReadsReady
           /\ call' = [call EXCEPT !.reads = @ + 1] /\ ctrl' = [ctrl EXCEPT ![b].valid = TRUE]
  <2>1. call' \in CallSet
    BY <1>4 DEF TypeOK, CallSet, ReadsReady
  <2> QED BY <1>1, <1>2, <1>4, <2>1 DEF ControllerSet
<1>5. CASE /\ Command(b, c, "VERIFY", Page) /\ call' = [call EXCEPT !.reads = 0]
  <2>1. call' \in CallSet
    <3>1. call' = [call EXCEPT !.reads = 0] /\ call \in CallSet
      BY <1>5 DEF TypeOK
    <3> QED BY <3>1 DEF CallSet
  <2> QED BY <1>1, <1>2, <1>5, <2>1, CommandTyped
<1>6. CASE \E bits \in Seen(c) : call' = EndOfPage(bits, Written) /\ UNCHANGED ctrl
  <2>1. \A bits \in Seen(c) : bits \in SUBSET Bits
    BY <1>2 DEF Seen, ControllerSet
  <2>2. Written \in Nat
    BY WrittenTyped DEF wait_nvm_ready, Position
  <2> QED BY <1>2, <1>6, <2>1, <2>2, EndTyped
<1>7. CASE \E bits \in Seen(c) : call' = EndOfPage(bits, Unlocked) /\ UNCHANGED ctrl
  <2>1. \A bits \in Seen(c) : bits \in SUBSET Bits
    BY <1>2 DEF Seen, ControllerSet
  <2> QED BY <1>2, <1>7, <2>1, HereTyped, EndTyped
<1>8. CASE Go("release") /\ ctrl' = [ctrl EXCEPT ![b].aux = FALSE]
  <2>1. call' \in CallSet
    BY <1>8 DEF TypeOK, CallSet, Go
  <2> QED BY <1>1, <1>2, <1>8, <2>1 DEF ControllerSet
<1> QED BY <1>4, <1>5, <1>6, <1>7, <1>8 DEF wait_nvm_ready, b

LEMMA FinishTyped ==
  ASSUME TypeOK, NEW b \in 0 .. 1, Finish(b)
  PROVE  TypeOK'
<1> DEFINE c == ctrl[b]
           programs(bits) == c.cmd \in {"PROG", "UNLOCK_PROG"} /\ bits \subseteq {"WRCNT_OVER"}
<1>1. PICK bits \in SUBSET Bits :
        /\ flash' = IF programs(bits)
                    THEN [p \in DOMAIN flash \cup {c.page} |-> IF p = c.page THEN c.wd ELSE flash[p]]
                    ELSE flash
        /\ locked' = IF ~programs(bits) THEN locked
                     ELSE IF c.lock = 1 THEN locked \cup {c.page} ELSE locked \ {c.page}
        /\ ctrl' = [ctrl EXCEPT ![b] = [c EXCEPT !.busy = FALSE, !.status = @ \cup bits]]
        /\ outcomes' = outcomes \cup bits
  BY DEF Finish, Bits
<1>2. c \in ControllerSet
  BY DEF TypeOK
<1>3. DOMAIN flash' \subseteq Nat /\ flash' \in [DOMAIN flash' -> Bytes]
  <2>1. CASE programs(bits)
    <3>1. flash' = [p \in DOMAIN flash \cup {c.page} |-> IF p = c.page THEN c.wd ELSE flash[p]]
      BY <1>1, <2>1
    <3> HIDE DEF c, programs
    <3> QED BY <1>2, <3>1 DEF TypeOK, ControllerSet
  <2>2. CASE ~programs(bits)
    BY <1>1, <2>2 DEF TypeOK
  <2> QED BY <2>1, <2>2
<1>4. locked' \subseteq Nat
  <2> HIDE DEF programs, c
  <2> QED BY <1>1, <1>2 DEF TypeOK, ControllerSet
<1>5. ctrl' \in [0 .. 1 -> ControllerSet]
  BY <1>1, <1>2 DEF TypeOK, ControllerSet
<1> QED BY <1>1, <1>3, <1>4, <1>5 DEF TypeOK, Finish

LEMMA FabricTyped ==
  ASSUME TypeOK, NEW b \in 0 .. 1, FabricTakes(b) \/ FabricWrites(b) \/ FabricGives(b)
  PROVE  TypeOK'
<1>1. CASE FabricTakes(b)
  BY <1>1 DEF TypeOK, FabricTakes
<1>2. CASE FabricWrites(b)
  <2>1. Page \in Nat
    BY HereTyped
  <2>2. [i \in DOMAIN OldPage |-> <<99, 99>>] \in Bytes
    BY DEF OldPage, Bytes
  <2>3. DOMAIN flash' \subseteq Nat /\ flash' \in [DOMAIN flash' -> Bytes]
    BY <1>2, <2>1, <2>2 DEF TypeOK, FabricWrites
  <2> QED BY <1>2, <2>3 DEF TypeOK, FabricWrites
<1>3. CASE FabricGives(b)
  BY <1>3 DEF TypeOK, FabricGives
<1> QED BY <1>1, <1>2, <1>3

LEMMA TypingNext ==
  ASSUME TypeOK, Held, Position, [NvmNext]_nvm
  PROVE  TypeOK'
<1>1. CASE Release
  BY <1>1 DEF TypeOK, Release, release_ctrl_access, Go, CallSet
<1>2. CASE Return
  <2>1. call' \in CallSet
    BY <1>2 DEF TypeOK, Return, CallSet, Statuses
  <2> QED BY <1>2, <2>1 DEF TypeOK, Return
<1>3. CASE UNCHANGED nvm
  BY <1>3 DEF TypeOK, nvm
<1> QED BY <1>1, <1>2, <1>3, WriteTyped, UnlockTyped, CountTyped, RequestTyped, ProgramTyped,
           ReadCountTyped, WaitTyped, FinishTyped, FabricTyped DEF NvmNext, Driver

-----------------------------------------------------------------------------
(* The start of a call: it finds the driver idle, and goes on when it is   *)
(* allowed to.                                                             *)
Starts == \E c \in Calls : NVM_write(c) \/ NVM_unlock(c) \/ NVM_read_page_write_count(c)

LEMMA SameCheck ==
  ASSUME device' = device
  PROVE  check_protection_reserved_nvm(call.offset, call.length)' =
           check_protection_reserved_nvm(call'.offset, call'.length)
BY DEF check_protection_reserved_nvm, Layout, Touches, PageOf, Last

LEMMA Started ==
  ASSUME TypeOK, Starts
  PROVE  /\ call.at = "idle" /\ call'.at \in {"access", "restore"}
         /\ call'.op \in {"write", "unlock", "count"}
         /\ call'.done = 0
         /\ call'.blocks = Needs(call'.offset, call'.length)
         /\ call'.at = "access" =>
              /\ call'.length > 0 /\ call'.status = "SUCCESS"
              /\ call'.op = "count" => call'.length = 1
              /\ call'.op # "count" =>
                   check_protection_reserved_nvm(call'.offset, call'.length) = "SUCCESS"
         /\ call'.lock = 1 => /\ ~device.first /\ call'.op = "write"
                              /\ ~LockRefused(FALSE, call'.offset, call'.length)
         /\ call'.op = "count" => UNCHANGED envmCr
         /\ outcomes' = {}
         /\ UNCHANGED <<device, REQ_ACCESS, flash, locked, ctrl, g_envm_ctrl_locks>>
<1> PICK c \in Calls : NVM_write(c) \/ NVM_unlock(c) \/ NVM_read_page_write_count(c)
  BY DEF Starts
<1>1. c.length \in Nat /\ c.op \in {"write", "unlock", "count"}
  BY CallAssumption
<1>2. CASE NVM_write(c)
  <2> DEFINE offset  == Offset(c.start_addr)
             invalid == BadAddress(c.start_addr) \/ c.length = 0 \/ c.lock_page > 2
             status  == IF invalid THEN "INVALID_PARAMETER"
                        ELSE check_protection_reserved_nvm(offset, c.length)
             lock    == IF device.first THEN 0 ELSE c.lock_page
             flag    == ~invalid /\ DoNotLock(offset)
             refused == lock = 1 /\ LockRefused(flag, offset, c.length)
             locks   == IF refused THEN 0 ELSE lock
  <2>1. call' = [Proceed(c, c.length, status) EXCEPT !.lock = locks, !.warn = refused]
    BY <1>2 DEF NVM_write
  <2>2. status = "SUCCESS" =>
          /\ c.length > 0 /\ check_protection_reserved_nvm(offset, c.length) = "SUCCESS"
    BY <1>1
  <2>3. locks = 1 => ~device.first /\ ~LockRefused(FALSE, offset, c.length)
    BY DEF LockRefused
  <2>4. c.op = "write" /\ Begin(c)
    BY <1>2 DEF NVM_write
  <2> HIDE DEF offset, status, locks, refused
  <2>5. /\ call'.at = IF status = "SUCCESS" THEN "access" ELSE "restore"
        /\ call'.op = "write" /\ call'.offset = offset /\ call'.length = c.length
        /\ call'.lock = locks /\ call'.done = 0 /\ call'.status = status
        /\ call'.blocks = Needs(offset, c.length)
    BY <2>1, <2>4 DEF Proceed, Idle, offset
  <2> QED BY <2>2, <2>3, <2>4, <2>5 DEF Begin
<1>3. CASE NVM_unlock(c)
  <2> DEFINE offset  == Offset(c.start_addr)
             invalid == BadAddress(c.start_addr) \/ c.length = 0
             status  == IF invalid THEN "INVALID_PARAMETER"
                        ELSE check_protection_reserved_nvm(offset, c.length)
  <2>1. call' = Proceed(c, c.length, status)
    BY <1>3 DEF NVM_unlock
  <2>2. status = "SUCCESS" =>
          /\ c.length > 0 /\ check_protection_reserved_nvm(offset, c.length) = "SUCCESS"
    BY <1>1
  <2>3. c.op = "unlock" /\ Begin(c)
    BY <1>3 DEF NVM_unlock
  <2> HIDE DEF offset, status
  <2>4. /\ call'.at = IF status = "SUCCESS" THEN "access" ELSE "restore"
        /\ call'.op = "unlock" /\ call'.offset = offset /\ call'.length = c.length
        /\ call'.lock = 0 /\ call'.done = 0 /\ call'.status = status
        /\ call'.blocks = Needs(offset, c.length)
    BY <2>1, <2>3 DEF Proceed, Idle, offset
  <2> QED BY <2>2, <2>3, <2>4 DEF Begin
<1>4. CASE NVM_read_page_write_count(c)
  <2> DEFINE offset  == Offset(c.start_addr)
             status  == IF BadAddress(c.start_addr) THEN "INVALID_PARAMETER"
                        ELSE check_protection_reserved_nvm(offset, 0)
  <2>1. call' = Proceed(c, 1, status)
    BY <1>4 DEF NVM_read_page_write_count
  <2>2. c.op = "count" /\ Begin(c) /\ UNCHANGED envmCr
    BY <1>4 DEF NVM_read_page_write_count
  <2> HIDE DEF offset, status
  <2>3. /\ call'.at = IF status = "SUCCESS" THEN "access" ELSE "restore"
        /\ call'.op = "count" /\ call'.offset = offset /\ call'.length = 1
        /\ call'.lock = 0 /\ call'.done = 0 /\ call'.status = status
        /\ call'.blocks = Needs(offset, 1)
    BY <2>1, <2>2 DEF Proceed, Idle, offset
  <2> QED BY <2>2, <2>3 DEF Begin
<1> QED BY <1>2, <1>3, <1>4

(* The blocks asked for are those that hold the bytes. *)
LEMMA Needed ==
  ASSUME TypeOK
  PROVE  \/ Needs(call.offset, call.length) = <<0>> /\ Blocks = {0}
         \/ Needs(call.offset, call.length) = <<1>> /\ Blocks = {1}
         \/ Needs(call.offset, call.length) = <<0, 1>> /\ Blocks = {0, 1}
<1> DEFINE o == call.offset
           l == Last(o, call.length)
<1>1. o \in Nat /\ l \in Nat /\ o <= l
  BY DEF TypeOK, CallSet, Last
<1>2. NVM1_BOTTOM_OFFSET \in Nat
  BY NvmAssumption DEF NVM1_BOTTOM_OFFSET, PAGES_PER_BLOCK
<1>3. Blocks = {b \in 0 .. 1 : BlockOf(o) <= b /\ b <= BlockOf(l)}
  BY DEF Blocks
<1>4. Needs(o, call.length) = IF o >= NVM1_BOTTOM_OFFSET THEN <<1>>
                              ELSE IF l >= NVM1_BOTTOM_OFFSET THEN <<0, 1>> ELSE <<0>>
  BY DEF Needs
<1> HIDE DEF o, l
<1>5. CASE o >= NVM1_BOTTOM_OFFSET
  <2>1. BlockOf(o) = 1 /\ BlockOf(l) = 1
    BY <1>1, <1>2, <1>5 DEF BlockOf
  <2> QED BY <1>3, <1>4, <1>5, <2>1 DEF o
<1>6. CASE o < NVM1_BOTTOM_OFFSET /\ l >= NVM1_BOTTOM_OFFSET
  <2>1. BlockOf(o) = 0 /\ BlockOf(l) = 1
    BY <1>1, <1>2, <1>6 DEF BlockOf
  <2> QED BY <1>1, <1>2, <1>3, <1>4, <1>6, <2>1 DEF o
<1>7. CASE o < NVM1_BOTTOM_OFFSET /\ l < NVM1_BOTTOM_OFFSET
  <2>1. BlockOf(o) = 0 /\ BlockOf(l) = 0
    BY <1>1, <1>2, <1>7 DEF BlockOf
  <2> QED BY <1>1, <1>2, <1>3, <1>4, <1>7, <2>1 DEF o
<1> QED BY <1>1, <1>2, <1>5, <1>6, <1>7

(* Behind its start, a call stays what it is. *)
Kept == /\ call'.offset = call.offset /\ call'.length = call.length /\ call'.op = call.op
        /\ call'.lock = call.lock

LEMMA EndOfPageKept ==
  ASSUME TypeOK, NEW bits, NEW size \in Nat, call' = EndOfPage(bits, size)
  PROVE  /\ Kept /\ call'.done = call.done + size
         /\ call'.status = IF bits = {} THEN call.status ELSE get_error_code(bits)
         /\ call'.at = IF call'.status \in Good /\ call'.done < call.length
                       THEN "page" ELSE "release"
<1> DEFINE status == IF bits = {} THEN call.status ELSE get_error_code(bits)
           more   == status \in Good /\ call.done + size < call.length
           at     == IF more THEN "page" ELSE "release"
<1>1. call' = [call EXCEPT !.status = status, !.done = call.done + size, !.at = at]
  BY DEF EndOfPage, Good
<1>2. call \in CallSet
  BY DEF TypeOK
<1> HIDE DEF status, at
<1>3. /\ Kept /\ call'.done = call.done + size /\ call'.status = status /\ call'.at = at
  BY <1>1, <1>2 DEF CallSet, Kept
<1> QED BY <1>3 DEF status, at

(* What a look at STATUS does. *)
LEMMA Waited ==
  ASSUME TypeOK, Position, wait_nvm_ready
  PROVE  LET b == BlockOfPage(Page)
             c == ctrl[b]
         IN  /\ call.at = "wait" /\ ~c.busy /\ Kept
             /\ \/ /\ call'.at = "wait" /\ call'.reads = 1 /\ call'.done = call.done
                   /\ call'.status = call.status
                   /\ ctrl' = [ctrl EXCEPT ![b] = [c EXCEPT !.valid = TRUE]]
                \/ /\ call.reads = 1 /\ c.cmd = "PROG"
                   /\ \E bits \in Seen(c) : bits \cap WRITE_ERROR_MASK = {}
                   /\ call'.at = "wait" /\ call'.reads = 0 /\ call'.done = call.done
                   /\ call'.status = call.status
                   /\ Command(b, c, "VERIFY", Page)
                \/ /\ call.reads = 1 /\ UNCHANGED ctrl
                   /\ \E bits \in Seen(c) :
                        \/ /\ c.cmd \in {"PROG", "VERIFY"} /\ call' = EndOfPage(bits, Written)
                           /\ c.cmd = "PROG" => bits \cap WRITE_ERROR_MASK # {}
                        \/ c.cmd = "UNLOCK_PROG" /\ call' = EndOfPage(bits, Unlocked)
                \/ /\ call.reads = 1 /\ c.cmd = "READ" /\ call'.at = "release" /\ call'.done = call.done
                   /\ call'.status = call.status
                   /\ ctrl' = [ctrl EXCEPT ![b] = [c EXCEPT !.aux = FALSE]]
<1> DEFINE b == BlockOfPage(Page)
           c == ctrl[b]
<1>1. call \in CallSet /\ call.reads \in 0 .. 1
  BY DEF TypeOK, CallSet
<1>2. Written \in Nat /\ Unlocked \in Nat
  BY HereTyped, WrittenTyped DEF wait_nvm_ready, Position
<1>3. call.at = "wait" /\ ~c.busy
  BY DEF wait_nvm_ready
<1> HIDE DEF b
<1>4. CASE /\ call.reads + 1 < ReadsReady
           /\ call' = [call EXCEPT !.reads = @ + 1]
           /\ ctrl' = [ctrl EXCEPT ![b].valid = TRUE]
  <2>1. call.reads = 0
    BY <1>1, <1>4 DEF ReadsReady
  <2>2. call' = [call EXCEPT !.reads = 1]
    BY <1>4, <2>1
  <2>3. /\ call'.at = "wait" /\ call'.reads = 1 /\ call'.done = call.done
        /\ call'.status = call.status /\ Kept
    BY <1>1, <1>3, <2>2 DEF CallSet, Kept
  <2> QED BY <1>3, <1>4, <2>3 DEF b
<1>5. ASSUME call.reads + 1 = ReadsReady, NEW bits \in Seen(c),
             \/ /\ c.cmd = "PROG" /\ bits \cap WRITE_ERROR_MASK = {}
                /\ Command(b, c, "VERIFY", Page)
                /\ call' = [call EXCEPT !.reads = 0]
             \/ /\ c.cmd \in {"PROG", "VERIFY"}
                /\ c.cmd = "PROG" => bits \cap WRITE_ERROR_MASK # {}
                /\ call' = EndOfPage(bits, Written)
                /\ UNCHANGED ctrl
             \/ /\ c.cmd = "UNLOCK_PROG"
                /\ call' = EndOfPage(bits, Unlocked)
                /\ UNCHANGED ctrl
             \/ /\ c.cmd = "READ"
                /\ Go("release")
                /\ ctrl' = [ctrl EXCEPT ![b].aux = FALSE]
      PROVE  /\ Kept
             /\ \/ /\ call.reads = 1 /\ c.cmd = "PROG" /\ bits \cap WRITE_ERROR_MASK = {}
                   /\ call'.at = "wait" /\ call'.reads = 0 /\ call'.done = call.done
                   /\ call'.status = call.status
                   /\ Command(b, c, "VERIFY", Page)
                \/ /\ call.reads = 1 /\ UNCHANGED ctrl
                   /\ \/ /\ c.cmd \in {"PROG", "VERIFY"} /\ call' = EndOfPage(bits, Written)
                         /\ c.cmd = "PROG" => bits \cap WRITE_ERROR_MASK # {}
                      \/ c.cmd = "UNLOCK_PROG" /\ call' = EndOfPage(bits, Unlocked)
                \/ /\ call.reads = 1 /\ c.cmd = "READ" /\ call'.at = "release" /\ call'.done = call.done
                   /\ call'.status = call.status
                   /\ ctrl' = [ctrl EXCEPT ![b] = [c EXCEPT !.aux = FALSE]]
  <2>1. call.reads = 1
    BY <1>1, <1>5 DEF ReadsReady
  <2>2. CASE /\ c.cmd = "PROG" /\ bits \cap WRITE_ERROR_MASK = {}
             /\ Command(b, c, "VERIFY", Page)
             /\ call' = [call EXCEPT !.reads = 0]
    <3>1. /\ call'.at = "wait" /\ call'.reads = 0 /\ call'.done = call.done
          /\ call'.status = call.status /\ Kept
      BY <1>1, <1>3, <2>2 DEF CallSet, Kept
    <3> QED BY <2>1, <2>2, <3>1
  <2>3. CASE /\ c.cmd \in {"PROG", "VERIFY"}
             /\ c.cmd = "PROG" => bits \cap WRITE_ERROR_MASK # {}
             /\ call' = EndOfPage(bits, Written)
             /\ UNCHANGED ctrl
    BY <1>2, <2>1, <2>3, EndOfPageKept
  <2>4. CASE /\ c.cmd = "UNLOCK_PROG"
             /\ call' = EndOfPage(bits, Unlocked)
             /\ UNCHANGED ctrl
    BY <1>2, <2>1, <2>4, EndOfPageKept
  <2>5. CASE /\ c.cmd = "READ" /\ Go("release")
             /\ ctrl' = [ctrl EXCEPT ![b].aux = FALSE]
    <3>1. /\ call'.at = "release" /\ call'.done = call.done
          /\ call'.status = call.status /\ Kept
      BY <1>1, <2>5 DEF CallSet, Kept, Go
    <3> QED BY <2>1, <2>5, <3>1
  <2> QED BY <1>5, <2>2, <2>3, <2>4, <2>5
<1> HIDE DEF c
<1>6. \/ /\ call.reads + 1 < ReadsReady
         /\ call' = [call EXCEPT !.reads = @ + 1]
         /\ ctrl' = [ctrl EXCEPT ![b].valid = TRUE]
      \/ /\ call.reads + 1 = ReadsReady
         /\ \E bits \in Seen(c) :
              \/ /\ c.cmd = "PROG" /\ bits \cap WRITE_ERROR_MASK = {}
                 /\ Command(b, c, "VERIFY", Page)
                 /\ call' = [call EXCEPT !.reads = 0]
              \/ /\ c.cmd \in {"PROG", "VERIFY"}
                 /\ c.cmd = "PROG" => bits \cap WRITE_ERROR_MASK # {}
                 /\ call' = EndOfPage(bits, Written)
                 /\ UNCHANGED ctrl
              \/ /\ c.cmd = "UNLOCK_PROG"
                 /\ call' = EndOfPage(bits, Unlocked)
                 /\ UNCHANGED ctrl
              \/ /\ c.cmd = "READ"
                 /\ Go("release")
                 /\ ctrl' = [ctrl EXCEPT ![b].aux = FALSE]
  BY Zenon DEF wait_nvm_ready, b, c
<1>7. CASE /\ call.reads + 1 = ReadsReady
           /\ \E bits \in Seen(c) :
                \/ /\ c.cmd = "PROG" /\ bits \cap WRITE_ERROR_MASK = {}
                   /\ Command(b, c, "VERIFY", Page)
                   /\ call' = [call EXCEPT !.reads = 0]
                \/ /\ c.cmd \in {"PROG", "VERIFY"}
                   /\ c.cmd = "PROG" => bits \cap WRITE_ERROR_MASK # {}
                   /\ call' = EndOfPage(bits, Written)
                   /\ UNCHANGED ctrl
                \/ /\ c.cmd = "UNLOCK_PROG"
                   /\ call' = EndOfPage(bits, Unlocked)
                   /\ UNCHANGED ctrl
                \/ /\ c.cmd = "READ"
                   /\ Go("release")
                   /\ ctrl' = [ctrl EXCEPT ![b].aux = FALSE]
  BY <1>3, <1>5, <1>7 DEF b, c
<1> QED BY <1>4, <1>6, <1>7 DEF b, c

(* What the other steps do to the call. *)
LEMMA ProgramKept ==
  ASSUME TypeOK, ProgramPage \/ ReadCount
  PROVE  /\ Kept /\ call'.at = "wait" /\ call'.reads = 0 /\ call'.done = call.done
         /\ call'.status = call.status
<1>1. call' = [call EXCEPT !.at = "wait", !.reads = 0] /\ call \in CallSet
  BY DEF TypeOK, ProgramPage, ReadCount
<1> QED BY <1>1 DEF CallSet, Kept

LEMMA ReleaseKept ==
  ASSUME TypeOK, Release \/ Return
  PROVE  /\ Kept /\ call'.done = call.done
         /\ call'.at = IF call.at = "release" THEN "restore" ELSE "idle"
         /\ call.at \in {"release", "restore"}
BY DEF TypeOK, CallSet, Kept, Release, Return, Go

LEMMA RequestKept ==
  ASSUME TypeOK, Held, request_nvm_access
  PROVE  LET b == Head(call.blocks)
         IN  /\ Kept /\ call.at = "access" /\ call'.done = call.done /\ b \in Blocks
             /\ \/ /\ g_envm_ctrl_locks' = g_envm_ctrl_locks \cup {b}
                   /\ REQ_ACCESS' = [REQ_ACCESS EXCEPT ![b] = "m3"]
                   /\ call'.status = call.status
                   /\ \/ call'.at = "page" /\ g_envm_ctrl_locks' = Blocks
                      \/ /\ call'.at = "access" /\ call'.blocks = <<1>> /\ b = 0
                         /\ g_envm_ctrl_locks = {}
                         /\ Needs(call.offset, call.length) = <<0, 1>>
                \/ /\ call'.at = "access" /\ call'.blocks = call.blocks
                   /\ call'.status = call.status
                   /\ UNCHANGED <<REQ_ACCESS, g_envm_ctrl_locks>>
                \/ /\ call'.at = "restore" /\ g_envm_ctrl_locks' = {}
                   /\ REQ_ACCESS' = [x \in 0 .. 1 |-> IF x \in g_envm_ctrl_locks THEN "none"
                                                      ELSE REQ_ACCESS[x]]
<1> DEFINE b == Head(call.blocks)
<1>1. \/ /\ call.blocks = <<0>> /\ Blocks = {0} /\ g_envm_ctrl_locks = {}
      \/ /\ call.blocks = <<1>> /\ Blocks = {1} /\ g_envm_ctrl_locks = {}
      \/ /\ call.blocks = <<0, 1>> /\ Blocks = {0, 1} /\ g_envm_ctrl_locks = {}
         /\ Needs(call.offset, call.length) = <<0, 1>>
      \/ /\ call.blocks = <<1>> /\ Blocks = {0, 1} /\ g_envm_ctrl_locks = {0}
  <2>1. call.at = "access"
    BY DEF request_nvm_access
  <2>2. CASE call.blocks = Needs(call.offset, call.length) /\ g_envm_ctrl_locks = {}
    BY <2>2, Needed
  <2>3. CASE /\ call.blocks = <<1>> /\ g_envm_ctrl_locks = {0}
             /\ Needs(call.offset, call.length) = <<0, 1>>
    <3>1. Blocks = {0, 1}
      <4>1. <<0, 1>> # <<0>> /\ <<0, 1>> # <<1>>
        OBVIOUS
      <4> QED BY <2>3, <4>1, Needed
    <3> QED BY <2>3, <3>1
  <2> QED BY <2>1, <2>2, <2>3 DEF Held
<1>2. /\ b \in Blocks
      /\ Len(call.blocks) = 1 => g_envm_ctrl_locks \cup {b} = Blocks
      /\ Len(call.blocks) # 1 => /\ b = 0 /\ Tail(call.blocks) = <<1>> /\ g_envm_ctrl_locks = {}
                                 /\ Needs(call.offset, call.length) = <<0, 1>>
  <2>1. CASE call.blocks = <<0>> /\ Blocks = {0} /\ g_envm_ctrl_locks = {}
    BY <2>1
  <2>2. CASE call.blocks = <<1>> /\ Blocks = {1} /\ g_envm_ctrl_locks = {}
    BY <2>2
  <2>3. CASE /\ call.blocks = <<0, 1>> /\ Blocks = {0, 1} /\ g_envm_ctrl_locks = {}
             /\ Needs(call.offset, call.length) = <<0, 1>>
    BY <2>3
  <2>4. CASE call.blocks = <<1>> /\ Blocks = {0, 1} /\ g_envm_ctrl_locks = {0}
    BY <2>4
  <2> QED BY <1>1, <2>1, <2>2, <2>3, <2>4
<1>3. call \in CallSet /\ call.at = "access"
  BY DEF TypeOK, request_nvm_access
<1> HIDE DEF b
<1>4. CASE /\ REQ_ACCESS' = [REQ_ACCESS EXCEPT ![b] = "m3"]
           /\ g_envm_ctrl_locks' = g_envm_ctrl_locks \cup {b}
           /\ call' = [call EXCEPT !.blocks = Tail(@), !.tries = 0,
                                   !.at = IF Len(call.blocks) = 1 THEN "page" ELSE "access"]
  <2> DEFINE at == IF Len(call.blocks) = 1 THEN "page" ELSE "access"
  <2>1. call' = [call EXCEPT !.blocks = Tail(call.blocks), !.tries = 0, !.at = at]
    BY <1>4
  <2> HIDE DEF at
  <2>2. /\ call'.at = at /\ call'.blocks = Tail(call.blocks) /\ call'.done = call.done
        /\ call'.status = call.status /\ Kept
    BY <1>3, <2>1 DEF CallSet, Kept
  <2> QED BY <1>2, <1>3, <1>4, <2>2 DEF b, at
<1>5. CASE /\ call' = [call EXCEPT !.tries = Counted(@)]
           /\ UNCHANGED <<REQ_ACCESS, g_envm_ctrl_locks>>
  <2>1. /\ call'.at = "access" /\ call'.blocks = call.blocks /\ call'.done = call.done
        /\ call'.status = call.status /\ Kept
    BY <1>3, <1>5 DEF CallSet, Kept
  <2> QED BY <1>2, <1>3, <1>5, <2>1 DEF b
<1>6. CASE /\ WhenRefused
           /\ call' = [call EXCEPT !.status = "IN_USE_BY_OTHER_MASTER", !.at = "restore"]
  <2>1. call'.at = "restore" /\ call'.done = call.done /\ Kept
    BY <1>3, <1>6 DEF CallSet, Kept
  <2> QED BY <1>2, <1>3, <1>6, <2>1 DEF b, WhenRefused, release_ctrl_access
<1> QED BY <1>4, <1>5, <1>6 DEF request_nvm_access, b

Others == \E b \in 0 .. 1 : Finish(b) \/ FabricTakes(b) \/ FabricWrites(b) \/ FabricGives(b)

LEMMA Cases ==
  ASSUME [NvmNext]_nvm
  PROVE  Starts \/ Driver \/ Others \/ UNCHANGED nvm
BY DEF NvmNext, Starts, Others

LEMMA OthersKept ==
  ASSUME Others \/ UNCHANGED nvm
  PROVE  UNCHANGED <<call, device, g_envm_ctrl_locks, calls, envmCr, g_do_not_lock_page>>
BY DEF Others, Finish, FabricTakes, FabricWrites, FabricGives, nvm

LEMMA BlocksKept == ASSUME Kept PROVE Blocks' = Blocks
BY DEF Kept, Blocks, BlockOf, Last

-----------------------------------------------------------------------------
LEMMA HeldNext ==
  ASSUME TypeOK, Held, Position, [NvmNext]_nvm
  PROVE  Held'
<1>1. CASE Starts
  BY <1>1, Started DEF Held
<1>2. CASE request_nvm_access
  <2> DEFINE b == Head(call.blocks)
  <2>1. Kept /\ call.at = "access" /\ b \in Blocks
    BY <1>2, RequestKept
  <2>2. Blocks' = Blocks /\ b \in 0 .. 1
    BY <2>1, BlocksKept DEF Blocks
  <2>3. Needs(call.offset, call.length)' = Needs(call.offset, call.length)
    BY <2>1 DEF Kept, Needs, Last
  <2>4. CASE /\ g_envm_ctrl_locks' = g_envm_ctrl_locks \cup {b}
             /\ REQ_ACCESS' = [REQ_ACCESS EXCEPT ![b] = "m3"]
             /\ \/ call'.at = "page" /\ g_envm_ctrl_locks' = Blocks
                \/ /\ call'.at = "access" /\ call'.blocks = <<1>> /\ b = 0
                   /\ g_envm_ctrl_locks = {}
                   /\ Needs(call.offset, call.length) = <<0, 1>>
    <3> HIDE DEF b
    <3>1. \A x \in 0 .. 1 : x \in g_envm_ctrl_locks' <=> REQ_ACCESS'[x] = "m3"
      BY <2>2, <2>4 DEF Held, TypeOK
    <3> QED BY <2>2, <2>3, <2>4, <3>1 DEF Held
  <2>5. CASE /\ call'.at = "access" /\ call'.blocks = call.blocks
             /\ UNCHANGED <<REQ_ACCESS, g_envm_ctrl_locks>>
    BY <2>1, <2>2, <2>3, <2>5 DEF Held, Kept
  <2>6. CASE /\ call'.at = "restore" /\ g_envm_ctrl_locks' = {}
             /\ REQ_ACCESS' = [x \in 0 .. 1 |-> IF x \in g_envm_ctrl_locks THEN "none"
                                                ELSE REQ_ACCESS[x]]
    BY <2>6 DEF Held
  <2> QED BY <1>2, <2>4, <2>5, <2>6, RequestKept
<1>3. CASE ProgramPage \/ ReadCount \/ wait_nvm_ready
  <2>1. UNCHANGED <<REQ_ACCESS, g_envm_ctrl_locks>>
    BY <1>3 DEF ProgramPage, ReadCount, wait_nvm_ready
  <2>2. Kept /\ call'.at \in {"page", "wait", "release"} /\ call.at \in {"page", "wait"}
    <3>1. CASE ProgramPage \/ ReadCount
      BY <3>1, ProgramKept DEF ProgramPage, ReadCount
    <3>2. CASE wait_nvm_ready
      <4>1. \A bits : \A size \in Nat : call' = EndOfPage(bits, size) => call'.at \in {"page", "release"}
        BY EndOfPageKept
      <4>2. Unlocked \in Nat /\ Written \in Nat
        BY <3>2, HereTyped, WrittenTyped DEF wait_nvm_ready, Position
      <4> QED BY <3>2, <4>1, <4>2, Waited
    <3> QED BY <1>3, <3>1, <3>2
  <2> QED BY <2>1, <2>2, BlocksKept DEF Held
<1>4. CASE Release
  <2>1. call'.at = "restore"
    BY <1>4, ReleaseKept DEF Release
  <2> QED BY <1>4, <2>1 DEF Held, Release, release_ctrl_access
<1>5. CASE Return
  <2>1. call.at = "restore" /\ call'.at = "idle"
    BY <1>5, ReleaseKept DEF Return
  <2> QED BY <1>5, <2>1 DEF Held, Return
<1>6. CASE Others \/ UNCHANGED nvm
  <2>1. \A b \in 0 .. 1 : REQ_ACCESS[b] = "m3" <=> REQ_ACCESS'[b] = "m3"
    BY <1>6 DEF Others, Finish, FabricTakes, FabricWrites, FabricGives, nvm, TypeOK
  <2>2. Blocks' = Blocks /\ Needs(call.offset, call.length)' = Needs(call.offset, call.length)
    BY <1>6, OthersKept DEF Blocks, BlockOf, Last, Needs
  <2> QED BY <1>6, <2>1, <2>2, OthersKept DEF Held
<1> QED BY <1>1, <1>2, <1>3, <1>4, <1>5, <1>6, Cases DEF Driver

LEMMA HereKept ==
  ASSUME Kept, call'.done = call.done
  PROVE  Here' = Here /\ Page' = Page /\ Written' = Written /\ Unlocked' = Unlocked
<1>1. Here' = Here
  BY DEF Kept, Here
<1> QED BY <1>1 DEF Kept, Page, PageOf, Written, Unlocked, get_remaining_page_length

LEMMA PositionNext ==
  ASSUME TypeOK, Held, Position, Commanded, [NvmNext]_nvm
  PROVE  Position'
<1>1. CASE Starts
  BY <1>1, Started DEF Position
<1>2. CASE request_nvm_access
  <2>1. Kept /\ call.at = "access" /\ call'.done = call.done
    BY <1>2, RequestKept
  <2>2. call.op # "none" /\ call.length > 0 /\ call.done = 0
        /\ (call.op = "count" => call.length = 1)
    BY <2>1 DEF Position
  <2> QED BY <2>1, <2>2 DEF Position, Kept
<1>3. CASE ProgramPage \/ ReadCount
  <2>1. /\ Kept /\ call'.at = "wait" /\ call'.done = call.done /\ Here' = Here
        /\ call.at = "page"
    BY <1>3, ProgramKept, HereKept DEF ProgramPage, ReadCount
  <2> QED BY <2>1 DEF Position, Kept
<1>4. CASE wait_nvm_ready
  <2>1. Kept /\ call.at = "wait"
    BY <1>4, Waited
  <2>2. CASE call'.at \in {"wait", "release"} /\ call'.done = call.done
    BY <2>1, <2>2, HereKept DEF Position, Kept
  <2>3. ASSUME NEW bits, NEW size \in Nat, size = Unlocked \/ size = call.length - call.done,
               call' = EndOfPage(bits, size), call.op # "count"
        PROVE  Position'
    <3>1. /\ call'.done = call.done + size /\ call'.at \in {"page", "release"}
          /\ call'.at = "page" => call'.done < call'.length
      BY <2>3, EndOfPageKept DEF Kept
    <3>2. call'.at = "page" => Here' % BYTES_PER_PAGE = 0
      <4>1. SUFFICES ASSUME call'.at = "page" PROVE Here' % BYTES_PER_PAGE = 0
        OBVIOUS
      <4>2. size = Unlocked
        BY <2>1, <2>3, <3>1, <4>1 DEF Kept, TypeOK, CallSet
      <4>3. Here' = Here + (BYTES_PER_PAGE - (Here % BYTES_PER_PAGE))
        <5>1. Here' = call.offset + (call.done + Unlocked)
          BY <2>1, <3>1, <4>2 DEF Kept, Here
        <5>2. Unlocked \in Nat /\ Unlocked = BYTES_PER_PAGE - (Here % BYTES_PER_PAGE)
          BY HereTyped DEF Unlocked
        <5>3. Here' = Here + Unlocked
          BY <5>1, <5>2 DEF Here, TypeOK, CallSet
        <5> QED BY <5>2, <5>3
      <4> QED BY <4>3, HereTyped, NextPage
    <3>3. call.op # "none" /\ call.length > 0
      BY <2>1 DEF Position
    <3> QED BY <2>1, <2>3, <3>1, <3>2, <3>3 DEF Position, Kept
  <2>4. call.op = "count" => ctrl[BlockOfPage(Page)].cmd = "READ"
    BY <2>1 DEF Commanded
  <2>5. /\ Written \in Nat /\ (Written = Unlocked \/ Written = call.length - call.done)
        /\ Unlocked \in Nat
    BY <2>1, HereTyped, WrittenTyped DEF Position
  <2> QED BY <1>4, <2>2, <2>3, <2>4, <2>5, Waited
<1>5. CASE Release \/ Return
  <2>1. /\ Kept /\ call'.at \in {"restore", "idle"}
    BY <1>5, ReleaseKept
  <2> QED BY <2>1 DEF Position
<1>6. CASE Others \/ UNCHANGED nvm
  BY <1>6, OthersKept DEF Position, Here
<1> QED BY <1>1, <1>2, <1>3, <1>4, <1>5, <1>6, Cases DEF Driver

LEMMA KeptNext ==
  ASSUME TypeOK, Held, Position, [NvmNext]_nvm
  PROVE  /\ device' = device
         /\ \/ Starts
            \/ Kept /\ (call'.at \in {"access", "page", "wait", "release"} =>
                          call.at \in {"access", "page", "wait", "release"})
<1>1. device' = device
  BY DEF NvmNext, Driver, NVM_write, NVM_unlock, NVM_read_page_write_count, Begin,
         request_nvm_access, ProgramPage, ReadCount, wait_nvm_ready, Release, Return,
         Finish, FabricTakes, FabricWrites, FabricGives, nvm
<1>2. CASE request_nvm_access
  BY <1>1, <1>2, RequestKept
<1>3. CASE ProgramPage \/ ReadCount
  BY <1>1, <1>3, ProgramKept DEF ProgramPage, ReadCount
<1>4. CASE wait_nvm_ready
  BY <1>1, <1>4, Waited
<1>5. CASE Release \/ Return
  BY <1>1, <1>5, ReleaseKept
<1>6. CASE Others \/ UNCHANGED nvm
  BY <1>1, <1>6, OthersKept DEF Kept
<1> QED BY <1>1, <1>2, <1>3, <1>4, <1>5, <1>6, Cases DEF Driver

LEMMA PermittedNext ==
  ASSUME TypeOK, Held, Position, Permitted, [NvmNext]_nvm
  PROVE  Permitted'
<1>1. device' = device
  BY KeptNext
<1>2. CASE Starts
  <2>1. call'.lock = 1 => /\ ~device.first /\ device.family # "060" /\ call'.op = "write"
                          /\ device.family = "090/150" =>
                               ~(call'.offset + call'.length > NVM1_BOTTOM_OFFSET)
    BY <1>2, Started DEF LockRefused
  <2>2. NVM1_BOTTOM_OFFSET \in Nat /\ call'.offset \in Nat /\ call'.length \in Nat
    <3>1. call' \in CallSet
      BY TypingNext DEF TypeOK
    <3> QED BY <3>1, NvmAssumption DEF NVM1_BOTTOM_OFFSET, PAGES_PER_BLOCK, CallSet
  <2>3. call'.lock = 1 => /\ ~device.first /\ device.family # "060" /\ call'.op = "write"
                          /\ device.family = "090/150" =>
                               call'.offset + call'.length <= NVM1_BOTTOM_OFFSET
    BY <2>1, <2>2
  <2>4. call'.at # "restore" /\ call'.op # "count" =>
          check_protection_reserved_nvm(call.offset, call.length)' = "SUCCESS"
    BY <1>1, <1>2, Started, SameCheck
  <2> QED BY <1>1, <2>3, <2>4 DEF Permitted, NVM1_BOTTOM_OFFSET, PAGES_PER_BLOCK
<1>3. CASE Kept /\ (call'.at \in {"access", "page", "wait", "release"} =>
                      call.at \in {"access", "page", "wait", "release"})
  <2>1. check_protection_reserved_nvm(call.offset, call.length)' =
          check_protection_reserved_nvm(call.offset, call.length)
    BY <1>1, <1>3, SameCheck DEF Kept
  <2> QED BY <1>1, <1>3, <2>1 DEF Permitted, Kept, NVM1_BOTTOM_OFFSET, PAGES_PER_BLOCK
<1> QED BY <1>2, <1>3, KeptNext

LEMMA CommandedNext ==
  ASSUME TypeOK, Held, Position, Commanded, [NvmNext]_nvm
  PROVE  Commanded'
<1> DEFINE b == BlockOfPage(Page)
<1>0. b \in 0 .. 1
  BY HereTyped
<1>1. CASE Starts
  BY <1>1, Started DEF Commanded
<1>2. CASE request_nvm_access
  <2>1. ctrl' = ctrl /\ call.at = "access" /\ call'.at # "wait"
    BY <1>2, RequestKept DEF request_nvm_access
  <2> QED BY <2>1 DEF Commanded
<1>3. CASE ProgramPage \/ ReadCount
  <2>1. /\ Kept /\ call'.at = "wait" /\ call'.reads = 0 /\ call.at = "page" /\ Page' = Page
    BY <1>3, ProgramKept, HereKept DEF ProgramPage, ReadCount
  <2>2. BlockOfPage(Page)' = b
    BY <2>1 DEF BlockOfPage
  <2>3. CASE ProgramPage
    <3>1. PICK wd \in Bytes :
            Command(b, [DeniedCleared(ctrl[b]) EXCEPT !.wd = wd, !.lock = call.lock],
                    IF call.op = "write" THEN "PROG" ELSE "UNLOCK_PROG", Page)
      BY <2>3, Programmed
    <3> DEFINE c == DeniedCleared(ctrl[b])
               cmd == IF call.op = "write" THEN "PROG" ELSE "UNLOCK_PROG"
    <3>2. c \in ControllerSet /\ c.aux = ctrl[b].aux
      BY <1>0 DEF TypeOK, ControllerSet, DeniedCleared
    <3> HIDE DEF c, b
    <3>3. /\ \A x \in 0 .. 1 \ {b} : ctrl'[x] = ctrl[x]
          /\ ctrl'[b].page = Page /\ ctrl'[b].cmd = cmd /\ ctrl'[b].lock = call.lock
          /\ ctrl'[b].aux = ctrl[b].aux
      BY <1>0, <3>1, <3>2 DEF Command, TypeOK, ControllerSet, c
    <3>4. call.op \in {"write", "unlock"}
      BY <2>3 DEF ProgramPage
    <3>5. \A x \in 0 .. 1 : ~ctrl[x].busy /\ ~ctrl[x].aux
      BY <2>1 DEF Commanded
    <3> QED BY <1>0, <2>1, <2>2, <3>3, <3>4, <3>5 DEF Commanded, Kept
  <2>4. CASE ReadCount
    <3>1. BlockOf(call.offset) = b
      <4>1. call.done = 0 /\ Here = call.offset /\ Here \in Nat
        BY <2>4, HereTyped DEF ReadCount, Position, Here, TypeOK, CallSet
      <4> QED BY <4>1, BlockOfPageOf DEF Page
    <3>2. Command(b, [ctrl[b] EXCEPT !.aux = TRUE], "READ", Page)
      BY <2>4, <3>1 DEF ReadCount
    <3> HIDE DEF b
    <3>3. /\ \A x \in 0 .. 1 \ {b} : ctrl'[x] = ctrl[x]
          /\ ctrl'[b].page = Page /\ ctrl'[b].cmd = "READ"
      BY <1>0, <3>2 DEF Command, TypeOK, ControllerSet
    <3>4. call.op = "count"
      BY <2>4 DEF ReadCount
    <3>5. \A x \in 0 .. 1 : ~ctrl[x].busy /\ ~ctrl[x].aux
      BY <2>1 DEF Commanded
    <3> QED BY <1>0, <2>1, <2>2, <3>3, <3>4, <3>5 DEF Commanded, Kept
  <2> QED BY <1>3, <2>3, <2>4
<1>4. CASE wait_nvm_ready
  <2> DEFINE c == ctrl[b]
  <2>1. call.at = "wait" /\ ~c.busy /\ Kept /\ c \in ControllerSet
    BY <1>0, <1>4, Waited DEF TypeOK
  <2>2. /\ \A x \in 0 .. 1 : ~ctrl[x].busy /\ (ctrl[x].aux => x = b)
        /\ c.page = Page
        /\ call.op = "write"  => c.cmd \in {"PROG", "VERIFY"} /\ c.lock = call.lock
        /\ call.op = "unlock" => c.cmd = "UNLOCK_PROG" /\ c.lock = call.lock
        /\ call.op = "count"  => c.cmd = "READ"
        /\ c.aux => call.op = "count"
    BY <1>0, <2>1 DEF Commanded
  <2>3. call.op \in {"write", "unlock", "count"}
    BY <2>1 DEF Position, TypeOK, CallSet
  <2>4. call'.done = call.done => Page' = Page /\ BlockOfPage(Page)' = b
    BY <2>1, HereKept DEF BlockOfPage
  <2> HIDE DEF b
  <2>5. CASE /\ call'.at = "wait" /\ call'.reads = 1 /\ call'.done = call.done
             /\ ctrl' = [ctrl EXCEPT ![b] = [c EXCEPT !.valid = TRUE]]
    <3>1. /\ \A x \in 0 .. 1 \ {b} : ctrl'[x] = ctrl[x]
          /\ ctrl'[b].page = c.page /\ ctrl'[b].cmd = c.cmd /\ ctrl'[b].lock = c.lock
          /\ ctrl'[b].busy = c.busy /\ ctrl'[b].valid /\ ctrl'[b].aux = c.aux
      BY <1>0, <2>1, <2>5 DEF TypeOK, ControllerSet
    <3> HIDE DEF c
    <3>2. \A x \in 0 .. 1 : ~ctrl'[x].busy /\ (ctrl'[x].aux => x = b /\ call.op = "count")
      <4> TAKE x \in 0 .. 1
      <4>1. CASE x = b BY <2>1, <2>2, <3>1, <4>1
      <4>2. CASE x # b BY <2>1, <2>2, <3>1, <4>2
      <4> QED BY <4>1, <4>2
    <3> QED BY <1>0, <2>1, <2>2, <2>4, <2>5, <3>1, <3>2 DEF Commanded, Kept
  <2>6. CASE /\ c.cmd = "PROG" /\ call'.at = "wait" /\ call'.reads = 0 /\ call'.done = call.done
             /\ Command(b, c, "VERIFY", Page)
    <3>1. /\ \A x \in 0 .. 1 \ {b} : ctrl'[x] = ctrl[x]
          /\ ctrl'[b].page = Page /\ ctrl'[b].cmd = "VERIFY" /\ ctrl'[b].lock = c.lock
          /\ ctrl'[b].aux = c.aux
      BY <1>0, <2>1, <2>6 DEF TypeOK, ControllerSet, Command
    <3> HIDE DEF c
    <3>2. \A x \in 0 .. 1 : (ctrl'[x].busy => x = b) /\ (ctrl'[x].aux => x = b /\ call.op = "count")
      <4> TAKE x \in 0 .. 1
      <4>1. CASE x = b BY <2>1, <2>2, <3>1, <4>1 DEF c
      <4>2. CASE x # b BY <2>1, <2>2, <3>1, <4>2
      <4> QED BY <4>1, <4>2
    <3> QED BY <1>0, <2>1, <2>2, <2>3, <2>4, <2>6, <3>1, <3>2 DEF Commanded, Kept
  <2>7. CASE UNCHANGED ctrl /\ c.cmd # "READ" /\ call'.at \in {"page", "release"}
    BY <2>1, <2>2, <2>3, <2>7 DEF Commanded
  <2>8. CASE call'.at = "release" /\ ctrl' = [ctrl EXCEPT ![b] = [c EXCEPT !.aux = FALSE]]
    <3>1. /\ \A x \in 0 .. 1 \ {b} : ctrl'[x] = ctrl[x]
          /\ ctrl'[b].busy = c.busy /\ ~ctrl'[b].aux
      BY <1>0, <2>1, <2>8 DEF TypeOK, ControllerSet
    <3>2. \A x \in 0 .. 1 : ~ctrl'[x].busy /\ ~ctrl'[x].aux
      BY <2>1, <2>2, <3>1
    <3> QED BY <2>8, <3>2 DEF Commanded
  <2>9. UNCHANGED ctrl /\ (\E bits : \E size \in Nat : call' = EndOfPage(bits, size)) =>
          call'.at \in {"page", "release"}
    BY EndOfPageKept
  <2>10. Written \in Nat /\ Unlocked \in Nat
    BY <2>1, HereTyped, WrittenTyped DEF Position
  <2> HIDE DEF c
  <2> QED BY <1>4, <2>5, <2>6, <2>7, <2>8, <2>9, <2>10, Waited DEF b, c
<1>5. CASE Release \/ Return
  <2>1. call.at \in {"release", "restore"} /\ call'.at \in {"restore", "idle"}
    BY <1>5, ReleaseKept
  <2>2. ctrl' = ctrl
    BY <1>5 DEF Release, Return
  <2> QED BY <2>1, <2>2 DEF Commanded
<1>6. CASE Others \/ UNCHANGED nvm
  <2>1. call' = call
    BY <1>6, OthersKept
  <2>2. Page' = Page /\ BlockOfPage(Page)' = b
    BY <2>1 DEF Page, PageOf, Here, BlockOfPage
  <2>3. CASE ctrl' = ctrl
    BY <2>1, <2>2, <2>3 DEF Commanded
  <2>4. ASSUME NEW x \in 0 .. 1, Finish(x) PROVE Commanded'
    <3>1. PICK bits : ctrl' = [ctrl EXCEPT ![x] = [ctrl[x] EXCEPT !.busy = FALSE, !.status = @ \cup bits]]
      BY <2>4 DEF Finish
    <3>2. ctrl[x] \in ControllerSet /\ ctrl \in [0 .. 1 -> ControllerSet]
      BY DEF TypeOK
    <3>3. /\ \A y \in 0 .. 1 \ {x} : ctrl'[y] = ctrl[y]
          /\ ctrl'[x].page = ctrl[x].page /\ ctrl'[x].cmd = ctrl[x].cmd
          /\ ctrl'[x].lock = ctrl[x].lock /\ ctrl'[x].valid = ctrl[x].valid
          /\ ctrl'[x].aux = ctrl[x].aux /\ ~ctrl'[x].busy
      BY <3>1, <3>2 DEF ControllerSet
    <3>4. x = b /\ call.at = "wait"
      BY <2>4 DEF Finish, Commanded
    <3> HIDE DEF b
    <3> QED BY <2>1, <2>2, <3>3, <3>4 DEF Commanded, b
  <2> QED BY <1>6, <2>3, <2>4 DEF Others, FabricTakes, FabricWrites, FabricGives, nvm
<1> QED BY <1>1, <1>2, <1>3, <1>4, <1>5, <1>6, Cases DEF Driver

(* The driver has the block of every byte while it works on pages. *)
LEMMA BytesHeld ==
  ASSUME TypeOK, Held, call.at \in {"page", "wait", "release"}, NEW i \in 1 .. call.length
  PROVE  /\ call.offset + i - 1 \in Nat /\ PageOf(call.offset + i - 1) \in Nat
         /\ BlockOfPage(PageOf(call.offset + i - 1)) \in g_envm_ctrl_locks
<1> DEFINE o == call.offset + i - 1
           l == Last(call.offset, call.length)
<1>1. /\ o \in Nat /\ l \in Nat /\ call.offset \in Nat /\ call.offset <= o /\ o <= l
  BY DEF TypeOK, CallSet, Last
<1>2. NVM1_BOTTOM_OFFSET \in Nat
  BY NvmAssumption DEF NVM1_BOTTOM_OFFSET, PAGES_PER_BLOCK
<1> HIDE DEF o, l
<1>3. BlockOf(o) \in {b \in 0 .. 1 : BlockOf(call.offset) <= b /\ b <= BlockOf(l)}
  BY <1>1, <1>2 DEF BlockOf
<1>4. BlockOf(o) \in g_envm_ctrl_locks
  BY <1>3 DEF Held, Blocks, l
<1> QED BY <1>1, <1>4, BlockOfPageOf, DivMod DEF o

LEMMA PageHeld ==
  ASSUME TypeOK, Held, Position, call.at \in {"page", "wait"}
  PROVE  BlockOfPage(Page) \in g_envm_ctrl_locks
<1>1. call.done + 1 \in 1 .. call.length /\ call.offset + (call.done + 1) - 1 = Here
  BY DEF TypeOK, CallSet, Position, Here
<1> QED BY <1>1, BytesHeld DEF Page

(* What the command of a page does to it when it ends. *)
LEMMA Finished ==
  ASSUME TypeOK, Commanded, NEW b \in 0 .. 1, Finish(b)
  PROVE  LET c == ctrl[b]
             programs(bits) == c.cmd \in {"PROG", "UNLOCK_PROG"} /\ bits \subseteq {"WRCNT_OVER"}
         IN  /\ b = BlockOfPage(Page) /\ call.at = "wait" /\ c.busy
             /\ UNCHANGED <<call, calls>>
             /\ \E bits \in SUBSET Bits :
                  /\ outcomes' = outcomes \cup bits
                  /\ c.cmd = "PROG" => "WRCNT_OVER" \notin bits
                  /\ c.cmd = "UNLOCK_PROG" => bits \subseteq {"WRCNT_OVER", "WVERIFY_FAIL", "DENIED"}
                  /\ c.cmd = "READ" => bits = {}
                  /\ \A p : Content(p)' = IF programs(bits) /\ p = Page THEN c.wd ELSE Content(p)
                  /\ programs(bits) => \A p \in DOMAIN flash' : flash'[p] = Content(p)'
                  /\ ~programs(bits) => flash' = flash
                  /\ locked' = IF ~programs(bits) THEN locked
                               ELSE IF c.lock = 1 THEN locked \cup {Page} ELSE locked \ {Page}
                  /\ \A x \in 0 .. 1 \ {b} : ctrl'[x] = ctrl[x]
                  /\ ctrl'[b] = [c EXCEPT !.busy = FALSE, !.status = c.status \cup bits]
<1> DEFINE c == ctrl[b]
           programs(bits) == c.cmd \in {"PROG", "UNLOCK_PROG"} /\ bits \subseteq {"WRCNT_OVER"}
<1>1. /\ c.busy /\ UNCHANGED <<call, calls>> /\ c \in ControllerSet
  BY DEF Finish, TypeOK
<1>2. b = BlockOfPage(Page) /\ call.at = "wait"
  BY <1>1 DEF Commanded
<1>3. c.page = Page
  BY <1>2 DEF Commanded
<1>4. PICK bits \in SUBSET Bits :
        /\ CASE c.cmd = "PROG" /\ c.page \in locked -> bits = {"PEFAIL_LOCK"}
             [] c.cmd = "PROG" /\ c.page \notin locked -> bits \in {{}, {"WVERIFY_FAIL"}, {"DENIED"}}
             [] c.cmd = "UNLOCK_PROG" -> bits \in {{}, {"WVERIFY_FAIL"}, {"WRCNT_OVER"}, {"DENIED"}}
             [] c.cmd = "VERIFY" ->
                  bits \in {{}, {"VERIFY_FAIL"}, {"WRCNT_OVER"}, {"VERIFY_FAIL", "WRCNT_OVER"}}
             [] c.cmd = "READ" -> bits = {}
        /\ flash' = IF programs(bits)
                    THEN [p \in DOMAIN flash \cup {c.page} |-> IF p = c.page THEN c.wd ELSE flash[p]]
                    ELSE flash
        /\ locked' = IF ~programs(bits) THEN locked
                     ELSE IF c.lock = 1 THEN locked \cup {c.page} ELSE locked \ {c.page}
        /\ ctrl' = [ctrl EXCEPT ![b] = [c EXCEPT !.busy = FALSE, !.status = @ \cup bits]]
        /\ outcomes' = outcomes \cup bits
  BY DEF Finish, Bits
<1>5. /\ c.cmd = "PROG" => "WRCNT_OVER" \notin bits
      /\ c.cmd = "UNLOCK_PROG" => bits \subseteq {"WRCNT_OVER", "WVERIFY_FAIL", "DENIED"}
      /\ c.cmd = "READ" => bits = {}
  <2> HIDE DEF c
  <2>1. CASE c.cmd = "PROG"
    <3>1. bits \in {{"PEFAIL_LOCK"}, {}, {"WVERIFY_FAIL"}, {"DENIED"}}
      BY <1>4, <2>1
    <3> QED BY <2>1, <3>1
  <2>2. CASE c.cmd = "UNLOCK_PROG"
    <3>1. bits \in {{}, {"WVERIFY_FAIL"}, {"WRCNT_OVER"}, {"DENIED"}}
      BY <1>4, <2>2
    <3> QED BY <2>2, <3>1
  <2>3. CASE c.cmd = "READ"
    BY <1>4, <2>3
  <2> QED BY <2>1, <2>2, <2>3
<1>6. /\ \A x \in 0 .. 1 \ {b} : ctrl'[x] = ctrl[x]
      /\ ctrl'[b] = [c EXCEPT !.busy = FALSE, !.status = c.status \cup bits]
  <2>1. ctrl \in [0 .. 1 -> ControllerSet]
    BY DEF TypeOK
  <2> QED BY <1>4, <2>1
<1>7. CASE programs(bits)
  <2>1. flash' = [p \in DOMAIN flash \cup {Page} |-> IF p = Page THEN c.wd ELSE flash[p]]
    BY <1>3, <1>4, <1>7
  <2>2. locked' = IF c.lock = 1 THEN locked \cup {Page} ELSE locked \ {Page}
    BY <1>3, <1>4, <1>7
  <2> HIDE DEF c
  <2>3. \A p : Content(p)' = IF p = Page THEN c.wd ELSE Content(p)
    BY <2>1 DEF Content, OldPage
  <2>4. \A p \in DOMAIN flash' : flash'[p] = Content(p)'
    BY DEF Content
  <2> QED BY <1>1, <1>2, <1>4, <1>5, <1>6, <1>7, <2>2, <2>3, <2>4 DEF c
<1>8. CASE ~programs(bits)
  <2>1. flash' = flash /\ locked' = locked
    BY <1>4, <1>8
  <2>2. \A p : Content(p)' = Content(p)
    BY <2>1 DEF Content, OldPage
  <2> QED BY <1>1, <1>2, <1>4, <1>5, <1>6, <1>8, <2>1, <2>2
<1> QED BY <1>7, <1>8

(* What the driver does itself leaves the flash alone, and what the other  *)
(* master does, the blocks that the driver has.                            *)
LEMMA DriverLeaves ==
  ASSUME Starts \/ Driver \/ UNCHANGED nvm
  PROVE  flash' = flash /\ locked' = locked /\ \A p : Content(p)' = Content(p)
<1>1. flash' = flash /\ locked' = locked
  BY DEF Starts, Driver, NVM_write, NVM_unlock, NVM_read_page_write_count, Begin,
         request_nvm_access, ProgramPage, ReadCount, wait_nvm_ready, Release, Return, nvm
<1> QED BY <1>1 DEF Content, OldPage

LEMMA FabricLeaves ==
  ASSUME TypeOK, Held, NEW b \in 0 .. 1, FabricTakes(b) \/ FabricWrites(b) \/ FabricGives(b)
  PROVE  /\ UNCHANGED <<call, calls, ctrl, locked, outcomes>>
         /\ \A p : BlockOfPage(p) \in g_envm_ctrl_locks => Content(p)' = Content(p)
<1>1. UNCHANGED <<call, calls, ctrl, locked, outcomes>>
  BY DEF FabricTakes, FabricWrites, FabricGives
<1>2. CASE FabricTakes(b) \/ FabricGives(b)
  <2>1. flash' = flash
    BY <1>2 DEF FabricTakes, FabricGives
  <2> QED BY <1>1, <2>1 DEF Content, OldPage
<1>3. CASE FabricWrites(b)
  <2>1. REQ_ACCESS[b] = "fabric" /\ BlockOfPage(Page) = b
    BY <1>3 DEF FabricWrites
  <2>2. b \notin g_envm_ctrl_locks
    BY <2>1 DEF Held
  <2>3. flash' = [p \in DOMAIN flash \cup {Page} |->
                    IF p = Page THEN [i \in DOMAIN OldPage |-> <<99, 99>>] ELSE flash[p]]
    BY <1>3 DEF FabricWrites
  <2>4. \A p : p # Page => Content(p)' = Content(p)
    BY <2>3 DEF Content, OldPage
  <2> QED BY <1>1, <2>1, <2>2, <2>4
<1> QED BY <1>2, <1>3

(* The access to the flash ends with the command of a page that the driver *)
(* holds.                                                                  *)
LEMMA Commanding ==
  ASSUME TypeOK, NEW b \in 0 .. 1, NEW c \in ControllerSet, NEW cmd, NEW page,
         Command(b, c, cmd, page)
  PROVE  /\ \A x \in 0 .. 1 \ {b} : ctrl'[x] = ctrl[x]
         /\ ctrl'[b].busy /\ ctrl'[b].cmd = cmd /\ ctrl'[b].wd = c.wd
         /\ ctrl'[b].status = c.status \cap {"DENIED"}
<1>1. ctrl' = [ctrl EXCEPT ![b] = [c EXCEPT !.cmd = cmd, !.page = page, !.busy = TRUE,
                                            !.valid = FALSE, !.status = c.status \cap {"DENIED"}]]
  BY DEF Command
<1>2. ctrl \in [0 .. 1 -> ControllerSet]
  BY DEF TypeOK
<1>3. /\ \A x \in 0 .. 1 \ {b} : ctrl'[x] = ctrl[x]
      /\ ctrl'[b] = [c EXCEPT !.cmd = cmd, !.page = page, !.busy = TRUE,
                              !.valid = FALSE, !.status = c.status \cap {"DENIED"}]
  BY <1>1, <1>2
<1> QED BY <1>3 DEF ControllerSet

-----------------------------------------------------------------------------
(* The bits with which the driver ends a page are those of the controller, *)
(* and lead to a status that tells.                                        *)
LEMMA PageEnds ==
  ASSUME TypeOK, Position, Commanded, Reported, wait_nvm_ready, call.reads = 1,
         NEW bits \in Seen(ctrl[BlockOfPage(Page)])
  PROVE  /\ bits = ctrl[BlockOfPage(Page)].status /\ bits \in SUBSET Bits
         /\ call.op # "count" => outcomes = Prior(call.status) \cup bits
<1> DEFINE b == BlockOfPage(Page)
<1>1. call.at = "wait" /\ ~ctrl[b].busy
  BY DEF wait_nvm_ready
<1>2. ctrl[b].valid
  BY <1>1 DEF Commanded
<1>3. ctrl[b] \in ControllerSet
  BY HereTyped DEF TypeOK
<1>4. bits = ctrl[b].status
  BY <1>2 DEF Seen
<1>5. bits \in SUBSET Bits
  BY <1>3, <1>4 DEF ControllerSet
<1>6. call.op # "count" => Ended = ctrl[b].status
  BY <1>1 DEF Ended
<1> QED BY <1>1, <1>4, <1>5, <1>6 DEF Reported

LEMMA ErrorCode ==
  ASSUME NEW bits \in SUBSET Bits, bits # {}
  PROVE  /\ get_error_code(bits) # "SUCCESS"
         /\ get_error_code(bits) = "WRITE_THRESHOLD_WARNING" => bits = {"WRCNT_OVER"}
         /\ get_error_code(bits) # "WRITE_THRESHOLD_WARNING" =>
              bits \cap WRITE_ERROR_MASK # {} /\ get_error_code(bits) \notin Good
BY DEF get_error_code, Bits, WRITE_ERROR_MASK, Good

LEMMA ReportedNext ==
  ASSUME TypeOK, Held, Position, Commanded, Reported, [NvmNext]_nvm
  PROVE  Reported'
<1> DEFINE b == BlockOfPage(Page)
<1>0. b \in 0 .. 1 /\ ctrl[b] \in ControllerSet
  BY HereTyped DEF TypeOK
<1>1. CASE Starts
  BY <1>1, Started DEF Reported
<1>2. CASE request_nvm_access
  <2>1. /\ call.at = "access" /\ outcomes' = outcomes /\ Kept
        /\ \/ call'.at \in {"access", "page"} /\ call'.status = call.status
           \/ call'.at = "restore"
    BY <1>2, RequestKept DEF request_nvm_access
  <2>2. call.status = "SUCCESS" /\ outcomes = {}
    BY <2>1 DEF Reported
  <2> QED BY <2>1, <2>2 DEF Reported, Prior, Good
<1>3. CASE ProgramPage \/ ReadCount
  <2>1. /\ Kept /\ call'.at = "wait" /\ call.at = "page" /\ Page' = Page
        /\ call'.status = call.status /\ outcomes' = outcomes
    BY <1>3, ProgramKept, HereKept DEF ProgramPage, ReadCount
  <2>2. BlockOfPage(Page)' = b
    BY <2>1 DEF BlockOfPage
  <2>3. call.status \in Good /\ outcomes = Prior(call.status)
        /\ (call.op = "count" => call.status = "SUCCESS")
    BY <2>1 DEF Reported
  <2>4. CASE ProgramPage
    <3>1. PICK wd \in Bytes :
            Command(b, [DeniedCleared(ctrl[b]) EXCEPT !.wd = wd, !.lock = call.lock],
                    IF call.op = "write" THEN "PROG" ELSE "UNLOCK_PROG", Page)
      BY <2>4, Programmed
    <3> DEFINE c == [DeniedCleared(ctrl[b]) EXCEPT !.wd = wd, !.lock = call.lock]
    <3>2. c.status \cap {"DENIED"} = {} /\ c \in ControllerSet
      <4>1. /\ DeniedCleared(ctrl[b]) \in ControllerSet
            /\ DeniedCleared(ctrl[b]).status = ctrl[b].status \ {"DENIED"}
        BY <1>0 DEF DeniedCleared, ControllerSet
      <4>2. call.lock \in Nat
        BY DEF TypeOK, CallSet
      <4> QED BY <4>1, <4>2 DEF ControllerSet
    <3>3. ctrl'[b].busy /\ ctrl'[b].status = {}
      <4> HIDE DEF b, c
      <4> QED BY <1>0, <3>1, <3>2, Commanding DEF c
    <3>4. call.op # "count"
      BY <2>4 DEF ProgramPage
    <3>5. Ended' = {}
      BY <2>2, <3>3 DEF Ended
    <3> HIDE DEF b
    <3> QED BY <2>1, <2>2, <2>3, <3>3, <3>4, <3>5 DEF Reported, Kept, Prior
  <2>5. CASE ReadCount
    <3>1. BlockOf(call.offset) = b /\ call.op = "count"
      <4>1. call.done = 0 /\ Here = call.offset /\ Here \in Nat
        BY <2>5, HereTyped DEF ReadCount, Position, Here, TypeOK, CallSet
      <4> QED BY <2>5, <4>1, BlockOfPageOf DEF Page, ReadCount
    <3>2. Command(b, [ctrl[b] EXCEPT !.aux = TRUE], "READ", Page)
      BY <2>5, <3>1 DEF ReadCount
    <3>3. [ctrl[b] EXCEPT !.aux = TRUE] \in ControllerSet
      BY <1>0 DEF ControllerSet
    <3>4. ctrl'[b].cmd = "READ"
      <4> HIDE DEF b
      <4> QED BY <1>0, <3>2, <3>3, Commanding
    <3>5. Ended' = {}
      BY <2>1, <3>1 DEF Ended, Kept
    <3> HIDE DEF b
    <3> QED BY <2>1, <2>2, <2>3, <3>1, <3>4, <3>5 DEF Reported, Kept, Prior
  <2> QED BY <1>3, <2>4, <2>5
<1>4. CASE wait_nvm_ready
  <2> DEFINE c == ctrl[b]
  <2>1. /\ call.at = "wait" /\ ~c.busy /\ Kept /\ outcomes' = outcomes
    BY <1>4, Waited DEF wait_nvm_ready
  <2>2. /\ call.status \in Good /\ outcomes = Prior(call.status) \cup Ended
        /\ call.op = "count" => call.status = "SUCCESS" /\ Ended = {}
        /\ call.op # "count" => Ended = c.status
        /\ c.cmd = "PROG" => "WRCNT_OVER" \notin c.status
        /\ c.cmd = "UNLOCK_PROG" => c.status \subseteq {"WRCNT_OVER", "WVERIFY_FAIL", "DENIED"}
    BY <2>1 DEF Reported, Ended
  <2>3. /\ call.op = "count" <=> c.cmd = "READ"
        /\ call.op \in {"write", "unlock", "count"}
    BY <2>1 DEF Commanded, Position, TypeOK, CallSet
  <2>4. call'.done = call.done => BlockOfPage(Page)' = b
    BY <2>1, HereKept DEF BlockOfPage
  <2> HIDE DEF b
  <2>5. CASE /\ call'.at = "wait" /\ call'.done = call.done /\ call'.status = call.status
             /\ ctrl' = [ctrl EXCEPT ![b] = [c EXCEPT !.valid = TRUE]]
    <3>1. ctrl'[b].status = c.status /\ ctrl'[b].busy = c.busy /\ ctrl'[b].cmd = c.cmd
      BY <1>0, <2>5 DEF TypeOK, ControllerSet
    <3>2. Ended' = Ended
      BY <2>1, <2>4, <2>5, <3>1 DEF Ended, Kept, b
    <3> HIDE DEF c
    <3> QED BY <2>1, <2>2, <2>4, <2>5, <3>1, <3>2 DEF Reported, Kept
  <2>6. CASE /\ c.cmd = "PROG" /\ call.reads = 1
             /\ \E bits \in Seen(c) : bits \cap WRITE_ERROR_MASK = {}
             /\ call'.at = "wait" /\ call'.done = call.done /\ call'.status = call.status
             /\ Command(b, c, "VERIFY", Page)
    <3>1. c.status \cap WRITE_ERROR_MASK = {} /\ c.status \in SUBSET Bits
      BY <1>4, <2>6, PageEnds DEF b
    <3>2. c.status = {}
      BY <2>2, <2>6, <3>1 DEF Bits, WRITE_ERROR_MASK
    <3>3. ctrl'[b].busy /\ ctrl'[b].status = {} /\ ctrl'[b].cmd = "VERIFY"
      BY <1>0, <2>6, <3>2, Commanding
    <3>4. Ended' = {}
      BY <2>4, <2>6, <3>3 DEF Ended
    <3>5. outcomes = Prior(call.status) /\ call.op # "count"
      BY <2>2, <2>3, <2>6, <3>2
    <3> HIDE DEF c
    <3> QED BY <2>1, <2>2, <2>4, <2>6, <3>3, <3>4, <3>5 DEF Reported, Kept
  <2>7. ASSUME NEW bits \in Seen(c), NEW size \in Nat, call.reads = 1, call.op # "count",
               call' = EndOfPage(bits, size)
        PROVE  Reported'
    <3>1. bits \in SUBSET Bits /\ outcomes = Prior(call.status) \cup bits
      BY <1>4, <2>7, PageEnds DEF b
    <3>2. /\ call'.status = IF bits = {} THEN call.status ELSE get_error_code(bits)
          /\ call'.at \in {"page", "release"}
          /\ call'.at = "page" => call'.status \in Good
      BY <2>7, EndOfPageKept
    <3>3. IF call'.status \in Good THEN outcomes = Prior(call'.status)
          ELSE outcomes \cap WRITE_ERROR_MASK # {}
      <4>1. CASE bits = {}
        BY <2>2, <3>1, <3>2, <4>1
      <4>2. CASE bits # {}
        <5>1. CASE get_error_code(bits) = "WRITE_THRESHOLD_WARNING"
          <6>1. bits = {"WRCNT_OVER"}
            BY <3>1, <4>2, <5>1, ErrorCode
          <6>2. outcomes = {"WRCNT_OVER"}
            BY <3>1, <6>1 DEF Prior
          <6> QED BY <3>2, <4>2, <5>1, <6>2 DEF Prior, Good
        <5>2. CASE get_error_code(bits) # "WRITE_THRESHOLD_WARNING"
          BY <3>1, <3>2, <4>2, <5>2, ErrorCode
        <5> QED BY <5>1, <5>2
      <4> QED BY <4>1, <4>2
    <3> QED BY <2>1, <2>7, <3>2, <3>3 DEF Reported, Kept
  <2>8. CASE call'.at = "release" /\ call'.status = call.status /\ call.op = "count"
    BY <2>1, <2>2, <2>8 DEF Reported, Prior, Good
  <2>9. Written \in Nat /\ Unlocked \in Nat
    BY <2>1, HereTyped, WrittenTyped DEF Position
  <2> HIDE DEF c
  <2> QED BY <1>4, <2>3, <2>5, <2>6, <2>7, <2>8, <2>9, Waited DEF b, c
<1>5. CASE Release \/ Return
  BY <1>5, ReleaseKept DEF Reported
<1>6. CASE Others \/ UNCHANGED nvm
  <2>1. call' = call
    BY <1>6, OthersKept
  <2>2. Page' = Page /\ BlockOfPage(Page)' = b
    BY <2>1 DEF Page, PageOf, Here, BlockOfPage
  <2>3. CASE UNCHANGED <<ctrl, outcomes>>
    BY <2>1, <2>2, <2>3 DEF Reported, Ended
  <2>4. ASSUME NEW x \in 0 .. 1, Finish(x) PROVE Reported'
    <3>1. /\ x = b /\ call.at = "wait" /\ ctrl[b].busy
      BY <2>4, Finished
    <3>2. PICK bits \in SUBSET Bits :
            /\ outcomes' = outcomes \cup bits
            /\ ctrl[b].cmd = "PROG" => "WRCNT_OVER" \notin bits
            /\ ctrl[b].cmd = "UNLOCK_PROG" => bits \subseteq {"WRCNT_OVER", "WVERIFY_FAIL", "DENIED"}
            /\ ctrl[b].cmd = "READ" => bits = {}
            /\ ctrl'[b] = [ctrl[b] EXCEPT !.busy = FALSE, !.status = ctrl[b].status \cup bits]
      BY <2>4, <3>1, Finished
    <3>3. ctrl'[b].status = ctrl[b].status \cup bits /\ ~ctrl'[b].busy /\ ctrl'[b].cmd = ctrl[b].cmd
      BY <1>0, <3>2 DEF ControllerSet
    <3>4. /\ call.status \in Good /\ outcomes = Prior(call.status)
          /\ call.op = "count" => call.status = "SUCCESS"
          /\ call.op # "count" => ctrl[b].status = {}
          /\ ctrl[b].cmd = "PROG" => "WRCNT_OVER" \notin ctrl[b].status
          /\ ctrl[b].cmd = "UNLOCK_PROG" =>
               ctrl[b].status \subseteq {"WRCNT_OVER", "WVERIFY_FAIL", "DENIED"}
      BY <3>1 DEF Reported, Ended
    <3>5. call.op = "count" => bits = {}
      BY <3>1, <3>2 DEF Commanded
    <3>6. Ended' = bits
      BY <2>1, <2>2, <3>3, <3>4, <3>5 DEF Ended
    <3> HIDE DEF b
    <3> QED BY <2>1, <2>2, <3>1, <3>2, <3>3, <3>4, <3>5, <3>6 DEF Reported
  <2> QED BY <1>6, <2>3, <2>4 DEF Others, FabricTakes, FabricWrites, FabricGives, nvm
<1> QED BY <1>1, <1>2, <1>3, <1>4, <1>5, <1>6, Cases DEF Driver

-----------------------------------------------------------------------------
(* The place of a byte of the page at hand. *)
LEMMA PlaceInPage ==
  ASSUME TypeOK, NEW i \in 0 .. BYTES_PER_PAGE - 1
  PROVE  Page * BYTES_PER_PAGE + i = Here - (Here % BYTES_PER_PAGE) + i
<1> DEFINE q == PageOf(Here)
           m == Here % BYTES_PER_PAGE
<1>1. Here \in Nat /\ q \in Nat /\ m \in Nat /\ Here = BYTES_PER_PAGE * q + m
  BY HereTyped, DivMod
<1> HIDE DEF q, m
<1>2. q * BYTES_PER_PAGE + i = Here - m + i
  BY <1>1, NvmAssumption
<1> QED BY <1>2 DEF Page, q, m

(* When nothing of a controller moves and the call stays at its page, so   *)
(* does what WD may change.                                                *)
LEMMA NothingBusy ==
  ASSUME \A b \in 0 .. 1 : ctrl'[b].busy => ctrl'[b].cmd \notin {"PROG", "UNLOCK_PROG"}
  PROVE  WithinRange'
BY DEF WithinRange

LEMMA WithinRangeNext ==
  ASSUME TypeOK, Held, Position, Commanded, WithinRange, [NvmNext]_nvm
  PROVE  WithinRange'
<1> DEFINE b == BlockOfPage(Page)
<1>0. b \in 0 .. 1 /\ ctrl \in [0 .. 1 -> ControllerSet]
  BY HereTyped DEF TypeOK
<1>1. CASE call.at # "wait" /\ ctrl' = ctrl
  BY <1>1, NothingBusy DEF Commanded
<1>2. CASE ProgramPage
  <2>1. /\ Kept /\ call.at = "page" /\ Page' = Page /\ calls' = calls
    BY <1>2, ProgramKept, HereKept DEF ProgramPage
  <2>2. \A x \in 0 .. 1 : ~ctrl[x].busy /\ ~ctrl[x].aux
    BY <2>1 DEF Commanded
  <2>3. ReadPage(Page) = Content(Page)
    BY <1>0, <2>2 DEF ReadPage
  <2>4. PICK wd \in Bytes :
          /\ Command(b, [DeniedCleared(ctrl[b]) EXCEPT !.wd = wd, !.lock = call.lock],
                     IF call.op = "write" THEN "PROG" ELSE "UNLOCK_PROG", Page)
          /\ \A i \in 0 .. BYTES_PER_PAGE - 1 :
               wd[i] = IF call.op = "write" /\ i >= Here % BYTES_PER_PAGE
                            /\ i < (Here % BYTES_PER_PAGE) + Written
                       THEN <<calls, call.done + i - (Here % BYTES_PER_PAGE) + 1>>
                       ELSE ReadPage(Page)[i]
    BY <1>2, Programmed
  <2> DEFINE c == [DeniedCleared(ctrl[b]) EXCEPT !.wd = wd, !.lock = call.lock]
  <2>5. c \in ControllerSet /\ c.wd = wd
    <3>1. DeniedCleared(ctrl[b]) \in ControllerSet
      BY <1>0 DEF DeniedCleared, ControllerSet
    <3>2. call.lock \in Nat
      BY DEF TypeOK, CallSet
    <3> QED BY <3>1, <3>2 DEF ControllerSet
  <2> HIDE DEF b, c
  <2>6. ctrl'[b].wd = wd /\ \A x \in 0 .. 1 \ {b} : ~ctrl'[x].busy
    BY <1>0, <2>2, <2>4, <2>5, Commanding DEF c
  <2>7. ASSUME NEW i \in 0 .. BYTES_PER_PAGE - 1
        PROVE  InRange(Page, i) \/ wd[i] = Content(Page)[i]
    <3>1. CASE /\ call.op = "write" /\ i >= Here % BYTES_PER_PAGE
               /\ i < (Here % BYTES_PER_PAGE) + Written
      <4>1. Page * BYTES_PER_PAGE + i = Here - (Here % BYTES_PER_PAGE) + i
        BY PlaceInPage
      <4>2. /\ Written \in Nat /\ Written <= call.length - call.done
            /\ Here \in Nat /\ Here % BYTES_PER_PAGE \in Nat
        BY <2>1, HereTyped, WrittenTyped DEF Position
      <4>3. /\ Here = call.offset + call.done /\ call.offset \in Nat /\ call.done \in Nat
            /\ call.length \in Nat
        BY DEF Here, TypeOK, CallSet
      <4> DEFINE m == Here % BYTES_PER_PAGE
                 o == Page * BYTES_PER_PAGE + i
      <4>4. m \in Nat /\ o = Here - m + i /\ i >= m /\ i < m + Written
        BY <3>1, <4>1, <4>2
      <4> HIDE DEF m, o
      <4>5. o >= call.offset /\ o < call.offset + call.length
        BY <4>2, <4>3, <4>4
      <4> QED BY <3>1, <4>5 DEF InRange, o
    <3>2. CASE ~(/\ call.op = "write" /\ i >= Here % BYTES_PER_PAGE
                 /\ i < (Here % BYTES_PER_PAGE) + Written)
      BY <2>3, <2>4, <3>2
    <3> QED BY <3>1, <3>2
  <2>8. \A i : InRange(Page, i)' <=> InRange(Page, i)
    BY <2>1 DEF InRange, Kept
  <2>9. Content(Page)' = Content(Page)
    BY <1>2, <2>1 DEF Content, OldPage, ProgramPage
  <2> QED BY <1>0, <2>6, <2>7, <2>8, <2>9 DEF WithinRange
<1>3. CASE ReadCount
  <2>1. \A x \in 0 .. 1 : ~ctrl[x].busy
    BY <1>3 DEF Commanded, ReadCount
  <2> DEFINE d == BlockOf(call.offset)
  <2>2. Command(d, [ctrl[d] EXCEPT !.aux = TRUE], "READ", Page) /\ d \in 0 .. 1
    BY <1>3 DEF ReadCount, BlockOf
  <2> HIDE DEF d
  <2>3. [ctrl[d] EXCEPT !.aux = TRUE] \in ControllerSet
    BY <1>0, <2>2 DEF ControllerSet
  <2>4. ctrl'[d].cmd = "READ" /\ \A x \in 0 .. 1 \ {d} : ctrl'[x] = ctrl[x]
    BY <2>2, <2>3, Commanding
  <2> QED BY <2>1, <2>4, NothingBusy
<1>4. CASE wait_nvm_ready
  <2> DEFINE c == ctrl[b]
  <2>1. call.at = "wait" /\ ~c.busy /\ c \in ControllerSet
    BY <1>0, <1>4, Waited
  <2>2. \A x \in 0 .. 1 : ~ctrl[x].busy
    BY <2>1 DEF Commanded
  <2>3. \/ ctrl' = [ctrl EXCEPT ![b] = [c EXCEPT !.valid = TRUE]]
        \/ Command(b, c, "VERIFY", Page)
        \/ ctrl' = ctrl
        \/ ctrl' = [ctrl EXCEPT ![b] = [c EXCEPT !.aux = FALSE]]
    BY <1>4, Waited
  <2> HIDE DEF b
  <2>4. /\ \A x \in 0 .. 1 \ {b} : ctrl'[x] = ctrl[x]
        /\ ctrl'[b].busy => ctrl'[b].cmd = "VERIFY"
    <3>1. CASE \/ ctrl' = [ctrl EXCEPT ![b] = [c EXCEPT !.valid = TRUE]]
               \/ ctrl' = [ctrl EXCEPT ![b] = [c EXCEPT !.aux = FALSE]]
      BY <1>0, <2>1, <3>1 DEF ControllerSet
    <3>2. CASE Command(b, c, "VERIFY", Page)
      BY <1>0, <2>1, <3>2, Commanding
    <3>3. CASE ctrl' = ctrl
      BY <2>1, <3>3
    <3> QED BY <2>3, <3>1, <3>2, <3>3
  <2> QED BY <1>0, <2>2, <2>4, NothingBusy
<1>5. ASSUME NEW x \in 0 .. 1, Finish(x) PROVE WithinRange'
  <2>1. /\ x = b /\ call.at = "wait"
        /\ \A y \in 0 .. 1 \ {x} : ctrl'[y] = ctrl[y]
    BY <1>5, Finished
  <2>2. \E bits : ctrl'[x] = [ctrl[x] EXCEPT !.busy = FALSE, !.status = ctrl[x].status \cup bits]
    BY <1>5, Finished
  <2>3. ~ctrl'[x].busy
    BY <1>0, <2>2 DEF ControllerSet
  <2>4. \A y \in 0 .. 1 : ~ctrl'[y].busy
    BY <2>1, <2>3 DEF Commanded
  <2> QED BY <2>4, NothingBusy
<1>6. ASSUME NEW x \in 0 .. 1, FabricTakes(x) \/ FabricWrites(x) \/ FabricGives(x)
      PROVE WithinRange'
  <2>1. /\ UNCHANGED <<call, ctrl>>
        /\ \A p : BlockOfPage(p) \in g_envm_ctrl_locks => Content(p)' = Content(p)
    BY <1>6, FabricLeaves
  <2>2. CASE call.at = "wait"
    <3>1. Content(Page)' = Content(Page)
      <4>1. BlockOfPage(Page) \in g_envm_ctrl_locks
        BY <2>2, PageHeld
      <4>2. PICK p : p = Page
        OBVIOUS
      <4>3. Page' = p
        BY <2>1, <4>2 DEF Page, PageOf, Here
      <4>4. Content(p)' = Content(p)
        BY <2>1, <4>1, <4>2
      <4> QED BY <4>2, <4>3, <4>4 DEF Content, OldPage
    <3>2. \A i : InRange(Page, i)' <=> InRange(Page, i)
      BY <2>1 DEF InRange, Page, PageOf, Here
    <3> QED BY <2>1, <3>1, <3>2 DEF WithinRange
  <2>3. CASE call.at # "wait"
    BY <2>1, <2>3, NothingBusy DEF Commanded
  <2> QED BY <2>2, <2>3
<1>7. CASE UNCHANGED nvm
  BY <1>7 DEF nvm, WithinRange, InRange, Page, PageOf, Here, Content, OldPage
<1>8. CASE Starts \/ request_nvm_access \/ Release \/ Return
  <2>1. call.at # "wait"
    BY <1>8, Started, ReleaseKept DEF request_nvm_access
  <2>2. ctrl' = ctrl
    BY <1>8, Started DEF request_nvm_access, Release, Return
  <2> QED BY <1>1, <2>1, <2>2
<1> QED BY <1>2, <1>3, <1>4, <1>5, <1>6, <1>7, <1>8, Cases DEF Driver, Others

-----------------------------------------------------------------------------
(* A byte stays where its page does. *)
LEMMA StandsNext ==
  ASSUME call'.offset = call.offset, calls' = calls, NEW i, Stands(i),
         NEW p, p = PageOf(call.offset + i - 1), Content(p)' = Content(p)
  PROVE  Stands(i)'
BY DEF Stands, Content, OldPage, PageOf

(* The bytes of the page at hand. *)
LEMMA BytesOfPage ==
  ASSUME TypeOK, NEW k \in Nat, (Here % BYTES_PER_PAGE) + k < BYTES_PER_PAGE,
         NEW i, i = call.done + k + 1
  PROVE  /\ PageOf(call.offset + i - 1) = Page
         /\ (call.offset + i - 1) % BYTES_PER_PAGE = (Here % BYTES_PER_PAGE) + k
<1>1. call.offset + i - 1 = Here + k /\ Here \in Nat
  BY DEF TypeOK, CallSet, Here
<1>2. PageOf(Here + k) = Page /\ (Here + k) % BYTES_PER_PAGE = (Here % BYTES_PER_PAGE) + k
  BY <1>1, SamePage DEF Page
<1> QED BY <1>1, <1>2

(* The bytes of the call in front of it are on other pages. *)
LEMMA BytesBefore ==
  ASSUME TypeOK, Position, call.at \in {"page", "wait"}, NEW i \in 1 .. call.done
  PROVE  PageOf(call.offset + i - 1) # Page
<1>1. Here % BYTES_PER_PAGE = 0
  BY DEF Position, TypeOK, CallSet
<1>2. call.offset + i - 1 \in Nat /\ call.offset + i - 1 < Here /\ Here \in Nat
  BY DEF TypeOK, CallSet, Here
<1>3. PageOf(call.offset + i - 1) < Page
  BY <1>1, <1>2, EarlierPage DEF Page
<1> QED BY <1>2, <1>3, DivMod DEF Page

LEMMA StoredNext ==
  ASSUME TypeOK, Held, Position, Commanded, Reported, Stored, [NvmNext]_nvm
  PROVE  Stored'
<1> DEFINE b == BlockOfPage(Page)
<1>0. b \in 0 .. 1 /\ ctrl \in [0 .. 1 -> ControllerSet] /\ ctrl[b] \in ControllerSet
  BY HereTyped DEF TypeOK
<1>1. CASE Starts
  BY <1>1, Started DEF Stored
<1>2. CASE request_nvm_access
  <2>1. call.at = "access" /\ call'.done = 0 /\ call'.at \in {"access", "page", "restore"}
    BY <1>2, RequestKept DEF Position
  <2> QED BY <2>1 DEF Stored, InFlash
<1>3. CASE ProgramPage /\ call.op = "write"
  <2>1. /\ Kept /\ call.at = "page" /\ call'.at = "wait" /\ calls' = calls
        /\ call'.done = call.done
        /\ Page' = Page /\ Written' = Written
    BY <1>3, ProgramKept, HereKept DEF ProgramPage
  <2>2. BlockOfPage(Page)' = b
    BY <2>1 DEF BlockOfPage
  <2>3. PICK wd \in Bytes :
          /\ Command(b, [DeniedCleared(ctrl[b]) EXCEPT !.wd = wd, !.lock = call.lock], "PROG", Page)
          /\ \A i \in 0 .. BYTES_PER_PAGE - 1 :
               wd[i] = IF i >= Here % BYTES_PER_PAGE /\ i < (Here % BYTES_PER_PAGE) + Written
                       THEN <<calls, call.done + i - (Here % BYTES_PER_PAGE) + 1>>
                       ELSE ReadPage(Page)[i]
    BY <1>3, Programmed
  <2> DEFINE c == [DeniedCleared(ctrl[b]) EXCEPT !.wd = wd, !.lock = call.lock]
  <2>4. c \in ControllerSet /\ c.wd = wd
    <3>1. DeniedCleared(ctrl[b]) \in ControllerSet
      BY <1>0 DEF DeniedCleared, ControllerSet
    <3>2. call.lock \in Nat
      BY DEF TypeOK, CallSet
    <3> QED BY <3>1, <3>2 DEF ControllerSet
  <2> HIDE DEF b, c
  <2>5. ctrl'[b].wd = wd /\ ctrl'[b].busy /\ ctrl'[b].cmd = "PROG"
    <3>1. Command(b, c, "PROG", Page)
      BY <2>3 DEF c
    <3> QED BY <1>0, <2>4, <3>1, Commanding
  <2>6. ASSUME NEW i \in call.done + 1 .. call.done + Written
        PROVE  wd[(call.offset + i - 1) % BYTES_PER_PAGE] = <<calls, i>>
    <3> DEFINE m == Here % BYTES_PER_PAGE
               k == i - call.done - 1
    <3>1. /\ m \in Nat /\ Written \in Nat /\ m + Written <= BYTES_PER_PAGE /\ call.done \in Nat
      BY <2>1, HereTyped, WrittenTyped, SMTT(30) DEF Position, TypeOK, CallSet
    <3>2. k \in Nat /\ i = call.done + k + 1 /\ k < Written
      BY <3>1
    <3>3. m + k < BYTES_PER_PAGE /\ m + k \in 0 .. BYTES_PER_PAGE - 1
      <4> HIDE DEF m, k
      <4> QED BY <3>1, <3>2, NvmAssumption
    <3>4. (call.offset + i - 1) % BYTES_PER_PAGE = m + k
      <4> HIDE DEF k
      <4> QED BY <3>2, <3>3, BytesOfPage
    <3>5. wd[m + k] = IF m + k >= m /\ m + k < m + Written
                      THEN <<calls, call.done + (m + k) - m + 1>> ELSE ReadPage(Page)[m + k]
      <4> HIDE DEF k
      <4> QED BY <2>3, <3>3
    <3> HIDE DEF m
    <3>6. call.done + (m + k) - m + 1 = i /\ m + k >= m /\ m + k < m + Written
      BY <3>1, <3>2
    <3> QED BY <3>4, <3>5, <3>6
  <2>7. \A i \in call.done + 1 .. call.done + Written :
          (ctrl'[b].wd)[(call.offset + i - 1) % BYTES_PER_PAGE] = <<calls, i>>
    BY <2>5, <2>6
  <2>8. \A i \in 1 .. call.done : Stands(i)'
    <3>1. \A i \in 1 .. call.done : Stands(i)
      BY <1>3, <2>1 DEF Stored, InFlash
    <3>2. \A p : Content(p)' = Content(p)
      BY <1>3, DriverLeaves DEF Driver
    <3> QED BY <2>1, <3>1, <3>2, StandsNext DEF Kept
  <2> QED BY <2>1, <2>2, <2>5, <2>7, <2>8 DEF Stored, InFlash, Kept
<1>4. CASE ReadCount \/ (ProgramPage /\ call.op # "write")
  <2>1. call.op # "write"
    BY <1>4 DEF ReadCount
  <2> QED BY <1>4, <2>1, ProgramKept DEF Stored, Kept
<1>5. CASE wait_nvm_ready
  <2> DEFINE c == ctrl[b]
  <2>1. /\ call.at = "wait" /\ ~c.busy /\ Kept /\ calls' = calls
    BY <1>5, Waited DEF wait_nvm_ready
  <2>2. CASE call.op # "write"
    BY <2>1, <2>2 DEF Stored, Kept
  <2>3. SUFFICES ASSUME call.op = "write" PROVE Stored'
    BY <2>2
  <2>4. /\ InFlash(call.done) /\ c.cmd \in {"PROG", "VERIFY"}
        /\ c.cmd = "VERIFY" \/ c.status = {} => InFlash(call.done + Written)
    BY <2>1, <2>3 DEF Stored, Commanded
  <2>5. \A i : Stands(i) => Stands(i)'
    <3>1. \A p : Content(p)' = Content(p)
      BY <1>5, DriverLeaves DEF Driver
    <3> QED BY <2>1, <3>1, StandsNext DEF Kept
  <2>6. call'.done = call.done =>
          BlockOfPage(Page)' = b /\ Written' = Written /\ (call'.done + Written') = call.done + Written
    BY <2>1, HereKept DEF BlockOfPage
  <2> HIDE DEF b
  <2>7. CASE /\ call'.at = "wait" /\ call'.done = call.done
             /\ ctrl' = [ctrl EXCEPT ![b] = [c EXCEPT !.valid = TRUE]]
    <3>1. ctrl'[b].status = c.status /\ ~ctrl'[b].busy /\ ctrl'[b].cmd = c.cmd
      BY <1>0, <2>1, <2>7 DEF ControllerSet
    <3> HIDE DEF c
    <3> QED BY <2>1, <2>4, <2>5, <2>6, <2>7, <3>1 DEF Stored, InFlash, Kept
  <2>8. CASE /\ c.cmd = "PROG" /\ call.reads = 1
             /\ \E bits \in Seen(c) : bits \cap WRITE_ERROR_MASK = {}
             /\ call'.at = "wait" /\ call'.done = call.done
             /\ Command(b, c, "VERIFY", Page)
    <3>1. c.status \cap WRITE_ERROR_MASK = {} /\ c.status \in SUBSET Bits
      BY <1>5, <2>8, PageEnds DEF b
    <3>2. "WRCNT_OVER" \notin c.status
      BY <2>1, <2>8 DEF Reported, b
    <3>3. c.status = {}
      BY <3>1, <3>2 DEF Bits, WRITE_ERROR_MASK
    <3>4. ctrl'[b].busy /\ ctrl'[b].cmd = "VERIFY"
      BY <1>0, <2>8, Commanding
    <3> HIDE DEF c
    <3> QED BY <2>1, <2>4, <2>5, <2>6, <2>8, <3>3, <3>4 DEF Stored, InFlash, Kept
  <2>9. ASSUME NEW bits \in Seen(c), call.reads = 1, call' = EndOfPage(bits, Written),
               c.cmd = "PROG" => bits \cap WRITE_ERROR_MASK # {}
        PROVE  Stored'
    <3>1. Written \in Nat /\ Written <= call.length - call.done /\ call.done \in Nat
          /\ call.length \in Nat
      BY <2>1, WrittenTyped DEF Position, TypeOK, CallSet
    <3>2. /\ call'.done = call.done + Written
          /\ call'.status = IF bits = {} THEN call.status ELSE get_error_code(bits)
          /\ call'.at \in {"page", "release"}
          /\ call'.at = "page" => call'.status \in Good
          /\ call'.at = "release" /\ call'.status \in Good => ~(call'.done < call.length)
      BY <2>9, <3>1, EndOfPageKept
    <3>3. call'.status \in Good => c.cmd = "VERIFY"
      <4>1. bits \in SUBSET Bits
        BY <1>5, <2>9, PageEnds DEF b
      <4>2. CASE c.cmd = "PROG"
        <5>1. bits # {} /\ bits \cap WRITE_ERROR_MASK # {}
          BY <2>9, <4>2
        <5>2. get_error_code(bits) # "WRITE_THRESHOLD_WARNING"
          BY <4>1, <5>1, ErrorCode DEF WRITE_ERROR_MASK
        <5> QED BY <3>2, <4>1, <5>1, <5>2, ErrorCode
      <4> QED BY <2>4, <4>2
    <3>4. call'.status \in Good => \A i \in 1 .. call'.done : Stands(i)'
      BY <2>4, <2>5, <3>2, <3>3 DEF InFlash
    <3>5. call'.at = "release" /\ call'.status \in Good => call'.done = call'.length
      BY <2>1, <3>1, <3>2 DEF Kept
    <3> QED BY <3>2, <3>4, <3>5 DEF Stored, InFlash
  <2> HIDE DEF c
  <2>10. c.cmd # "UNLOCK_PROG" /\ c.cmd # "READ"
    BY <2>4
  <2> QED BY <1>5, <2>7, <2>8, <2>9, <2>10, Waited DEF b, c
<1>6. CASE Release \/ Return
  BY <1>6, ReleaseKept DEF Stored
<1>7. ASSUME NEW x \in 0 .. 1, Finish(x) PROVE Stored'
  <2> DEFINE c == ctrl[b]
  <2>1. /\ x = b /\ call.at = "wait" /\ c.busy /\ call' = call /\ calls' = calls
    BY <1>7, Finished
  <2>2. CASE call.op # "write"
    BY <2>1, <2>2 DEF Stored
  <2>3. SUFFICES ASSUME call.op = "write" PROVE Stored'
    BY <2>2
  <2>4. PICK bits \in SUBSET Bits :
          /\ \A p : Content(p)' = IF /\ c.cmd \in {"PROG", "UNLOCK_PROG"}
                                     /\ bits \subseteq {"WRCNT_OVER"} /\ p = Page
                                  THEN c.wd ELSE Content(p)
          /\ ctrl'[b] = [c EXCEPT !.busy = FALSE, !.status = c.status \cup bits]
    BY <1>7, <2>1, Finished
  <2>5. ctrl'[b].status = c.status \cup bits /\ ~ctrl'[b].busy /\ ctrl'[b].cmd = c.cmd
    BY <1>0, <2>4 DEF ControllerSet
  <2>6. /\ InFlash(call.done) /\ c.cmd \in {"PROG", "VERIFY"}
        /\ c.cmd = "PROG" => \A i \in call.done + 1 .. call.done + Written :
                               (c.wd)[(call.offset + i - 1) % BYTES_PER_PAGE] = <<calls, i>>
        /\ c.cmd = "VERIFY" => InFlash(call.done + Written)
    BY <2>1, <2>3 DEF Stored, Commanded
  <2>7. Page' = Page /\ Written' = Written /\ BlockOfPage(Page)' = b
    BY <2>1 DEF Page, PageOf, Here, Written, get_remaining_page_length, BlockOfPage
  <2> HIDE DEF b
  <2>8. CASE c.cmd = "VERIFY"
    <3>1. \A p : Content(p)' = Content(p)
      BY <2>4, <2>8
    <3>2. \A i : Stands(i) => Stands(i)'
      BY <2>1, <3>1, StandsNext
    <3> HIDE DEF c
    <3> QED BY <2>1, <2>5, <2>6, <2>7, <2>8, <3>2 DEF Stored, InFlash
  <2>9. CASE c.cmd = "PROG"
    <3>1. \A i \in 1 .. call.done : Stands(i)'
      <4> TAKE i \in 1 .. call.done
      <4>1. PICK p : p = PageOf(call.offset + i - 1)
        OBVIOUS
      <4>2. p # Page
        BY <2>1, <4>1, BytesBefore
      <4>3. Content(p)' = Content(p)
        BY <2>4, <4>2
      <4> QED BY <2>1, <2>6, <4>1, <4>3, StandsNext DEF InFlash
    <3>2. ASSUME bits = {}, NEW i \in call.done + 1 .. call.done + Written PROVE Stands(i)'
      <4> DEFINE k == i - call.done - 1
      <4>1. /\ Here % BYTES_PER_PAGE \in Nat /\ Written \in Nat
            /\ (Here % BYTES_PER_PAGE) + Written <= BYTES_PER_PAGE /\ call.done \in Nat
        BY <2>1, HereTyped, WrittenTyped, SMTT(30) DEF Position, TypeOK, CallSet
      <4>2. k \in Nat /\ i = call.done + k + 1 /\ k < Written
        BY <4>1
      <4> HIDE DEF k
      <4>3. (Here % BYTES_PER_PAGE) + k < BYTES_PER_PAGE
        BY <4>1, <4>2, NvmAssumption
      <4>4. PageOf(call.offset + i - 1) = Page
        BY <4>2, <4>3, BytesOfPage
      <4>5. PICK p : p = Page
        OBVIOUS
      <4>6. Content(p)' = c.wd
        BY <2>4, <2>9, <3>2, <4>5
      <4>7. (c.wd)[(call.offset + i - 1) % BYTES_PER_PAGE] = <<calls, i>>
        BY <2>6, <2>9
      <4>8. PageOf(call.offset + i - 1)' = p
        BY <2>1, <4>4, <4>5 DEF PageOf
      <4> QED BY <2>1, <4>6, <4>7, <4>8 DEF Stands, Content, OldPage
    <3>3. Written \in Nat /\ call.done \in Nat
      BY <2>1, HereTyped, WrittenTyped, SMTT(30) DEF Position, TypeOK, CallSet
    <3>4. bits = {} => \A i \in 1 .. call.done + Written : Stands(i)'
      <4> SUFFICES ASSUME bits = {}, NEW i \in 1 .. call.done + Written PROVE Stands(i)'
        OBVIOUS
      <4>1. CASE i <= call.done
        BY <3>1, <3>3, <4>1
      <4>2. CASE i > call.done
        BY <3>2, <3>3, <4>2
      <4> QED BY <3>3, <4>1, <4>2
    <3> HIDE DEF c
    <3> QED BY <2>1, <2>5, <2>7, <2>9, <3>1, <3>4 DEF Stored, InFlash
  <2> QED BY <2>6, <2>8, <2>9
<1>8. ASSUME UNCHANGED <<call, calls, ctrl>>,
             \A p : BlockOfPage(p) \in g_envm_ctrl_locks => Content(p)' = Content(p)
      PROVE  Stored'
  <2>1. /\ UNCHANGED <<call, calls, ctrl>>
        /\ \A p : BlockOfPage(p) \in g_envm_ctrl_locks => Content(p)' = Content(p)
    BY <1>8
  <2>2. CASE call.at \in {"page", "wait", "release"}
    <3>1. ASSUME NEW i \in 1 .. call.length, Stands(i) PROVE Stands(i)'
      <4>1. PICK p : p = PageOf(call.offset + i - 1)
        OBVIOUS
      <4>2. Content(p)' = Content(p)
        BY <2>1, <2>2, <4>1, BytesHeld
      <4> QED BY <2>1, <3>1, <4>1, <4>2, StandsNext
    <3>2. call.at \in {"page", "wait"} =>
            /\ call.done \in Nat /\ call.length \in Nat /\ call.done < call.length
            /\ Written \in Nat /\ call.done + Written <= call.length
      BY WrittenTyped DEF Position, TypeOK, CallSet
    <3>3. Page' = Page /\ Written' = Written /\ BlockOfPage(Page)' = b
      BY <2>1 DEF Page, PageOf, Here, Written, get_remaining_page_length, BlockOfPage
    <3>4. call.at \in {"page", "wait"} =>
            /\ InFlash(call.done) => \A i \in 1 .. call.done : Stands(i)'
            /\ InFlash(call.done + Written) => \A i \in 1 .. call.done + Written : Stands(i)'
      BY <3>1, <3>2 DEF InFlash
    <3>5. InFlash(call.length) => \A i \in 1 .. call.length : Stands(i)'
      BY <3>1 DEF InFlash
    <3> HIDE DEF b
    <3>6. call.at = "wait" /\ call.op = "write"
            /\ (ctrl[b].cmd = "VERIFY" \/ (~ctrl[b].busy /\ ctrl[b].status = {})) =>
              \A i \in 1 .. call.done + Written : Stands(i)'
      BY <3>4 DEF Stored, b
    <3>7. call.op = "write" /\ call.at \in {"page", "wait"} => \A i \in 1 .. call.done : Stands(i)'
      BY <3>4 DEF Stored
    <3>8. call.op = "write" /\ call.at = "release" /\ call.status \in Good =>
            \A i \in 1 .. call.length : Stands(i)'
      BY <3>5 DEF Stored
    <3>9. call.at = "wait" /\ call.op = "write" /\ ctrl[b].cmd = "PROG" /\ ctrl[b].busy =>
            \A i \in call.done + 1 .. call.done + Written :
              (ctrl[b].wd)[(call.offset + i - 1) % BYTES_PER_PAGE] = <<calls, i>>
      BY DEF Stored, b
    <3> QED BY <2>1, <3>3, <3>6, <3>7, <3>8, <3>9 DEF Stored, InFlash
  <2>3. CASE call.at \notin {"page", "wait", "release"}
    BY <2>1, <2>3 DEF Stored
  <2> QED BY <2>2, <2>3
<1>9. CASE \E x \in 0 .. 1 : FabricTakes(x) \/ FabricWrites(x) \/ FabricGives(x)
  BY <1>8, <1>9, FabricLeaves
<1>10. CASE UNCHANGED nvm
  <2>1. UNCHANGED <<call, calls, ctrl>>
    BY <1>10 DEF nvm
  <2>2. \A p : BlockOfPage(p) \in g_envm_ctrl_locks => Content(p)' = Content(p)
    BY <1>10, DriverLeaves
  <2> QED BY <1>8, <2>1, <2>2
<1> QED BY <1>1, <1>2, <1>3, <1>4, <1>5, <1>6, <1>7, <1>9, <1>10, Cases DEF Driver, Others

-----------------------------------------------------------------------------
LEMMA OpenedNext ==
  ASSUME TypeOK, Held, Position, Permitted, Commanded, Reported, Opened, [NvmNext]_nvm
  PROVE  Opened'
<1> DEFINE b == BlockOfPage(Page)
<1>0. b \in 0 .. 1 /\ ctrl \in [0 .. 1 -> ControllerSet] /\ ctrl[b] \in ControllerSet
  BY HereTyped DEF TypeOK
<1>1. CASE Starts
  BY <1>1, Started DEF Opened
<1>2. CASE request_nvm_access
  <2>1. call.at = "access" /\ call'.done = 0 /\ call'.at \in {"access", "page", "restore"}
    BY <1>2, RequestKept DEF Position
  <2> QED BY <2>1 DEF Opened, Freed
<1>3. CASE ProgramPage /\ call.op = "unlock"
  <2>1. /\ Kept /\ call.at = "page" /\ call'.at = "wait" /\ call'.done = call.done
        /\ Page' = Page /\ locked' = locked
    BY <1>3, ProgramKept, HereKept DEF ProgramPage
  <2>2. BlockOfPage(Page)' = b
    BY <2>1 DEF BlockOfPage
  <2>3. PICK wd \in Bytes :
          Command(b, [DeniedCleared(ctrl[b]) EXCEPT !.wd = wd, !.lock = call.lock], "UNLOCK_PROG", Page)
    BY <1>3, Programmed
  <2> DEFINE c == [DeniedCleared(ctrl[b]) EXCEPT !.wd = wd, !.lock = call.lock]
  <2>4. c \in ControllerSet
    <3>1. DeniedCleared(ctrl[b]) \in ControllerSet
      BY <1>0 DEF DeniedCleared, ControllerSet
    <3>2. call.lock \in Nat
      BY DEF TypeOK, CallSet
    <3> QED BY <3>1, <3>2 DEF ControllerSet
  <2>5. Command(b, c, "UNLOCK_PROG", Page)
    BY <2>3
  <2> HIDE DEF b, c
  <2>6. ctrl'[b].busy
    BY <1>0, <2>4, <2>5, Commanding
  <2>7. Freed(call.done)
    BY <1>3, <2>1 DEF Opened
  <2> QED BY <2>1, <2>2, <2>6, <2>7 DEF Opened, Freed, Kept, PageOf
<1>4. CASE ReadCount \/ (ProgramPage /\ call.op # "unlock")
  <2>1. call.op # "unlock"
    BY <1>4 DEF ReadCount
  <2> QED BY <1>4, <2>1, ProgramKept DEF Opened, Kept
<1>5. CASE wait_nvm_ready
  <2> DEFINE c == ctrl[b]
  <2>1. /\ call.at = "wait" /\ ~c.busy /\ Kept /\ locked' = locked
    BY <1>5, Waited DEF wait_nvm_ready
  <2>2. CASE call.op # "unlock"
    BY <2>1, <2>2 DEF Opened, Kept
  <2>3. SUFFICES ASSUME call.op = "unlock" PROVE Opened'
    BY <2>2
  <2>4. /\ Freed(call.done) /\ c.cmd = "UNLOCK_PROG"
        /\ c.status \subseteq {"WRCNT_OVER"} => Freed(call.done + Unlocked)
    BY <2>1, <2>3 DEF Opened, Commanded
  <2>5. call'.done = call.done => BlockOfPage(Page)' = b /\ Unlocked' = Unlocked
    BY <2>1, HereKept DEF BlockOfPage
  <2> HIDE DEF b
  <2>6. CASE /\ call'.at = "wait" /\ call'.done = call.done
             /\ ctrl' = [ctrl EXCEPT ![b] = [c EXCEPT !.valid = TRUE]]
    <3>1. ctrl'[b].status = c.status
      BY <1>0, <2>1, <2>6 DEF ControllerSet
    <3> HIDE DEF c
    <3> QED BY <2>1, <2>4, <2>5, <2>6, <3>1 DEF Opened, Freed, Kept, PageOf
  <2>7. ASSUME NEW bits \in Seen(c), call.reads = 1, call' = EndOfPage(bits, Unlocked)
        PROVE  Opened'
    <3>1. Unlocked \in Nat /\ call.done \in Nat /\ call.length \in Nat
      BY HereTyped DEF TypeOK, CallSet
    <3>2. /\ call'.done = call.done + Unlocked
          /\ call'.status = IF bits = {} THEN call.status ELSE get_error_code(bits)
          /\ call'.at \in {"page", "release"}
          /\ call'.at = "page" => call'.status \in Good
          /\ call'.at = "release" /\ call'.status \in Good => ~(call'.done < call.length)
      BY <2>7, <3>1, EndOfPageKept
    <3>3. call'.status \in Good => c.status \subseteq {"WRCNT_OVER"}
      <4>1. bits \in SUBSET Bits /\ bits = c.status
        BY <1>5, <2>7, PageEnds DEF b
      <4> QED BY <3>2, <4>1, ErrorCode
    <3>4. call'.status \in Good =>
            \A i \in 1 .. call'.done : PageOf(call.offset + i - 1) \notin locked
      BY <2>4, <3>2, <3>3 DEF Freed
    <3>5. call'.at = "release" /\ call'.status \in Good =>
            \A i \in 1 .. call.length : PageOf(call.offset + i - 1) \notin locked
      BY <3>1, <3>2, <3>4
    <3> QED BY <2>1, <3>2, <3>4, <3>5 DEF Opened, Freed, Kept, PageOf
  <2> HIDE DEF c
  <2> QED BY <1>5, <2>4, <2>6, <2>7, Waited DEF b, c
<1>6. CASE Release \/ Return
  BY <1>6, ReleaseKept DEF Opened
<1>7. ASSUME NEW x \in 0 .. 1, Finish(x) PROVE Opened'
  <2> DEFINE c == ctrl[b]
  <2>1. /\ x = b /\ call.at = "wait" /\ c.busy /\ call' = call
    BY <1>7, Finished
  <2>2. CASE call.op # "unlock"
    BY <2>1, <2>2 DEF Opened
  <2>3. SUFFICES ASSUME call.op = "unlock" PROVE Opened'
    BY <2>2
  <2>4. PICK bits \in SUBSET Bits :
          /\ locked' = IF ~(c.cmd \in {"PROG", "UNLOCK_PROG"} /\ bits \subseteq {"WRCNT_OVER"})
                       THEN locked
                       ELSE IF c.lock = 1 THEN locked \cup {Page} ELSE locked \ {Page}
          /\ ctrl'[b] = [c EXCEPT !.busy = FALSE, !.status = c.status \cup bits]
    BY <1>7, <2>1, Finished
  <2>5. ctrl'[b].status = c.status \cup bits
    BY <1>0, <2>4 DEF ControllerSet
  <2>6. Freed(call.done) /\ c.cmd = "UNLOCK_PROG" /\ c.lock # 1
    BY <2>1, <2>3 DEF Opened, Commanded, Permitted
  <2>7. Page' = Page /\ Unlocked' = Unlocked /\ BlockOfPage(Page)' = b
    BY <2>1 DEF Page, PageOf, Here, Unlocked, BlockOfPage
  <2> HIDE DEF b, c
  <2>8. locked' \subseteq locked /\ (bits \subseteq {"WRCNT_OVER"} => Page \notin locked')
    BY <2>4, <2>6
  <2>9. \A i \in 1 .. call.done : PageOf(call.offset + i - 1) \notin locked'
    BY <2>6, <2>8 DEF Freed
  <2>10. bits \subseteq {"WRCNT_OVER"} =>
           \A i \in 1 .. call.done + Unlocked : PageOf(call.offset + i - 1) \notin locked'
    <3> SUFFICES ASSUME bits \subseteq {"WRCNT_OVER"}, NEW i \in 1 .. call.done + Unlocked
                 PROVE  PageOf(call.offset + i - 1) \notin locked'
      OBVIOUS
    <3>1. /\ Unlocked \in Nat /\ Unlocked = BYTES_PER_PAGE - (Here % BYTES_PER_PAGE)
          /\ call.done \in Nat /\ Here % BYTES_PER_PAGE \in Nat
      BY HereTyped DEF Unlocked, TypeOK, CallSet
    <3>2. CASE i <= call.done
      BY <2>9, <3>1, <3>2
    <3>3. CASE i > call.done
      <4> DEFINE k == i - call.done - 1
      <4>1. k \in Nat /\ i = call.done + k + 1 /\ k < Unlocked
        BY <3>1, <3>3
      <4> HIDE DEF k
      <4>2. (Here % BYTES_PER_PAGE) + k < BYTES_PER_PAGE
        BY <3>1, <4>1, NvmAssumption
      <4>3. PageOf(call.offset + i - 1) = Page
        BY <4>1, <4>2, BytesOfPage
      <4> QED BY <2>8, <4>3
    <3> QED BY <3>1, <3>2, <3>3
  <2> QED BY <2>1, <2>5, <2>7, <2>9, <2>10 DEF Opened, Freed, PageOf
<1>8. CASE \/ UNCHANGED nvm
           \/ \E x \in 0 .. 1 : FabricTakes(x) \/ FabricWrites(x) \/ FabricGives(x)
  <2>1. UNCHANGED <<call, ctrl, locked>>
    BY <1>8, FabricLeaves DEF nvm
  <2>2. Page' = Page /\ Unlocked' = Unlocked /\ BlockOfPage(Page)' = b
    BY <2>1 DEF Page, PageOf, Here, Unlocked, BlockOfPage
  <2> QED BY <2>1, <2>2 DEF Opened, Freed, PageOf
<1> QED BY <1>1, <1>2, <1>3, <1>4, <1>5, <1>6, <1>7, <1>8, Cases DEF Driver, Others

LEMMA BetweenNext ==
  ASSUME TypeOK, Held, Position, Between, [NvmNext]_nvm
  PROVE  Between'
<1>1. CASE Starts
  BY <1>1, Started DEF Between
<1>2. CASE request_nvm_access
  BY <1>2, RequestKept DEF Between, Kept, request_nvm_access
<1>3. CASE ProgramPage \/ ReadCount
  BY <1>3, ProgramKept DEF Between, Kept, ProgramPage, ReadCount
<1>4. CASE wait_nvm_ready
  <2>1. \A bits : \A size \in Nat : call' = EndOfPage(bits, size) => call'.at # "idle"
    BY EndOfPageKept
  <2>2. Unlocked \in Nat /\ Written \in Nat
    BY <1>4, HereTyped, WrittenTyped DEF wait_nvm_ready, Position
  <2> QED BY <1>4, <2>1, <2>2, Waited DEF Between, Kept, wait_nvm_ready
<1>5. CASE Release
  BY <1>5, ReleaseKept DEF Between, Kept, Release
<1>6. CASE Return
  BY <1>6, ReleaseKept DEF Between, Kept, Return
<1>7. CASE Others \/ UNCHANGED nvm
  BY <1>7, OthersKept DEF Between
<1> QED BY <1>1, <1>2, <1>3, <1>4, <1>5, <1>6, <1>7, Cases DEF Driver

-----------------------------------------------------------------------------
LEMMA Initially == NvmInit => IInv
<1> SUFFICES ASSUME NvmInit PROVE IInv
  OBVIOUS
<1>1. OldPage \in Bytes /\ Controller \in ControllerSet /\ Idle \in CallSet
  <2>1. OldPage \in Bytes
    BY DEF OldPage, Bytes
  <2>2. Controller \in ControllerSet
    BY <2>1 DEF Controller, ControllerSet
  <2>3. Idle \in CallSet
    BY DEF Idle, CallSet, Statuses, Good
  <2> QED BY <2>1, <2>2, <2>3
<1>2. TypeOK
  <2>1. DOMAIN flash = {} /\ flash \in [DOMAIN flash -> Bytes]
    BY DEF NvmInit
  <2>2. device \in [family : {"005", "010/025/050", "060", "090/150"}, first : BOOLEAN,
                    users : [0 .. 3 -> {0, 1, 8, 9}]]
    BY DeviceAssumption DEF NvmInit
  <2> QED BY <1>1, <2>1, <2>2 DEF NvmInit, TypeOK
<1>3. call.at = "idle" /\ call.lock = 0 /\ call.op = "none"
  BY DEF NvmInit, Idle
<1>4. \A b \in 0 .. 1 : ~ctrl[b].busy /\ ~ctrl[b].aux
  BY DEF NvmInit, Controller
<1> QED BY <1>2, <1>3, <1>4 DEF IInv, NvmInit, Held, Position, Permitted, Commanded, Reported,
           WithinRange, Stored, Opened, Between

(* The inductive invariant: what the driver holds, where the call stands,  *)
(* what its command is and what the flash holds so far, in every state.    *)
THEOREM Bookkeeping == NvmSpec => []IInv
<1>1. IInv /\ [NvmNext]_nvm => IInv'
  BY TypingNext, HeldNext, PositionNext, PermittedNext, CommandedNext, ReportedNext,
     WithinRangeNext, StoredNext, OpenedNext, BetweenNext DEF IInv
<1> QED BY <1>1, Initially, PTL DEF NvmSpec

(* Whatever the driver does to a block, it has it and knows that it has:   *)
(* the access word and the record of get_ctrl_access agree in every state. *)
THEOREM ExclusiveAlways == NvmSpec => []Exclusive
<1>1. IInv => Exclusive
  <2> SUFFICES ASSUME IInv PROVE Exclusive
    OBVIOUS
  <2>1. call.at \in {"page", "wait"} =>
          /\ BlockOfPage(Page) \in g_envm_ctrl_locks /\ BlockOfPage(Page) \in 0 .. 1
    BY PageHeld, HereTyped DEF IInv
  <2> QED BY <2>1 DEF IInv, Exclusive, Held, Commanded
<1> QED BY <1>1, Bookkeeping, PTL

(* Behind a call, whatever way it took, the driver has put everything      *)
(* back: the blocks, the frequency range, the auxiliary data.              *)
THEOREM NothingIsLeftBehind == NvmSpec => []NothingLeftBehind
<1>1. IInv => NothingLeftBehind
  BY DEF IInv, NothingLeftBehind, Held, Commanded, Between
<1> QED BY <1>1, Bookkeeping, PTL

(* The status of a call is that of its pages, and a call that reports      *)
(* success or a warning has stored all its data, or unlocked all its pages. *)
THEOREM StatusIsAlwaysTrue == NvmSpec => []StatusIsTrue
<1>1. IInv => StatusIsTrue
  <2> SUFFICES ASSUME IInv, call.at = "release" PROVE StatusIsTrue
    BY DEF StatusIsTrue
  <2>1. /\ call.status = "SUCCESS" => outcomes = {}
        /\ call.status = "WRITE_THRESHOLD_WARNING" => outcomes = {"WRCNT_OVER"}
        /\ call.status \notin {"SUCCESS", "WRITE_THRESHOLD_WARNING"} =>
             outcomes \cap WRITE_ERROR_MASK # {}
    BY DEF IInv, Reported, Good, Prior
  <2>2. call.op = "write" /\ call.status \in {"SUCCESS", "WRITE_THRESHOLD_WARNING"} =>
          \A i \in 1 .. call.length :
            LET o == call.offset + i - 1
            IN  Content(PageOf(o))[o % BYTES_PER_PAGE] = <<calls, i>>
    BY DEF IInv, Stored, InFlash, Stands, Good
  <2>3. call.op = "unlock" /\ call.status \in {"SUCCESS", "WRITE_THRESHOLD_WARNING"} =>
          \A o \in call.offset .. call.offset + call.length - 1 : PageOf(o) \notin locked
    <3> SUFFICES ASSUME call.op = "unlock", call.status \in Good,
                        NEW o \in call.offset .. call.offset + call.length - 1
                 PROVE  PageOf(o) \notin locked
      BY DEF Good
    <3>1. Freed(call.length)
      BY DEF IInv, Opened
    <3>2. o - call.offset + 1 \in 1 .. call.length
          /\ call.offset + (o - call.offset + 1) - 1 = o
      BY SMTT(30) DEF IInv, TypeOK, CallSet
    <3> QED BY <3>1, <3>2 DEF Freed
  <2> QED BY <2>1, <2>2, <2>3 DEF StatusIsTrue
<1> QED BY <1>1, Bookkeeping, PTL

LEMMA LayoutTyped ==
  ASSUME TypeOK
  PROVE  /\ Layout.reserved \in Nat /\ Layout.pages \in Nat
         /\ \A area \in Layout.areas : area.bottom \in Nat /\ area.top \in Nat
<1>1. Layout \in {M2S005, M2S050, M2S060, M2S090}
  BY DEF TypeOK, Layout
<1>2. \A m \in {M2S005, M2S050, M2S060, M2S090} :
        /\ m.reserved \in Nat /\ m.pages \in Nat
        /\ \A area \in m.areas : area.bottom \in Nat /\ area.top \in Nat
  BY DEF M2S005, M2S050, M2S060, M2S090, Area
<1> QED BY <1>1, <1>2

(* A page that the device reserves or whose area the user protects is not  *)
(* written by any call, on none of the memory maps, and no page is locked  *)
(* that cannot be unlocked again.                                          *)
THEOREM ProtectedUntouchedAlways == NvmSpec => []ProtectedUntouched
<1>1. IInv => ProtectedUntouched
  <2> SUFFICES ASSUME IInv, NEW b \in 0 .. 1,
                      ctrl[b].busy, ctrl[b].cmd \in {"PROG", "UNLOCK_PROG"}
               PROVE  /\ ctrl[b].page < Layout.reserved
                      /\ \A area \in Layout.areas :
                           device.users[area.user] # WRITE_ENABLED =>
                             ctrl[b].page \notin area.bottom .. area.top
                      /\ ctrl[b].lock = 1 => ~device.first /\ device.family # "060"
                                             /\ (device.family = "090/150" => b = 0)
    BY DEF ProtectedUntouched
  <2>1. /\ call.at = "wait" /\ b = BlockOfPage(Page) /\ ctrl[b].page = Page
        /\ call.op \in {"write", "unlock"} /\ ctrl[b].lock = call.lock
    <3>1. call.at = "wait" /\ b = BlockOfPage(Page)
      BY DEF IInv, Commanded
    <3>2. call.op \in {"write", "unlock", "count"}
      BY <3>1 DEF IInv, Position, TypeOK, CallSet
    <3> QED BY <3>1, <3>2 DEF IInv, Commanded
  <2> DEFINE o == call.offset
             last == Last(o, call.length)
  <2>2. /\ o \in Nat /\ last \in Nat /\ Here \in Nat /\ o <= Here /\ Here <= last
        /\ call.length # 0 /\ last = o + call.length - 1
    BY <2>1 DEF IInv, Position, TypeOK, CallSet, Last, Here
  <2>3. PageOf(o) <= Page /\ Page <= PageOf(last) /\ PageOf(o) \in Nat /\ Page \in Nat
        /\ PageOf(last) \in Nat
    BY <2>2, PageMono, DivMod DEF Page
  <2>4. check_protection_reserved_nvm(o, call.length) = "SUCCESS"
    BY <2>1 DEF IInv, Permitted
  <2>5. /\ ~(\E area \in Layout.areas : /\ device.users[area.user] # WRITE_ENABLED
                                        /\ Touches(area, o, last)
                                        /\ protection_check(device.users[area.user], call.length))
        /\ ~(PageOf(last) >= Layout.pages)
        /\ ~(PageOf(last) < Layout.pages /\ PageOf(last) >= Layout.reserved)
    <3> HIDE DEF o
    <3> QED BY <2>4, Zenon DEF check_protection_reserved_nvm
  <2>6. Layout.reserved \in Nat /\ Layout.pages \in Nat
        /\ \A area \in Layout.areas : area.bottom \in Nat /\ area.top \in Nat
    BY LayoutTyped DEF IInv
  <2>7. Page < Layout.reserved
    <3> HIDE DEF o, last
    <3> QED BY <2>3, <2>5, <2>6
  <2>8. ASSUME NEW area \in Layout.areas, device.users[area.user] # WRITE_ENABLED
        PROVE  Page \notin area.bottom .. area.top
    <3>1. ~Touches(area, o, last)
      BY <2>2, <2>5, <2>8 DEF protection_check
    <3> HIDE DEF o, last
    <3> QED BY <2>3, <2>6, <3>1 DEF Touches
  <2>9. ASSUME call.lock = 1
        PROVE  ~device.first /\ device.family # "060" /\ (device.family = "090/150" => b = 0)
    <3>1. /\ ~device.first /\ device.family # "060"
          /\ device.family = "090/150" => o + call.length <= NVM1_BOTTOM_OFFSET
      BY <2>9 DEF IInv, Permitted
    <3>2. o + call.length <= NVM1_BOTTOM_OFFSET => b = 0
      <4>1. b = BlockOf(Here)
        BY <2>1, <2>2, BlockOfPageOf DEF Page
      <4>2. NVM1_BOTTOM_OFFSET \in Nat /\ call.length \in Nat
        BY NvmAssumption DEF NVM1_BOTTOM_OFFSET, PAGES_PER_BLOCK, IInv, TypeOK, CallSet
      <4> HIDE DEF o
      <4> QED BY <2>2, <4>1, <4>2 DEF BlockOf
    <3> QED BY <3>1, <3>2
  <2> QED BY <2>1, <2>7, <2>8, <2>9
<1> QED BY <1>1, Bookkeeping, PTL

(* The end of a command changes bytes of the range that the call was asked *)
(* to write and no other byte of a page.                                   *)
THEOREM OnlyTheRangeAlways == NvmSpec => OnlyTheRange
<1>1. IInv /\ [NvmNext]_nvm =>
        [\A b \in 0 .. 1 : ctrl[b].busy /\ ~ctrl'[b].busy =>
           \A p \in DOMAIN flash', i \in 0 .. BYTES_PER_PAGE - 1 :
             InRange(p, i) \/ flash'[p][i] = Content(p)[i]]_nvm
  <2> SUFFICES ASSUME IInv, [NvmNext]_nvm, NEW b \in 0 .. 1, ctrl[b].busy, ~ctrl'[b].busy,
                      NEW p \in DOMAIN flash', NEW i \in 0 .. BYTES_PER_PAGE - 1
               PROVE  InRange(p, i) \/ flash'[p][i] = Content(p)[i]
    OBVIOUS
  <2>1. call.at = "wait" /\ b = BlockOfPage(Page) /\ ctrl[b] \in ControllerSet
    BY DEF IInv, Commanded, TypeOK
  <2>2. CASE flash' = flash
    BY <2>2 DEF Content
  <2>3. ASSUME NEW x \in 0 .. 1, Finish(x) PROVE InRange(p, i) \/ flash'[p][i] = Content(p)[i]
    <3>1. PICK bits \in SUBSET Bits :
            LET programs == ctrl[b].cmd \in {"PROG", "UNLOCK_PROG"} /\ bits \subseteq {"WRCNT_OVER"}
            IN  /\ \A q : Content(q)' = IF programs /\ q = Page THEN ctrl[b].wd ELSE Content(q)
                /\ programs => \A q \in DOMAIN flash' : flash'[q] = Content(q)'
                /\ ~programs => flash' = flash
      BY <2>1, <2>3, Finished DEF IInv
    <3>2. CASE ctrl[b].cmd \in {"PROG", "UNLOCK_PROG"} /\ bits \subseteq {"WRCNT_OVER"}
      <4>1. flash'[p] = IF p = Page THEN ctrl[b].wd ELSE Content(p)
        BY <3>1, <3>2
      <4>2. InRange(Page, i) \/ ctrl[b].wd[i] = Content(Page)[i]
        BY <3>2 DEF IInv, WithinRange
      <4> QED BY <4>1, <4>2
    <3>3. CASE ~(ctrl[b].cmd \in {"PROG", "UNLOCK_PROG"} /\ bits \subseteq {"WRCNT_OVER"})
      BY <2>2, <3>1, <3>3
    <3> QED BY <3>2, <3>3
  <2>4. CASE \E x \in 0 .. 1 : FabricTakes(x) \/ FabricWrites(x) \/ FabricGives(x)
    <3>1. ctrl' = ctrl
      BY <2>4, FabricLeaves DEF IInv
    <3> QED BY <3>1
  <2>5. CASE Starts \/ Driver \/ UNCHANGED nvm
    BY <2>2, <2>5, DriverLeaves
  <2> QED BY <2>3, <2>4, <2>5, Cases DEF Others
<1> QED BY <1>1, Bookkeeping, PTL DEF NvmSpec, OnlyTheRange

=============================================================================
