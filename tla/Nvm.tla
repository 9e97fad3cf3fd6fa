-------------------------------- MODULE Nvm ---------------------------------
(***************************************************************************)
(* The eNVM driver of drivers/mss_nvm/mss_nvm.c: writing, unlocking and    *)
(* reading the write count of pages of two flash blocks, which a master in *)
(* the fabric uses too.                                                    *)
(*                                                                         *)
(* A call is a step for everything up to the request of access, one for    *)
(* every attempt to get a block, and for a page one to fill the buffer and *)
(* issue the command and one for every look at STATUS.  Pages are numbered *)
(* through both blocks.  A byte is <<call, i>>, the i-th one of the data   *)
(* of a call, <<0, 0>> before any was written.  The controllers of the     *)
(* flash and the other master are external.                                *)
(***************************************************************************)
EXTENDS Integers, Sequences, FiniteSets

CONSTANTS BYTES_PER_PAGE, NB_OF_BYTES_IN_A_WORD,
          Devices,      \* [family, first, users]: the device, whether it is one
                        \* of the first two revisions of M2S050, its protection
          Calls,        \* [op, start_addr, length, lock_page] of the application
          MaxCalls,     \* bound on the calls
          MaxTries,     \* attempts to get a block before the timeout
          MaxFabric     \* bound on the pages that the other master writes

ASSUME NvmAssumption ==
  /\ BYTES_PER_PAGE \in Nat \ {0} /\ NB_OF_BYTES_IN_A_WORD \in Nat \ {0}
  /\ BYTES_PER_PAGE % NB_OF_BYTES_IN_A_WORD = 0 /\ MaxTries \in Nat \ {0}

ASSUME CallAssumption ==
  Calls \subseteq [op : {"write", "unlock", "count"}, start_addr : Nat, length : Nat,
                   lock_page : Nat]

ASSUME DeviceAssumption ==
  Devices \subseteq [family : {"005", "010/025/050", "060", "090/150"}, first : BOOLEAN,
                     users : [0 .. 3 -> {0, 1, 8, 9}]]   \* by PROTECT_USER_MASK

VARIABLES device,
          envmCr,               \* FREQRNG of ENVM_CR: "design" or "max"
          REQ_ACCESS,           \* who has each block
          flash, locked,        \* pages that were written; pages that are locked
          ctrl,                 \* the controller of each block
          g_envm_ctrl_locks, g_do_not_lock_page,
          call,                 \* the call under way, its locals
          outcomes,             \* status bits the controllers gave to it
          calls, fabric         \* counted for the bounds

nvm == <<device, envmCr, REQ_ACCESS, flash, locked, ctrl, g_envm_ctrl_locks,
         g_do_not_lock_page, call, outcomes, calls, fabric>>

PAGES_PER_BLOCK    == 2048
NVM1_BOTTOM_OFFSET == PAGES_PER_BLOCK * BYTES_PER_PAGE
NVM_TOP_OFFSET     == 2 * NVM1_BOTTOM_OFFSET - 1
NVM_BASE_ADDRESS   == 1610612736        \* 0x60000000

BlockOf(offset) == IF offset < NVM1_BOTTOM_OFFSET THEN 0 ELSE 1
PageOf(offset)  == offset \div BYTES_PER_PAGE
BlockOfPage(p)  == IF p >= PAGES_PER_BLOCK THEN 1 ELSE 0

-----------------------------------------------------------------------------
(* Protected areas by the nibble of ENVM_PROTECT_USER that protects them,  *)
(* and the reserved end of each family, in pages; the nibbles that keep    *)
(* pages from being locked.                                                *)
READ_ONLY     == 1
WRITE_ONLY    == 8
NO_READ_WRITE == 0
WRITE_ENABLED == 9

Area(user, bottom, top) == [user |-> user, bottom |-> bottom, top |-> top]

M2S005 == [areas |-> {Area(0, 0, 31), Area(1, 992, 1023)},
           reserved |-> 1008, pages |-> 1024, unlocked |-> {0, 1}]
M2S050 == [areas |-> {Area(0, 0, 31), Area(1, 2016, 2047)},
           reserved |-> 2032, pages |-> 2048, unlocked |-> {0, 1}]
M2S060 == [areas |-> {Area(0, 0, 31), Area(3, 1952, 1983)},
           reserved |-> 1984, pages |-> 2048, unlocked |-> {}]
M2S090 == [areas |-> {Area(0, 0, 31), Area(3, 3936, 3967), Area(2, 3968, 3999),
                      Area(1, 4000, 4031)},
           reserved |-> 4032, pages |-> 4096, unlocked |-> {0}]

Layout == CASE device.family = "005"         -> M2S005
            [] device.family = "010/025/050" -> M2S050
            [] device.family = "060"         -> M2S060
            [] device.family = "090/150"     -> M2S090

(* Reading the write count of a page is told by a length of 0. *)
protection_check(user, length) == ~(user = READ_ONLY /\ length = 0)

Last(offset, length) == IF length = 0 THEN offset ELSE offset + length - 1

(* Mutant: only the first byte is looked at. *)
TouchesFirst(area, offset, last) ==
  PageOf(offset) >= area.bottom /\ PageOf(offset) <= area.top

Touches(area, offset, last) ==
  \/ PageOf(offset) >= area.bottom /\ PageOf(offset) <= area.top
  \/ PageOf(last) >= area.bottom /\ PageOf(offset) < area.bottom

check_protection_reserved_nvm(offset, length) ==
  LET last == Last(offset, length)
      protected == \E area \in Layout.areas :
                     /\ device.users[area.user] # WRITE_ENABLED
                     /\ Touches(area, offset, last)
                     /\ protection_check(device.users[area.user], length)
  IN  CASE protected                       -> "PROTECTION_ERROR"
        [] ~protected /\ PageOf(last) >= Layout.pages -> "INVALID_PARAMETER"
        [] ~protected /\ PageOf(last) < Layout.pages /\ PageOf(last) >= Layout.reserved
                                           -> "PROTECTION_ERROR"
        [] OTHER                           -> "SUCCESS"

(* Then check_protection_reserved_nvm sets g_do_not_lock_page. *)
DoNotLock(offset) ==
  /\ \E user \in Layout.unlocked : device.users[user] \in {WRITE_ONLY, NO_READ_WRITE}
  /\ device.family = "090/150" => offset < NVM1_BOTTOM_OFFSET

(* Pages that may not be locked are written unlocked, with a warning. *)
LockRefused(flag, offset, length) ==
  \/ flag
  \/ device.family = "090/150" /\ offset + length > NVM1_BOTTOM_OFFSET
  \/ device.family = "060"

-----------------------------------------------------------------------------
OldPage == [i \in 0 .. BYTES_PER_PAGE - 1 |-> <<0, 0>>]
Content(p) == IF p \in DOMAIN flash THEN flash[p] ELSE OldPage
Unknown == <<-1, -1>>

(* What a read of a page in the address map returns. *)
ReadPage(p) == IF ctrl[BlockOfPage(p)].aux THEN [i \in DOMAIN OldPage |-> Unknown]
               ELSE Content(p)

Controller == [cmd |-> "none", page |-> 0, wd |-> OldPage, lock |-> 0, status |-> {},
               busy |-> FALSE, valid |-> TRUE, aux |-> FALSE]

Idle == [at |-> "idle", op |-> "none", offset |-> 0, length |-> 0, lock |-> 0, warn |-> FALSE,
         done |-> 0, status |-> "SUCCESS", blocks |-> << >>, tries |-> 0, reads |-> 0]

NvmInit ==
  /\ device \in Devices /\ envmCr = "design"
  /\ REQ_ACCESS = [b \in 0 .. 1 |-> "none"]
  /\ flash = << >> /\ locked = {}
  /\ ctrl = [b \in 0 .. 1 |-> Controller]
  /\ g_envm_ctrl_locks = {} /\ g_do_not_lock_page = FALSE
  /\ call = Idle /\ outcomes = {} /\ calls = 0 /\ fabric = 0

Go(at) == call' = [call EXCEPT !.at = at]

(* Mutant: a call uses the block it starts in. *)
NeedsFirst(offset, length) == <<BlockOf(offset)>>

(* The blocks that a call needs, in the order get_ctrl_access asks for. *)
Needs(offset, length) ==
  IF offset >= NVM1_BOTTOM_OFFSET THEN <<1>>
  ELSE IF Last(offset, length) >= NVM1_BOTTOM_OFFSET THEN <<0, 1>> ELSE <<0>>

BadAddress(a) == \/ a >= NVM_BASE_ADDRESS + NVM_TOP_OFFSET
                 \/ a >= NVM_TOP_OFFSET /\ a < NVM_BASE_ADDRESS

Offset(a) == a % (NVM_TOP_OFFSET + 1)

Begin(c) ==
  /\ call.at = "idle" /\ calls < MaxCalls /\ c \in Calls
  /\ calls' = calls + 1 /\ outcomes' = {}
  /\ UNCHANGED <<device, REQ_ACCESS, flash, locked, ctrl, g_envm_ctrl_locks, fabric>>

Proceed(c, length, status) ==
  [Idle EXCEPT !.at = IF status = "SUCCESS" THEN "access" ELSE "restore",
               !.op = c.op, !.offset = Offset(c.start_addr), !.length = length,
               !.status = status, !.blocks = Needs(Offset(c.start_addr), length)]

NVM_write(c) ==
  /\ c.op = "write" /\ Begin(c) /\ envmCr' = "max"
  /\ LET offset  == Offset(c.start_addr)
         invalid == BadAddress(c.start_addr) \/ c.length = 0 \/ c.lock_page > 2
         status  == IF invalid THEN "INVALID_PARAMETER"
                    ELSE check_protection_reserved_nvm(offset, c.length)
         lock    == IF device.first THEN 0 ELSE c.lock_page
         flag    == ~invalid /\ DoNotLock(offset)      \* off before
         refused == lock = 1 /\ LockRefused(flag, offset, c.length)
     IN  /\ g_do_not_lock_page' = flag
         /\ call' = [Proceed(c, c.length, status) EXCEPT
                       !.lock = IF refused THEN 0 ELSE lock, !.warn = refused]

NVM_unlock(c) ==
  /\ c.op = "unlock" /\ Begin(c) /\ envmCr' = "max"
  /\ LET invalid == BadAddress(c.start_addr) \/ c.length = 0
     IN  /\ call' = Proceed(c, c.length,
                            IF invalid THEN "INVALID_PARAMETER"
                            ELSE check_protection_reserved_nvm(Offset(c.start_addr), c.length))
         /\ g_do_not_lock_page' =
              (g_do_not_lock_page \/ (~invalid /\ DoNotLock(Offset(c.start_addr))))

NVM_read_page_write_count(c) ==
  /\ c.op = "count" /\ Begin(c)
  /\ LET invalid == BadAddress(c.start_addr)
     IN  /\ call' = Proceed(c, 1, IF invalid THEN "INVALID_PARAMETER"
                                  ELSE check_protection_reserved_nvm(Offset(c.start_addr), 0))
         /\ g_do_not_lock_page' =
              (g_do_not_lock_page \/ (~invalid /\ DoNotLock(Offset(c.start_addr))))
  /\ UNCHANGED envmCr

-----------------------------------------------------------------------------
(* The blocks recorded as held are given back. *)
release_ctrl_access ==
  /\ REQ_ACCESS' = [b \in 0 .. 1 |-> IF b \in g_envm_ctrl_locks THEN "none" ELSE REQ_ACCESS[b]]
  /\ g_envm_ctrl_locks' = {}

(* Mutant: the first block is forgotten. *)
KeptWhenRefused == UNCHANGED <<REQ_ACCESS, g_envm_ctrl_locks>>

(* The second block is refused. *)
WhenRefused == release_ctrl_access

(* Mutant: the attempts are not counted. *)
NotCounted(tries) == tries

Counted(tries) == tries + 1

(* One attempt of request_nvm_access to get the next block; get_ctrl_access *)
(* gives the first one back when the second one is refused.                *)
request_nvm_access ==
  /\ call.at = "access"
  /\ LET b == Head(call.blocks)
     IN  \/ /\ REQ_ACCESS[b] # "fabric"
            /\ REQ_ACCESS' = [REQ_ACCESS EXCEPT ![b] = "m3"]
            /\ g_envm_ctrl_locks' = g_envm_ctrl_locks \cup {b}
            /\ call' = [call EXCEPT !.blocks = Tail(@), !.tries = 0,
                                    !.at = IF Len(call.blocks) = 1 THEN "page" ELSE "access"]
         \/ /\ REQ_ACCESS[b] = "fabric" /\ Counted(call.tries) < MaxTries
            /\ call' = [call EXCEPT !.tries = Counted(@)]
            /\ UNCHANGED <<REQ_ACCESS, g_envm_ctrl_locks>>
         \/ /\ REQ_ACCESS[b] = "fabric" /\ Counted(call.tries) = MaxTries
            /\ WhenRefused
            /\ call' = [call EXCEPT !.status = "IN_USE_BY_OTHER_MASTER", !.at = "restore"]
  /\ UNCHANGED <<device, envmCr, flash, locked, ctrl, g_do_not_lock_page, outcomes, calls,
                 fabric>>

get_remaining_page_length(offset, length) ==
  LET last_page == (offset + length) \div BYTES_PER_PAGE
  IN  IF last_page >= offset \div BYTES_PER_PAGE + 1
      THEN BYTES_PER_PAGE - (offset % BYTES_PER_PAGE) ELSE length

(* Mutant: the words in front of the data are rounded down. *)
WordsBefore(i) == i \div NB_OF_BYTES_IN_A_WORD

(* Words that begin in front of byte i of a page. *)
WordsUpto(i) == (i + NB_OF_BYTES_IN_A_WORD - 1) \div NB_OF_BYTES_IN_A_WORD

(* WD: the data, over what is in the page, over what was in WD.  A page    *)
(* that is written as a whole is not read first.                           *)
fill_wd_buffer(wd, old, first, length, done) ==
  LET front == WordsUpto(first) * NB_OF_BYTES_IN_A_WORD
      back  == (((first + length) % BYTES_PER_PAGE) \div NB_OF_BYTES_IN_A_WORD)
                 * NB_OF_BYTES_IN_A_WORD
  IN  [i \in DOMAIN wd |->
         IF i >= first /\ i < first + length THEN <<calls, done + i - first + 1>>
         ELSE IF length # BYTES_PER_PAGE /\ (i < front \/ i >= back) THEN old[i] ELSE wd[i]]

Here    == call.offset + call.done
Page    == PageOf(Here)
Written == get_remaining_page_length(Here, call.length - call.done)

Command(b, c, cmd, page) ==
  ctrl' = [ctrl EXCEPT ![b] = [c EXCEPT !.cmd = cmd, !.page = page, !.busy = TRUE, !.valid = FALSE,
                                        !.status = @ \cap {"DENIED"}]]

(* An access that was denied earlier is cleared first. *)
DeniedCleared(c) == [c EXCEPT !.status = @ \ {"DENIED"}]

(* write_nvm, and a turn of the loop of NVM_unlock, which writes a page    *)
(* with what is in it.  NVM_unlock leaves the number of the block in the   *)
(* address; the controller does not look at it.                            *)
ProgramPage ==
  /\ call.at = "page" /\ call.op \in {"write", "unlock"}
  /\ LET b == BlockOfPage(Page)
         c == DeniedCleared(ctrl[b])
         wd == IF call.op = "write"
               THEN fill_wd_buffer(c.wd, ReadPage(Page), Here % BYTES_PER_PAGE, Written, call.done)
               ELSE ReadPage(Page)
     IN  /\ Command(b, [c EXCEPT !.wd = wd, !.lock = call.lock],
                    IF call.op = "write" THEN "PROG" ELSE "UNLOCK_PROG", Page)
         /\ call' = [call EXCEPT !.at = "wait", !.reads = 0]
  /\ UNCHANGED <<device, envmCr, REQ_ACCESS, flash, locked, g_envm_ctrl_locks,
                 g_do_not_lock_page, outcomes, calls, fabric>>

(* The page is read while the bit that selects its auxiliary data is set. *)
ReadCount ==
  /\ call.at = "page" /\ call.op = "count"
  /\ LET b == BlockOf(call.offset)
     IN  Command(b, [ctrl[b] EXCEPT !.aux = TRUE], "READ", Page)
  /\ call' = [call EXCEPT !.at = "wait", !.reads = 0]
  /\ UNCHANGED <<device, envmCr, REQ_ACCESS, flash, locked, g_envm_ctrl_locks,
                 g_do_not_lock_page, outcomes, calls, fabric>>

WRITE_ERROR_MASK == {"VERIFY_FAIL", "WVERIFY_FAIL", "PEFAIL_LOCK", "DENIED"}

(* Mutant: a worn page is looked at before a failed verification. *)
WornFirst(bits) ==
  CASE "DENIED" \in bits      -> "PROTECTION_ERROR"
    [] "PEFAIL_LOCK" \in bits -> "PAGE_LOCK_ERROR"
    [] "WRCNT_OVER" \in bits  -> "WRITE_THRESHOLD_WARNING"
    [] OTHER -> IF bits = {} THEN "SUCCESS" ELSE "VERIFY_FAILURE"

get_error_code(bits) ==
  IF "DENIED" \in bits THEN "PROTECTION_ERROR"
  ELSE IF "PEFAIL_LOCK" \in bits THEN "PAGE_LOCK_ERROR"
  ELSE IF bits \cap {"VERIFY_FAIL", "WVERIFY_FAIL"} # {} THEN "VERIFY_FAILURE"
  ELSE IF "WRCNT_OVER" \in bits THEN "WRITE_THRESHOLD_WARNING" ELSE "SUCCESS"

(* STATUS is believed the second time that it says ready. *)
ReadsReady == 2

(* STATUS right behind the end of a command may not show its outcome yet. *)
Seen(c) == IF c.valid THEN {c.status} ELSE {c.status, {}}

(* The end of a page: the status that NVM_write and NVM_unlock keep, and   *)
(* whether they go on.                                                     *)
EndOfPage(bits, size) ==
  LET status == IF bits = {} THEN call.status ELSE get_error_code(bits)
      more   == status \in {"SUCCESS", "WRITE_THRESHOLD_WARNING"} /\ call.done + size < call.length
  IN  [call EXCEPT !.status = status, !.done = @ + size,
                   !.at = IF more THEN "page" ELSE "release"]

Unlocked == BYTES_PER_PAGE - (Here % BYTES_PER_PAGE)

wait_nvm_ready ==
  /\ call.at = "wait" /\ call.op # "none"
  /\ LET b == BlockOfPage(Page)
         c == ctrl[b]
     IN  /\ ~c.busy
         /\ \/ /\ call.reads + 1 < ReadsReady
               /\ call' = [call EXCEPT !.reads = @ + 1]
               /\ ctrl' = [ctrl EXCEPT ![b].valid = TRUE]
            \/ /\ call.reads + 1 = ReadsReady
               /\ \E bits \in Seen(c) :
                    \/ /\ c.cmd = "PROG" /\ bits \cap WRITE_ERROR_MASK = {}
                       /\ Command(b, c, "VERIFY", Page)
                       /\ call' = [call EXCEPT !.reads = 0]
                    \/ /\ c.cmd \in {"PROG", "VERIFY"}
                       /\ c.cmd = "PROG" => bits \cap WRITE_ERROR_MASK # {}
                       /\ call' = EndOfPage(bits, Written)
                       /\ UNCHANGED ctrl
                    \/ /\ c.cmd = "UNLOCK_PROG"
                       /\ call' = EndOfPage(bits, Unlocked)
                       /\ UNCHANGED ctrl
                    \/ /\ c.cmd = "READ"
                       /\ Go("release")
                       /\ ctrl' = [ctrl EXCEPT ![b].aux = FALSE]
  /\ UNCHANGED <<device, envmCr, REQ_ACCESS, flash, locked, g_envm_ctrl_locks,
                 g_do_not_lock_page, outcomes, calls, fabric>>

Release ==
  /\ call.at = "release" /\ release_ctrl_access /\ Go("restore")
  /\ UNCHANGED <<device, envmCr, flash, locked, ctrl, g_do_not_lock_page, outcomes, calls,
                 fabric>>

(* ENVM_CR is given back on every way out of the functions that change it; *)
(* only NVM_write leaves g_do_not_lock_page off.                           *)
Return ==
  /\ call.at = "restore"
  /\ envmCr' = IF call.op = "count" THEN envmCr ELSE "design"
  /\ g_do_not_lock_page' = (g_do_not_lock_page /\ call.op # "write")
  /\ call' = [call EXCEPT !.at = "idle",
                          !.status = IF @ = "SUCCESS" /\ call.warn THEN "PAGE_LOCK_WARNING" ELSE @]
  /\ UNCHANGED <<device, REQ_ACCESS, flash, locked, ctrl, g_envm_ctrl_locks, outcomes, calls,
                 fabric>>

-----------------------------------------------------------------------------
(* The controllers. *)
Finish(b) ==
  /\ ctrl[b].busy
  /\ LET c == ctrl[b]
     IN  \E bits \in {{}, {"WVERIFY_FAIL"}, {"DENIED"}, {"PEFAIL_LOCK"}, {"VERIFY_FAIL"},
                      {"WRCNT_OVER"}, {"VERIFY_FAIL", "WRCNT_OVER"}} :
           /\ CASE c.cmd = "PROG" /\ c.page \in locked -> bits = {"PEFAIL_LOCK"}
                [] c.cmd = "PROG" /\ c.page \notin locked ->
                                     bits \in {{}, {"WVERIFY_FAIL"}, {"DENIED"}}
                [] c.cmd = "UNLOCK_PROG" -> bits \in {{}, {"WVERIFY_FAIL"}, {"WRCNT_OVER"}, {"DENIED"}}
                [] c.cmd = "VERIFY" ->
                     bits \in {{}, {"VERIFY_FAIL"}, {"WRCNT_OVER"}, {"VERIFY_FAIL", "WRCNT_OVER"}}
                [] c.cmd = "READ" -> bits = {}
           /\ LET programs == c.cmd \in {"PROG", "UNLOCK_PROG"} /\ bits \subseteq {"WRCNT_OVER"}
              IN  /\ flash' = IF programs
                              THEN [p \in DOMAIN flash \cup {c.page} |->
                                      IF p = c.page THEN c.wd ELSE flash[p]]
                              ELSE flash
                  /\ locked' = IF ~programs THEN locked
                               ELSE IF c.lock = 1 THEN locked \cup {c.page} ELSE locked \ {c.page}
           /\ ctrl' = [ctrl EXCEPT ![b] = [c EXCEPT !.busy = FALSE, !.status = @ \cup bits]]
           /\ outcomes' = outcomes \cup bits
  /\ UNCHANGED <<device, envmCr, REQ_ACCESS, g_envm_ctrl_locks, g_do_not_lock_page, call,
                 calls, fabric>>

(* The other master takes a block, writes a page of it, gives it back.     *)
FabricTakes(b) ==
  /\ REQ_ACCESS[b] = "none" /\ fabric < MaxFabric
  /\ REQ_ACCESS' = [REQ_ACCESS EXCEPT ![b] = "fabric"]
  /\ fabric' = fabric + 1
  /\ UNCHANGED <<device, envmCr, flash, locked, ctrl, g_envm_ctrl_locks, g_do_not_lock_page,
                 call, outcomes, calls>>

FabricWrites(b) ==
  /\ REQ_ACCESS[b] = "fabric" /\ call.at # "idle" /\ BlockOfPage(Page) = b
  /\ flash' = [p \in DOMAIN flash \cup {Page} |->
                 IF p = Page THEN [i \in DOMAIN OldPage |-> <<99, 99>>] ELSE flash[p]]
  /\ UNCHANGED <<device, envmCr, REQ_ACCESS, locked, ctrl, g_envm_ctrl_locks,
                 g_do_not_lock_page, call, outcomes, calls, fabric>>

FabricGives(b) ==
  /\ REQ_ACCESS[b] = "fabric"
  /\ REQ_ACCESS' = [REQ_ACCESS EXCEPT ![b] = "none"]
  /\ UNCHANGED <<device, envmCr, flash, locked, ctrl, g_envm_ctrl_locks, g_do_not_lock_page,
                 call, outcomes, calls, fabric>>

Driver == request_nvm_access \/ ProgramPage \/ ReadCount \/ wait_nvm_ready \/ Release \/ Return

NvmNext ==
  \/ \E c \in Calls : NVM_write(c) \/ NVM_unlock(c) \/ NVM_read_page_write_count(c)
  \/ Driver
  \/ \E b \in 0 .. 1 : Finish(b) \/ FabricTakes(b) \/ FabricWrites(b) \/ FabricGives(b)

NvmSpec == NvmInit /\ [][NvmNext]_nvm

(* The processor goes on with the call, and a command ends; nothing makes  *)
(* the other master give a block back.                                     *)
FairNvmSpec == NvmSpec /\ WF_nvm(Driver) /\ \A b \in 0 .. 1 : WF_nvm(Finish(b))

-----------------------------------------------------------------------------
(* Both masters never use a block at once: whatever the driver does to a   *)
(* controller, it has the block, and knows that it has.                    *)
Exclusive ==
  /\ \A b \in 0 .. 1 : b \in g_envm_ctrl_locks <=> REQ_ACCESS[b] = "m3"
  /\ call.at \in {"page", "wait"} => REQ_ACCESS[BlockOfPage(Page)] = "m3"
  /\ \A b \in 0 .. 1 : ctrl[b].busy => REQ_ACCESS[b] = "m3"

(* Whatever way a call took, behind it no block is held, the frequency     *)
(* range is that of the design and the auxiliary data are closed.          *)
NothingLeftBehind ==
  call.at = "idle" => /\ g_envm_ctrl_locks = {} /\ envmCr = "design"
                      /\ \A b \in 0 .. 1 : REQ_ACCESS[b] # "m3" /\ ~ctrl[b].aux

InRange(p, i) == LET o == p * BYTES_PER_PAGE + i
                 IN  call.op = "write" /\ o >= call.offset /\ o < call.offset + call.length

(* A call changes the bytes it is asked to, and no other ones of the pages *)
(* that it writes: not at the edge of a word, nor from what the buffer or  *)
(* the other master left.                                                  *)
OnlyTheRange ==
  [][\A b \in 0 .. 1 : ctrl[b].busy /\ ~ctrl'[b].busy =>
       \A p \in DOMAIN flash', i \in 0 .. BYTES_PER_PAGE - 1 :
         InRange(p, i) \/ flash'[p][i] = Content(p)[i]]_nvm

(* A call says that it was successful when, and only when, every page went *)
(* without an error, and then all its data are in the flash; a worn page   *)
(* is a warning, unless another one had an error.                          *)
StatusIsTrue ==
  call.at = "release" =>
    /\ call.status = "SUCCESS" => outcomes = {}
    /\ call.status = "WRITE_THRESHOLD_WARNING" => outcomes = {"WRCNT_OVER"}
    /\ call.status \notin {"SUCCESS", "WRITE_THRESHOLD_WARNING"} => outcomes \cap WRITE_ERROR_MASK # {}
    /\ call.op = "write" /\ call.status \in {"SUCCESS", "WRITE_THRESHOLD_WARNING"} =>
         \A i \in 1 .. call.length :
           LET o == call.offset + i - 1
           IN  Content(PageOf(o))[o % BYTES_PER_PAGE] = <<calls, i>>
    /\ call.op = "unlock" /\ call.status \in {"SUCCESS", "WRITE_THRESHOLD_WARNING"} =>
         \A o \in call.offset .. call.offset + call.length - 1 : PageOf(o) \notin locked

(* No page is written that the device reserves or whose area the user      *)
(* protects, and none is locked that cannot be unlocked again.             *)
ProtectedUntouched ==
  \A b \in 0 .. 1 : ctrl[b].busy /\ ctrl[b].cmd \in {"PROG", "UNLOCK_PROG"} =>
    /\ ctrl[b].page < Layout.reserved
    /\ \A area \in Layout.areas :
         device.users[area.user] # WRITE_ENABLED => ctrl[b].page \notin area.bottom .. area.top
    /\ ctrl[b].lock = 1 => ~device.first /\ device.family # "060"
                           /\ (device.family = "090/150" => b = 0)

(* A call returns, even when the other master never gives a block back.    *)
NvmCallReturns == (call.at # "idle") ~> (call.at = "idle")

=============================================================================
