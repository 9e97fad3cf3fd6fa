--------------------------- MODULE SysCallsProofs ---------------------------
(***************************************************************************)
(* Proofs about SysCalls: for every device with its dividers, every        *)
(* sequence of requests, and every controller, with what has to be assumed *)
(* of it in the theorems that need it.                                     *)
(***************************************************************************)
EXTENDS SysCalls, TLAPS

Offered  == Services \cup Enrolling
Todos    == {r.todo : r \in Interface}
Dividers == [1 .. 4 -> 0 .. 7]
Setting  == {"design", "program"}
Results  == {"none", "SUCCESS", "FAILURE", "DISABLED_BY_USER", "CLK_DIVISOR_ERROR"}

CallSet ==
  [at : {"idle", "start", "asserted", "clocks", "send", "wait"}, todo : Todos \cup {<< >>},
   main : 1 .. 2, n : 1 .. 2, field : 1 .. 5, k : 1 .. 5, result : Results]

TypeOK ==
  /\ device \in [family : {Wide, "005", "060", "other"}, revision : Nat, div : Dividers]
  /\ div \in Dividers /\ standby \in BOOLEAN /\ envm \in Setting /\ facc2 \in Setting
  /\ divisor \in Dividers
  /\ saved \in [div : Dividers, standby : BOOLEAN, envm : Setting, facc2 : Setting]
  /\ call \in CallSet
  /\ busy \in BOOLEAN /\ programming \in BOOLEAN
  /\ isr \in [field : 0 .. 5, k : 0 .. 5]
  /\ sent \in Offered \cup {Nobody} /\ phase \in {"idle", "work", "frozen", "thawed"}
  /\ answers \in [1 .. 2 -> Results]
  /\ enrolled \in BOOLEAN /\ ispDone \in BOOLEAN /\ calls \in Nat /\ spoilt \in BOOLEAN

-----------------------------------------------------------------------------
(* Whose turn it is: the caller waits while the controller performs its    *)
(* service, but for a bitstream, which leaves the driver idle meanwhile.   *)
Performing == phase # "idle"
Pending    == call.at \in {"clocks", "send", "wait"}

Turns ==
  /\ call.at # "idle" => call.todo \in Todos /\ call.n <= Len(call.todo)
  /\ call.at \in {"idle", "start"} => call.field = 1 /\ call.k = 1
  /\ call.at = "clocks" => Now.switches
  /\ call.at = "wait" => Now.how # "paged" /\ (busy <=> Performing)
  /\ Performing => /\ sent \in Offered
                   /\ \/ sent.how = "paged" /\ call.at = "idle" /\ ~ispDone
                      \/ sent.how # "paged" /\ call.at = "wait" /\ ispDone /\ sent = Now
  /\ ~ispDone => Performing
  /\ phase \in {"frozen", "thawed"} => sent.switches
  /\ isr.field > 0 => phase = "thawed"

(* The registers are set for programming while a service programs.         *)
Programs == \/ Pending /\ Now.programs
            \/ Performing /\ sent.programs

Programmed ==
  /\ Programs => envm = "program" /\ facc2 = "program"
  /\ Performing /\ sent.how = "paged" => programming = sent.programs
  /\ call.at \in {"clocks", "send"} /\ Now.how = "paged" => programming = Now.programs

(* What is saved is what the design has, and so is what is in force.       *)
Designed ==
  ~spoilt => /\ saved.envm = "design" /\ saved.facc2 = "design"
             /\ ~Programs => envm = "design" /\ facc2 = "design"

-----------------------------------------------------------------------------
(* How far a divider of M2S005 is on its way from what was saved.          *)
Way(f)  == determine_seq(divisor[f])
Near(f) == div[f] = divisor[f]
Far(f)  == IF Way(f) = << >> THEN Near(f) ELSE div[f] = Way(f)[Len(Way(f))]

(* The clocks of the service that is sent or performed are divided.        *)
Switched == \/ call.at = "send" /\ Now.switches
            \/ phase \in {"work", "frozen"} /\ sent.switches

Divided ==
  Switched =>
    /\ device.family = Wide  => \A i \in 1 .. 4 : div[i] = DividedBy32
    /\ device.family = "005" => \A i \in 1 .. 4 : Far(i)
    /\ device.family = "060" => \A i \in 1 .. 4 : div[i] = div[1]

WalkingOut ==
  call.at = "clocks" /\ device.family = "005" =>
    /\ \A i \in 1 .. 4 : i < call.field => Far(i)
    /\ call.k > 1 => /\ call.field <= 4 /\ call.k < Len(Way(call.field))
                     /\ div[call.field] = Way(call.field)[call.k]

WalkingBack ==
  isr.field > 0 /\ device.family = "005" =>
    /\ \A i \in 1 .. 4 : /\ i < isr.field => Near(i)
                         /\ i > isr.field => Far(i)
    /\ isr.field <= 4 =>
         LET w == Way(isr.field)
         IN  \/ isr.k = Len(w) /\ Far(isr.field)
             \/ isr.k < Len(w) /\ div[isr.field] = w[isr.k + 1]

(* The inductive invariant of a controller that may refuse anything.       *)
IInv == /\ TypeOK /\ Turns /\ Programmed /\ Designed
        /\ Divided /\ WalkingOut /\ WalkingBack

-----------------------------------------------------------------------------
(* With a controller that refuses no service that switches clocks.         *)
Undivided == div = device.div /\ ~standby

SavedDividers == saved.div = device.div /\ ~saved.standby

AtRest ==
  \/ call.at \in {"start", "asserted"}
  \/ call.at \in {"idle", "wait"} /\ ~Performing
  \/ call.at = "send" /\ ~Now.switches
  \/ Performing /\ ~sent.switches
  \/ phase = "thawed" /\ Free

Restored ==
  /\ SavedDividers
  /\ AtRest => Undivided
  /\ call.at = "clocks" =>
       /\ ~standby
       /\ device.family # "005" => div = device.div
       /\ device.family = "005" =>
            \A i \in 1 .. 4 :
              IF i < call.field \/ (i = call.field /\ call.k > 1)
              THEN divisor[i] = device.div[i] ELSE div[i] = device.div[i]
  /\ Switched \/ isr.field > 0 =>
       /\ device.family = "005" => divisor = device.div
       /\ device.family \in {"060", "other"} => div = device.div
  /\ isr.field > 0 => ~standby \/ device.family \in {Wide, "005"}

(* With a controller that does not refuse to tell the number of keys.      *)
Unlocked ==
  enrolled => /\ call.at # "idle" /\ Len(call.todo) = 2
              /\ call.todo[2] = MSS_SYS_puf_get_number_of_keys
              /\ call.n = 2 /\ call.at = "wait" => Performing

-----------------------------------------------------------------------------
(* The catalogue.  A service is sound when its parameter block is well     *)
(* formed and it switches the clocks if it programs.  What tells the       *)
(* services that enroll from the others is the operation, and for the ones *)
(* that share it the parameters.                                           *)
Sound(s) ==
  /\ s.switches \in BOOLEAN /\ s.programs \in BOOLEAN /\ (s.programs => s.switches)
  /\ s.how \in {"ptr", "cmd", "paged"}
  /\ WellFormed(s)

Apart(s) ==
  /\ s.op # 25
  /\ s.op = 26 => \/ Len(s.fields) = 1
                  \/ Len(s.fields) = 2 /\ s.fields[2] = <<1, ADDRESS>>

(* Every service that leaves nothing behind is sound.                      *)
LEMMA ServicesSound == \A s \in Services : Sound(s) /\ Apart(s)
<1> USE DEF Sound, Apart, WellFormed, Overlap, Service, Fetch, Block, Command, Lacking, ADDRESS

<1>1. Sound(MSS_SYS_get_serial_number) /\ Apart(MSS_SYS_get_serial_number)
  BY DEF MSS_SYS_get_serial_number
<1>2. Sound(MSS_SYS_get_user_code) /\ Apart(MSS_SYS_get_user_code)
  BY DEF MSS_SYS_get_user_code
<1>3. Sound(MSS_SYS_get_design_version) /\ Apart(MSS_SYS_get_design_version)
  BY DEF MSS_SYS_get_design_version
<1>4. Sound(MSS_SYS_get_device_certificate) /\ Apart(MSS_SYS_get_device_certificate)
  BY DEF MSS_SYS_get_device_certificate
<1>5. /\ Sound(MSS_SYS_get_secondary_device_certificate)
      /\ Apart(MSS_SYS_get_secondary_device_certificate)
  BY DEF MSS_SYS_get_secondary_device_certificate
<1>6. Sound(MSS_SYS_128bit_aes) /\ Apart(MSS_SYS_128bit_aes)
  BY DEF MSS_SYS_128bit_aes
<1>7. Sound(MSS_SYS_256bit_aes) /\ Apart(MSS_SYS_256bit_aes)
  BY DEF MSS_SYS_256bit_aes
<1>8. Sound(MSS_SYS_sha256) /\ Apart(MSS_SYS_sha256)
  BY DEF MSS_SYS_sha256
<1>9. Sound(MSS_SYS_hmac) /\ Apart(MSS_SYS_hmac)
  BY DEF MSS_SYS_hmac
<1>10. Sound(MSS_SYS_key_tree) /\ Apart(MSS_SYS_key_tree)
  BY DEF MSS_SYS_key_tree
<1>11. Sound(MSS_SYS_challenge_response) /\ Apart(MSS_SYS_challenge_response)
  BY DEF MSS_SYS_challenge_response
<1>12. Sound(MSS_SYS_ecc_point_multiplication) /\ Apart(MSS_SYS_ecc_point_multiplication)
  BY DEF MSS_SYS_ecc_point_multiplication
<1>13. Sound(MSS_SYS_ecc_point_addition) /\ Apart(MSS_SYS_ecc_point_addition)
  BY DEF MSS_SYS_ecc_point_addition
<1>14. Sound(MSS_SYS_nrbg_reset) /\ Apart(MSS_SYS_nrbg_reset)
  BY DEF MSS_SYS_nrbg_reset
<1>15. Sound(MSS_SYS_nrbg_self_test) /\ Apart(MSS_SYS_nrbg_self_test)
  BY DEF MSS_SYS_nrbg_self_test
<1>16. Sound(MSS_SYS_nrbg_instantiate) /\ Apart(MSS_SYS_nrbg_instantiate)
  BY DEF MSS_SYS_nrbg_instantiate
<1>17. Sound(MSS_SYS_nrbg_generate) /\ Apart(MSS_SYS_nrbg_generate)
  BY DEF MSS_SYS_nrbg_generate
<1>18. Sound(MSS_SYS_nrbg_reseed) /\ Apart(MSS_SYS_nrbg_reseed)
  BY DEF MSS_SYS_nrbg_reseed
<1>19. Sound(MSS_SYS_nrbg_uninstantiate) /\ Apart(MSS_SYS_nrbg_uninstantiate)
  BY DEF MSS_SYS_nrbg_uninstantiate
<1>20. Sound(MSS_SYS_puf_get_number_of_keys) /\ Apart(MSS_SYS_puf_get_number_of_keys)
  BY DEF MSS_SYS_puf_get_number_of_keys
<1>21. Sound(MSS_SYS_puf_fetch_key) /\ Apart(MSS_SYS_puf_fetch_key)
  BY DEF MSS_SYS_puf_fetch_key
<1>22. Sound(MSS_SYS_puf_export_keycodes) /\ Apart(MSS_SYS_puf_export_keycodes)
  BY DEF MSS_SYS_puf_export_keycodes
<1>23. Sound(MSS_SYS_puf_import_keycodes) /\ Apart(MSS_SYS_puf_import_keycodes)
  BY DEF MSS_SYS_puf_import_keycodes
<1>24. Sound(MSS_SYS_puf_fetch_ecc_public_key) /\ Apart(MSS_SYS_puf_fetch_ecc_public_key)
  BY DEF MSS_SYS_puf_fetch_ecc_public_key
<1>25. Sound(MSS_SYS_puf_get_random_seed) /\ Apart(MSS_SYS_puf_get_random_seed)
  BY DEF MSS_SYS_puf_get_random_seed
<1>26. Sound(MSS_SYS_start_clock_monitor) /\ Apart(MSS_SYS_start_clock_monitor)
  BY DEF MSS_SYS_start_clock_monitor
<1>27. Sound(MSS_SYS_stop_clock_monitor) /\ Apart(MSS_SYS_stop_clock_monitor)
  BY DEF MSS_SYS_stop_clock_monitor
<1>28. Sound(MSS_SYS_enable_puf_power_down) /\ Apart(MSS_SYS_enable_puf_power_down)
  BY DEF MSS_SYS_enable_puf_power_down
<1>29. Sound(MSS_SYS_disable_puf_power_down) /\ Apart(MSS_SYS_disable_puf_power_down)
  BY DEF MSS_SYS_disable_puf_power_down
<1>30. Sound(MSS_SYS_clear_lock_parity) /\ Apart(MSS_SYS_clear_lock_parity)
  BY DEF MSS_SYS_clear_lock_parity
<1>31. Sound(MSS_SYS_clear_mesh_short) /\ Apart(MSS_SYS_clear_mesh_short)
  BY DEF MSS_SYS_clear_mesh_short
<1>32. Sound(MSS_SYS_flash_freeze) /\ Apart(MSS_SYS_flash_freeze)
  BY DEF MSS_SYS_flash_freeze
<1>33. Sound(MSS_SYS_check_digest(TRUE)) /\ Apart(MSS_SYS_check_digest(TRUE))
  BY DEF MSS_SYS_check_digest
<1>34. Sound(MSS_SYS_check_digest(FALSE)) /\ Apart(MSS_SYS_check_digest(FALSE))
  BY DEF MSS_SYS_check_digest
<1>35. Sound(MSS_SYS_initiate_iap(TRUE)) /\ Apart(MSS_SYS_initiate_iap(TRUE))
  BY DEF MSS_SYS_initiate_iap
<1>36. Sound(MSS_SYS_initiate_iap(FALSE)) /\ Apart(MSS_SYS_initiate_iap(FALSE))
  BY DEF MSS_SYS_initiate_iap
<1>37. Sound(MSS_SYS_start_isp(TRUE)) /\ Apart(MSS_SYS_start_isp(TRUE))
  BY DEF MSS_SYS_start_isp
<1>38. Sound(MSS_SYS_start_isp(FALSE)) /\ Apart(MSS_SYS_start_isp(FALSE))
  BY DEF MSS_SYS_start_isp
<1> HIDE DEF Sound, Apart
<1> QED
  BY ONLY <1>1, <1>2, <1>3, <1>4, <1>5, <1>6, <1>7, <1>8, <1>9, <1>10, <1>11, <1>12,
     <1>13, <1>14, <1>15, <1>16, <1>17, <1>18, <1>19, <1>20, <1>21, <1>22, <1>23, <1>24,
     <1>25, <1>26, <1>27, <1>28, <1>29, <1>30, <1>31, <1>32, <1>33, <1>34, <1>35, <1>36,
     <1>37, <1>38 DEF Services

(* And so is every service that enrolls, none of which is one of those.    *)
LEMMA EnrollingSound == \A s \in Enrolling : Sound(s) /\ ~Apart(s)
<1> USE DEF Sound, Apart, WellFormed, Overlap, Service, Fetch, Block, Command, Lacking, ADDRESS

<1>1. Sound(MSS_SYS_puf_create_activation_code) /\ ~Apart(MSS_SYS_puf_create_activation_code)
  BY DEF MSS_SYS_puf_create_activation_code
<1>2. Sound(MSS_SYS_puf_delete_activation_code) /\ ~Apart(MSS_SYS_puf_delete_activation_code)
  BY DEF MSS_SYS_puf_delete_activation_code
<1>3. Sound(MSS_SYS_puf_enroll_key) /\ ~Apart(MSS_SYS_puf_enroll_key)
  BY DEF MSS_SYS_puf_enroll_key
<1>4. Sound(MSS_SYS_puf_delete_key) /\ ~Apart(MSS_SYS_puf_delete_key)
  BY DEF MSS_SYS_puf_delete_key
<1> HIDE DEF Sound, Apart
<1> QED BY ONLY <1>1, <1>2, <1>3, <1>4 DEF Enrolling

(* The two kinds of service have nothing in common.                        *)
LEMMA OfferedSound ==
  /\ \A s \in Offered : Sound(s)
  /\ \A s \in Services : s \notin Enrolling
BY ServicesSound, EnrollingSound DEF Offered

(* The services that requests are made of.                                 *)
LEMMA KnownServices ==
  /\ MSS_SYS_puf_get_number_of_keys \in Services
  /\ ~MSS_SYS_puf_get_number_of_keys.switches
  /\ MSS_SYS_puf_get_number_of_keys.how # "paged"
  /\ MSS_SYS_check_digest(TRUE) \in Services /\ MSS_SYS_check_digest(TRUE).how # "paged"
  /\ MSS_SYS_initiate_iap(FALSE) \in Services /\ MSS_SYS_start_isp(FALSE) \in Services
<1>1. /\ MSS_SYS_puf_get_number_of_keys \in Services /\ MSS_SYS_check_digest(TRUE) \in Services
      /\ MSS_SYS_initiate_iap(FALSE) \in Services /\ MSS_SYS_start_isp(FALSE) \in Services
  BY DEF Services
<1>2. /\ ~MSS_SYS_puf_get_number_of_keys.switches
      /\ MSS_SYS_puf_get_number_of_keys.how # "paged"
  BY DEF MSS_SYS_puf_get_number_of_keys, Service, Fetch, Block, Lacking
<1>3. MSS_SYS_check_digest(TRUE).how # "paged"
  BY DEF MSS_SYS_check_digest, Service, Command, Lacking
<1> QED BY <1>1, <1>2, <1>3

(* No enrolling service is a bitstream.                                    *)
LEMMA EnrollingAtOnce == \A s \in Enrolling : s.how # "paged"
BY DEF Enrolling, MSS_SYS_puf_create_activation_code, MSS_SYS_puf_delete_activation_code,
       MSS_SYS_puf_enroll_key, MSS_SYS_puf_delete_key, Service, Fetch, Block, Lacking

(* What requests look like.                                                *)
LEMMA InterfaceForms ==
  ASSUME NEW r \in Interface
  PROVE  \/ \E s \in Services : r = Alone(s)
         \/ \E s \in Enrolling : r = Unlocking(s)
         \/ \E s \in Services : r = Verifying(s)
BY KnownServices, Zenon DEF Interface

(* A request is one or two services; a bitstream is the last of them, and  *)
(* an enrolling service is followed by the question that unlocks eNVM-1.   *)
LEMMA Requested ==
  ASSUME NEW t \in Todos
  PROVE  /\ Len(t) \in 1 .. 2
         /\ t # << >>
         /\ \A i \in 1 .. Len(t) :
              /\ t[i] \in Offered
              /\ t[i].how = "paged" => i = Len(t)
              /\ t[i] \in Enrolling =>
                   i = 1 /\ Len(t) = 2 /\ t[2] = MSS_SYS_puf_get_number_of_keys
<1> DEFINE Fine == /\ Len(t) \in 1 .. 2
                   /\ t # << >>
                   /\ \A i \in 1 .. Len(t) :
                        /\ t[i] \in Offered
                        /\ t[i].how = "paged" => i = Len(t)
                        /\ t[i] \in Enrolling =>
                             i = 1 /\ Len(t) = 2 /\ t[2] = MSS_SYS_puf_get_number_of_keys
<1>1. PICK r \in Interface : t = r.todo BY DEF Todos
<1>2. (\E s \in Services : r = Alone(s)) => Fine
  BY <1>1, OfferedSound DEF Alone, Offered
<1>3. (\E s \in Enrolling : r = Unlocking(s)) => Fine
  BY <1>1, OfferedSound, KnownServices, EnrollingAtOnce DEF Unlocking, Offered
<1>4. (\E s \in Services : r = Verifying(s)) => Fine
  <2> SUFFICES ASSUME NEW s \in Services, r = Verifying(s) PROVE Fine
    OBVIOUS
  <2>1. t = <<MSS_SYS_check_digest(TRUE), s>> BY <1>1 DEF Verifying
  <2>2. Len(t) = 2 /\ t[1] = MSS_SYS_check_digest(TRUE) /\ t[2] = s BY <2>1
  <2>3. t[1] \in Offered /\ t[2] \in Offered /\ t[1] \notin Enrolling /\ t[2] \notin Enrolling
    BY <2>2, OfferedSound, KnownServices DEF Offered
  <2>4. t[1].how # "paged" BY <2>2, KnownServices
  <2>5. t # << >> BY <2>2
  <2>6. ASSUME NEW i \in 1 .. Len(t)
        PROVE  t[i] \in Offered /\ t[i] \notin Enrolling /\ (t[i].how = "paged" => i = 2)
    <3>1. i = 1 \/ i = 2 BY <2>2
    <3> QED BY <3>1, <2>3, <2>4, Zenon
  <2>7. Len(t) \in 1 .. 2 BY <2>2
  <2> QED BY <2>2, <2>5, <2>6, <2>7, Zenon
<1> HIDE DEF Fine
<1>5. Fine BY <1>2, <1>3, <1>4, InterfaceForms, Zenon
<1> QED BY <1>5 DEF Fine

(* Every request names the first or the second of its services.            *)
LEMMA RequestTyped ==
  ASSUME NEW r \in Requests PROVE r.todo \in Todos /\ r.main \in 1 .. 2
<1>1. r \in Interface BY RequestsAssumption
<1>2. /\ \A s : Alone(s).main \in 1 .. 2 /\ Unlocking(s).main \in 1 .. 2
      /\ \A s : Verifying(s).main \in 1 .. 2
  BY DEF Alone, Unlocking, Verifying
<1>3. r.main \in 1 .. 2 BY <1>1, <1>2, InterfaceForms, Zenon
<1> QED BY <1>1, <1>3 DEF Todos

-----------------------------------------------------------------------------
(* The sequences of M2S005.                                                *)
OneBit(m, n) == \E b \in {1, 2, 4} : Bits(n) = (Bits(m) \cup {b}) \ (Bits(m) \cap {b})

(* The values of three bits.                                               *)
LEMMA BitsOf ==
  /\ Bits(0) = {} /\ Bits(1) = {1} /\ Bits(2) = {2} /\ Bits(3) = {1, 2}
  /\ Bits(4) = {4} /\ Bits(5) = {1, 4} /\ Bits(6) = {2, 4} /\ Bits(7) = {1, 2, 4}
BY DEF Bits

(* The neighbours in the sequences differ in one bit, either way.          *)
LEMMA Neighbours ==
  /\ OneBit(0, 1) /\ OneBit(1, 5) /\ OneBit(5, 7) /\ OneBit(2, 3) /\ OneBit(3, 1)
  /\ OneBit(4, 6) /\ OneBit(6, 7)
  /\ OneBit(1, 0) /\ OneBit(5, 1) /\ OneBit(7, 5) /\ OneBit(3, 2) /\ OneBit(1, 3)
  /\ OneBit(6, 4) /\ OneBit(7, 6)
<1>1. OneBit(0, 1) /\ OneBit(3, 2) BY BitsOf DEF OneBit
<1>2. OneBit(1, 5) /\ OneBit(7, 6) BY BitsOf DEF OneBit
<1>3. OneBit(5, 7) /\ OneBit(1, 3) BY BitsOf DEF OneBit
<1>4. OneBit(2, 3) /\ OneBit(1, 0) BY BitsOf DEF OneBit
<1>5. OneBit(3, 1) /\ OneBit(6, 4) BY BitsOf DEF OneBit
<1>6. OneBit(4, 6) /\ OneBit(5, 1) BY BitsOf DEF OneBit
<1>7. OneBit(6, 7) /\ OneBit(7, 5) BY BitsOf DEF OneBit
<1> QED BY <1>1, <1>2, <1>3, <1>4, <1>5, <1>6, <1>7

(* A sequence starts at the value it is for and ends divided by 32; there  *)
(* is none for the two values that are not changed.                        *)
LEMMA Sequence ==
  ASSUME NEW v \in 0 .. 7
  PROVE  LET s == determine_seq(v)
         IN  /\ Len(s) \in {0, 2, 3, 4, 5}
             /\ s = << >> <=> Len(s) = 0
             /\ s = << >> => v \in {3, 7}
             /\ s # << >> => s[1] = v /\ s[Len(s)] = 7
             /\ \A k \in 1 .. Len(s) : s[k] \in 0 .. 7
             /\ \A k \in 1 .. Len(s) - 1 : OneBit(s[k], s[k + 1]) /\ OneBit(s[k + 1], s[k])
<1> DEFINE Right(s) ==
      /\ Len(s) \in {0, 2, 3, 4, 5}
      /\ s = << >> <=> Len(s) = 0
      /\ s = << >> => v \in {3, 7}
      /\ s # << >> => s[1] = v /\ s[Len(s)] = 7
      /\ \A k \in 1 .. Len(s) : s[k] \in 0 .. 7
      /\ \A k \in 1 .. Len(s) - 1 : OneBit(s[k], s[k + 1]) /\ OneBit(s[k + 1], s[k])
<1>1. v = 0 => Right(<<0, 1, 5, 7>>) BY Neighbours
<1>2. v = 1 => Right(<<1, 5, 7>>) BY Neighbours
<1>3. v = 2 => Right(<<2, 3, 1, 5, 7>>) BY Neighbours
<1>4. v = 4 => Right(<<4, 6, 7>>) BY Neighbours
<1>5. v = 5 => Right(<<5, 7>>) BY Neighbours
<1>6. v = 6 => Right(<<6, 7>>) BY Neighbours
<1>7. v \in {3, 7} => Right(<< >>) OBVIOUS
<1> HIDE DEF Right
<1>8. Right(determine_seq(v))
  BY <1>1, <1>2, <1>3, <1>4, <1>5, <1>6, <1>7 DEF determine_seq
<1> QED BY <1>8 DEF Right

LEMMA SequenceBounds ==
  ASSUME NEW v \in 0 .. 7
  PROVE  /\ Len(determine_seq(v)) \in 0 .. 5
         /\ \A k \in 1 .. Len(determine_seq(v)) : determine_seq(v)[k] \in 0 .. 7
<1> DEFINE w == determine_seq(v)
<1>1. Len(w) \in {0, 2, 3, 4, 5} /\ \A k \in 1 .. Len(w) : w[k] \in 0 .. 7 BY Sequence
<1> HIDE DEF w
<1>2. Len(w) \in 0 .. 5 BY <1>1
<1> QED BY <1>1, <1>2 DEF w

-----------------------------------------------------------------------------
(* The service that a call is at is one of the catalogue.                  *)
LEMMA Current ==
  ASSUME TypeOK, Turns, call.at # "idle"
  PROVE  /\ call.todo \in Todos /\ call.n \in 1 .. 2 /\ call.n <= Len(call.todo)
         /\ Now \in Offered /\ Sound(Now)
         /\ Now.how = "paged" => call.n = Len(call.todo)
<1>1. call.todo \in Todos /\ call.n <= Len(call.todo) BY DEF Turns
<1>2. call.n \in 1 .. 2 BY DEF TypeOK, CallSet
<1>3. call.n \in 1 .. Len(call.todo) BY <1>1, <1>2, Requested
<1>4. Now \in Offered /\ (Now.how = "paged" => call.n = Len(call.todo))
  BY <1>1, <1>3, Requested, Zenon DEF Now
<1> QED BY <1>1, <1>2, <1>4, OfferedSound

(* A call whose fields are updated is a call.                              *)
LEMMA CallUpdated ==
  ASSUME NEW c \in CallSet, NEW at \in {"idle", "start", "asserted", "clocks", "send", "wait"},
         NEW n \in 1 .. 2, NEW field \in 1 .. 5, NEW k \in 1 .. 5, NEW result \in Results
  PROVE  [c EXCEPT !.at = at, !.n = n, !.field = field, !.k = k, !.result = result] \in CallSet
BY DEF CallSet

(* Its place may be any there is.                                          *)
LEMMA CallMoved ==
  ASSUME NEW c \in CallSet, NEW at \in {"idle", "start", "asserted", "clocks", "send", "wait"}
  PROVE  /\ [c EXCEPT !.at = at] \in CallSet /\ [c EXCEPT !.at = at].at = at
         /\ [c EXCEPT !.at = at].todo = c.todo /\ [c EXCEPT !.at = at].n = c.n
         /\ [c EXCEPT !.at = at].field = c.field /\ [c EXCEPT !.at = at].k = c.k
BY DEF CallSet

(* And so may its position in the sequences.                               *)
LEMMA CallWalked ==
  ASSUME NEW c \in CallSet, NEW field \in 1 .. 5, NEW k \in 1 .. 5
  PROVE  /\ [c EXCEPT !.k = k] \in CallSet
         /\ [c EXCEPT !.k = k].at = c.at
         /\ [c EXCEPT !.k = k].todo = c.todo /\ [c EXCEPT !.k = k].n = c.n
         /\ [c EXCEPT !.k = k].field = c.field /\ [c EXCEPT !.k = k].k = k
         /\ [c EXCEPT !.field = field, !.k = k] \in CallSet
         /\ [c EXCEPT !.field = field, !.k = k].at = c.at
         /\ [c EXCEPT !.field = field, !.k = k].todo = c.todo
         /\ [c EXCEPT !.field = field, !.k = k].n = c.n
         /\ [c EXCEPT !.field = field, !.k = k].field = field
         /\ [c EXCEPT !.field = field, !.k = k].k = k
BY DEF CallSet

(* Where Over leaves a call.                                               *)
LEMMA Finished ==
  ASSUME TypeOK, Turns, call.at # "idle", NEW r \in Results
  PROVE  /\ Over(r) \in CallSet
         /\ Over(r).todo = call.todo /\ Over(r).field = 1 /\ Over(r).k = 1
         /\ \/ Over(r).at = "idle" /\ call.n = Len(call.todo)
            \/ /\ Over(r).at = "start" /\ Over(r).n = 2
               /\ call.n = 1 /\ Len(call.todo) = 2
<1> DEFINE last == call.n = Len(call.todo)
           at   == IF last THEN "idle" ELSE "start"
           n    == IF last THEN 1 ELSE call.n + 1
           res  == IF call.n = call.main THEN r ELSE call.result
<1>1. call \in CallSet BY DEF TypeOK
<1>2. Over(r) = [call EXCEPT !.at = at, !.n = n, !.field = 1, !.k = 1, !.result = res]
  BY <1>1 DEF Over, CallSet
<1>3. call.n \in 1 .. 2 /\ call.n <= Len(call.todo) /\ Len(call.todo) \in 1 .. 2
  BY Current, Requested
<1>4. call.result \in Results BY <1>1 DEF CallSet
<1>5. res \in Results BY <1>4, Zenon
<1> DEFINE l == Len(call.todo)
           m == call.n
<1>6. n \in 1 .. 2
  <2>1. CASE last BY <2>1
  <2>2. CASE ~last
    <3>1. m \in 1 .. 2 /\ m <= l /\ l \in 1 .. 2 /\ m # l BY <1>3, <2>2
    <3> HIDE DEF m, l
    <3>2. m = 1 BY <3>1
    <3>3. n = m + 1 BY <2>2 DEF m
    <3> QED BY <3>2, <3>3
  <2> QED BY <2>1, <2>2
<1>7. \/ at = "idle" /\ call.n = Len(call.todo)
      \/ at = "start" /\ n = 2 /\ call.n = 1 /\ Len(call.todo) = 2
  <2>1. CASE last BY <2>1
  <2>2. CASE ~last
    <3>1. m \in 1 .. 2 /\ m <= l /\ l \in 1 .. 2 /\ m # l BY <1>3, <2>2
    <3> HIDE DEF m, l
    <3>2. m = 1 /\ l = 2 BY <3>1
    <3>3. n = m + 1 /\ at = "start" BY <2>2 DEF m
    <3> QED BY <3>2, <3>3 DEF m, l
  <2> QED BY <2>1, <2>2
<1> HIDE DEF at, n, res
<1>8. Over(r) \in CallSet
  <2>1. at \in {"idle", "start", "asserted", "clocks", "send", "wait"} BY <1>7
  <2>2. 1 \in 1 .. 5 OBVIOUS
  <2>3. [call EXCEPT !.at = at, !.n = n, !.field = 1, !.k = 1, !.result = res] \in CallSet
    BY <1>1, <1>5, <1>6, <2>1, <2>2, CallUpdated, Zenon
  <2> QED BY <1>2, <2>3, Zenon
<1>9. /\ Over(r).todo = call.todo /\ Over(r).field = 1 /\ Over(r).k = 1
      /\ Over(r).at = at /\ Over(r).n = n
  BY <1>1, <1>2 DEF CallSet
<1> QED BY <1>7, <1>8, <1>9

(* The dividers stay three bits wide, whatever a step writes.              *)
LEMMA TypeInit == SysCallsInit => TypeOK
<1> SUFFICES ASSUME SysCallsInit PROVE TypeOK OBVIOUS
<1>1. device \in [family : {Wide, "005", "060", "other"}, revision : Nat, div : Dividers]
  BY DevicesAssumption DEF SysCallsInit, Dividers
<1>2. call \in CallSet
  BY DEF SysCallsInit, Idle, CallSet, Results
<1>3. divisor \in Dividers BY DEF SysCallsInit, Dividers
<1>4. answers \in [1 .. 2 -> Results] BY DEF SysCallsInit, Results
<1>5. saved \in [div : Dividers, standby : BOOLEAN, envm : Setting, facc2 : Setting]
  BY <1>1 DEF SysCallsInit, Setting
<1>6. isr \in [field : 0 .. 5, k : 0 .. 5] BY DEF SysCallsInit
<1>7. div \in Dividers BY <1>1 DEF SysCallsInit
<1> QED BY <1>1, <1>2, <1>3, <1>4, <1>5, <1>6, <1>7 DEF SysCallsInit, TypeOK, Setting

(* The walk of clk_switching_fix.                                          *)
LEMMA WalkTyped ==
  ASSUME TypeOK, Turns, WalkingOut, call.at = "clocks", DivideInSequence
  PROVE  /\ call' \in CallSet /\ div' \in Dividers /\ divisor' \in Dividers
         /\ standby' \in BOOLEAN
<1> USE DEF TypeOK, Dividers
<1>1. call \in CallSet OBVIOUS
<1>2. call.field \in 1 .. 5 /\ call.k \in 1 .. 5 BY DEF CallSet
<1>3. CASE call.field <= 4
  <2> DEFINE f == call.field
             val == IF call.k = 1 THEN div[f] ELSE divisor[f]
             seq == determine_seq(val)
             k == call.k + 1
  <2>1. f \in 1 .. 4 BY <1>2, <1>3
  <2>2. val \in 0 .. 7 BY <2>1
  <2>3. /\ divisor' = [divisor EXCEPT ![f] = val]
        /\ div' = IF k <= Len(seq) THEN [div EXCEPT ![f] = seq[k]] ELSE div
        /\ call' = IF k < Len(seq) THEN [call EXCEPT !.k = k]
                   ELSE [call EXCEPT !.field = f + 1, !.k = 1]
        /\ standby' = standby
    BY <2>1 DEF DivideInSequence, Step
  <2> HIDE DEF val
  <2>4. Len(seq) \in {0, 2, 3, 4, 5} /\ \A i \in 1 .. Len(seq) : seq[i] \in 0 .. 7
    BY <2>2, Sequence
  <2> HIDE DEF seq, f
  <2>5. divisor' \in Dividers BY <2>1, <2>2, <2>3
  <2>6. k \in 2 .. 6 BY <1>2
  <2>7. k <= Len(seq) => seq[k] \in 0 .. 7 BY <2>4, <2>6
  <2>8. div' \in Dividers BY <2>1, <2>3, <2>7
  <2>9. k < Len(seq) => k \in 1 .. 5 BY <2>4, <2>6
  <2>10. f + 1 \in 1 .. 5 /\ 1 \in 1 .. 5 BY <2>1
  <2>11. call' \in CallSet
    <3>1. CASE k < Len(seq) BY <1>1, <2>3, <2>9, <3>1, CallWalked, Zenon
    <3>2. CASE ~(k < Len(seq)) BY <1>1, <2>3, <2>10, <3>2, CallWalked, Zenon
    <3> QED BY <3>1, <3>2
  <2> QED BY <2>3, <2>5, <2>8, <2>11
<1>4. CASE call.field = 5
  <2>1. call' = [call EXCEPT !.at = "send"] /\ div' = div /\ divisor' = divisor /\ standby' = TRUE
    BY <1>4 DEF DivideInSequence, Step, Go
  <2>2. call' \in CallSet BY <1>1, <2>1, CallMoved
  <2> QED BY <2>1, <2>2
<1> QED BY <1>2, <1>3, <1>4

(* The way back of revert_clk_config.                                      *)
LEMMA RevertTyped ==
  ASSUME TypeOK, WalkingBack
  PROVE  /\ \A f \in 1 .. 5 : Revert(f) \in [field : 0 .. 5, k : 0 .. 5]
         /\ revert_clk_config => /\ isr' \in [field : 0 .. 5, k : 0 .. 5]
                                 /\ div' \in Dividers /\ standby' \in BOOLEAN
<1> USE DEF TypeOK
<1>1. ASSUME NEW f \in 1 .. 5 PROVE Revert(f) \in [field : 0 .. 5, k : 0 .. 5]
  <2>1. CASE f <= 4
    <3>1. divisor[f] \in 0 .. 7 BY <2>1 DEF Dividers
    <3>2. Len(determine_seq(divisor[f])) \in 0 .. 5 BY ONLY <3>1, SequenceBounds, Zenon
    <3> QED BY <3>2, <2>1 DEF Revert
  <2>2. CASE f = 5 BY <2>2 DEF Revert
  <2> QED BY <2>1, <2>2
<1>2. SUFFICES ASSUME revert_clk_config
               PROVE  /\ isr' \in [field : 0 .. 5, k : 0 .. 5]
                      /\ div' \in Dividers /\ standby' \in BOOLEAN
  BY <1>1
<1>3. NoRevert \in [field : 0 .. 5, k : 0 .. 5] BY DEF NoRevert
<1>4. CASE device.family = Wide
  <2>1. div' = saved.div /\ standby' = saved.standby /\ isr' = NoRevert
    BY <1>2, <1>4 DEF revert_clk_config, Wide
  <2> QED BY <1>3, <2>1
<1>5. CASE device.family = "005" /\ isr.field <= 4
  <2>1. isr.field \in 1 .. 4 /\ isr.k \in 0 .. 5 BY <1>2, <1>5 DEF revert_clk_config
  <2> DEFINE f == isr.field
             w == determine_seq(divisor[f])
  <2>2. /\ \/ isr.k < 1 /\ isr' = Revert(f + 1) /\ div' = div
           \/ isr.k >= 1 /\ div' = [div EXCEPT ![f] = w[isr.k]] /\ isr' = [isr EXCEPT !.k = @ - 1]
        /\ standby' = standby
    BY <1>2, <1>5, <2>1 DEF revert_clk_config, Wide, FirstOfSequence
  <2>3. divisor[f] \in 0 .. 7 BY <2>1 DEF Dividers
  <2>4. Len(w) \in 0 .. 5 /\ \A i \in 1 .. Len(w) : w[i] \in 0 .. 7 BY ONLY <2>3, SequenceBounds, Zenon
  <2>5. isr.k <= Len(w) BY <1>5, <2>1, <2>4 DEF WalkingBack, Way
  <2> HIDE DEF w
  <2>6. CASE isr.k < 1
    <3>1. isr' = Revert(f + 1) /\ div' = div BY <2>1, <2>2, <2>6
    <3>2. f + 1 \in 1 .. 5 BY <2>1
    <3> QED BY <1>1, <2>2, <3>1, <3>2
  <2>7. CASE isr.k >= 1
    <3>1. div' = [div EXCEPT ![f] = w[isr.k]] /\ isr' = [isr EXCEPT !.k = @ - 1]
      BY <2>1, <2>2, <2>7
    <3>2. w[isr.k] \in 0 .. 7 BY <2>1, <2>4, <2>5, <2>7
    <3> QED BY <2>1, <2>2, <2>7, <3>1, <3>2 DEF Dividers
  <2> QED BY <2>1, <2>6, <2>7
<1>6. CASE device.family = "005" /\ isr.field = 5
  <2>1. standby' = FALSE /\ isr' = NoRevert /\ div' = div
    BY <1>2, <1>6 DEF revert_clk_config, Wide
  <2> QED BY <1>3, <2>1
<1>7. CASE device.family \notin {Wide, "005"}
  <2>1. standby' = standby /\ isr' = NoRevert /\ div' = div
    BY <1>2, <1>7 DEF revert_clk_config
  <2> QED BY <1>3, <2>1
<1> QED
  <2>1. isr.field \in 0 .. 5 OBVIOUS
  <2>2. isr.field <= 4 \/ isr.field = 5 BY <2>1
  <2> QED BY <1>4, <1>5, <1>6, <1>7, <2>2, Zenon

(* Every step keeps the types.                                             *)
LEMMA TypeNext ==
  ASSUME TypeOK, Turns, WalkingOut, WalkingBack, [SysCallsNext]_calling PROVE TypeOK'
<1> USE DEF registers, kept, controller
<1>0. call \in CallSet BY DEF TypeOK
<1>1. CASE Request
  <2>1. PICK r \in Requests :
          call' = [Idle EXCEPT !.at = "start", !.todo = r.todo, !.main = r.main]
    BY <1>1 DEF Request
  <2>2. call' = [at |-> "start", todo |-> r.todo, main |-> r.main, n |-> 1, field |-> 1,
                 k |-> 1, result |-> "none"]
    BY <2>1 DEF Idle
  <2>3. r.todo \in Todos /\ r.main \in 1 .. 2 /\ "none" \in Results
    BY RequestTyped DEF Results
  <2>4. call' \in CallSet BY <2>2, <2>3 DEF CallSet
  <2>5. answers' \in [1 .. 2 -> Results] BY <1>1 DEF Request, Results
  <2> QED BY <1>1, <2>4, <2>5 DEF Request, TypeOK
<1>2. CASE Refused
  <2>1. call' \in CallSet BY <1>0, <1>2, CallMoved DEF Refused, Go, Step
  <2> QED BY <1>2, <2>1 DEF Refused, TypeOK
<1>3. CASE Start
  <2>1. call' \in CallSet BY <1>0, <1>3, CallMoved DEF Start, Go, Step
  <2>2. Now.how = "paged" => Now.programs \in BOOLEAN
    BY <1>3, Current DEF Start, Sound
  <2>3. programming' \in BOOLEAN BY <1>3, <2>2 DEF Start, TypeOK
  <2>4. /\ saved' \in [div : Dividers, standby : BOOLEAN, envm : Setting, facc2 : Setting]
        /\ envm' \in Setting /\ facc2' \in Setting
    BY <1>3 DEF Start, Prepare, TypeOK, Setting
  <2> QED BY <1>3, <2>1, <2>3, <2>4 DEF Start, TypeOK
<1>4. CASE clk_switching_fix
  <2>1. CASE DivideWide
    <3>1. call' \in CallSet BY <1>0, <2>1, CallMoved DEF DivideWide, Go, Step
    <3>2. div' \in Dividers BY <2>1 DEF DivideWide, Dividers, DividedBy32
    <3> QED BY <1>4, <2>1, <3>1, <3>2 DEF clk_switching_fix, DivideWide, TypeOK
  <2>2. CASE DivideInSequence
    BY <1>4, <2>2, WalkTyped, ZenonT(60) DEF clk_switching_fix, DivideInSequence, TypeOK
  <2>3. CASE CheckDividers
    <3>1. call' \in CallSet
      <4>1. call.at # "idle" /\ "CLK_DIVISOR_ERROR" \in Results
        BY <1>4 DEF clk_switching_fix, Results
      <4>2. Over("CLK_DIVISOR_ERROR") \in CallSet BY <4>1, Finished
      <4>3. [call EXCEPT !.at = "send"] \in CallSet BY <1>0, CallMoved
      <4>4. call' = [call EXCEPT !.at = "send"] \/ call' = Over("CLK_DIVISOR_ERROR")
        BY <2>3, Zenon DEF CheckDividers, Go, Step
      <4> QED BY <4>2, <4>3, <4>4
    <3>2. spoilt' \in BOOLEAN
      BY <1>4, <2>3, Current DEF clk_switching_fix, CheckDividers, Sound, TypeOK
    <3> QED BY <1>4, <2>3, <3>1, <3>2 DEF clk_switching_fix, CheckDividers, TypeOK
  <2>4. CASE OtherDevice
    <3>1. call' \in CallSet BY <1>0, <2>4, CallMoved DEF OtherDevice, Go, Step
    <3> QED BY <1>4, <2>4, <3>1 DEF clk_switching_fix, OtherDevice, TypeOK
  <2> QED BY <1>4, <2>1, <2>2, <2>3, <2>4 DEF clk_switching_fix
<1>5. CASE Send
  <2>1. call.at # "idle" /\ "SUCCESS" \in Results BY <1>5 DEF Send, Results
  <2>2. call' \in CallSet
    <3>1. Over("SUCCESS") \in CallSet BY <2>1, Finished
    <3> QED BY <1>0, <1>5, <3>1, CallMoved DEF Send, Step
  <2>3. sent' \in Offered BY <1>5, <2>1, Current DEF Send
  <2> QED BY <1>5, <2>2, <2>3 DEF Send, TypeOK
<1>6. CASE Return
  <2>1. call.at # "idle" BY <1>6 DEF Return
  <2>2. answers[call.n] \in Results BY <2>1, Current DEF TypeOK
  <2>3. call' \in CallSet BY <1>6, <2>1, <2>2, Finished DEF Return, Step
  <2> QED BY <1>6, <2>3 DEF Return, GivenBack, TypeOK
<1>7. CASE revert_clk_config
  <2>1. isr' \in [field : 0 .. 5, k : 0 .. 5] /\ div' \in Dividers /\ standby' \in BOOLEAN
    BY <1>7, RevertTyped
  <2> QED BY <1>7, <2>1 DEF revert_clk_config, TypeOK
<1>8. CASE Freeze BY <1>8 DEF Freeze, TypeOK
<1>9. CASE Thaw
  <2>1. Revert(1) \in [field : 0 .. 5, k : 0 .. 5] BY RevertTyped
  <2> QED BY <1>9, <2>1 DEF Thaw, TypeOK
<1>10. ASSUME NEW answer \in Results, Complete(answer), enrolled' \in BOOLEAN PROVE TypeOK'
  <2>1. answers' \in [1 .. 2 -> Results]
    BY <1>10 DEF Complete, TypeOK
  <2> QED BY <1>10, <2>1 DEF Complete, GivenBack, TypeOK
<1>11. CASE Answer
  <2>1. PICK answer \in {"SUCCESS", "FAILURE"} : Complete(answer) BY <1>11 DEF Answer
  <2>2. enrolled' \in BOOLEAN BY <1>11 DEF Answer, TypeOK
  <2>3. answer \in Results BY DEF Results
  <2> QED BY <1>10, <2>1, <2>2, <2>3
<1>12. CASE Refuse
  <2>1. enrolled' \in BOOLEAN /\ "DISABLED_BY_USER" \in Results
    BY <1>12 DEF Refuse, TypeOK, Results
  <2> QED BY <1>10, <1>12, <2>1 DEF Refuse
<1>13. CASE UNCHANGED calling BY <1>13 DEF calling, TypeOK
<1> QED BY <1>1, <1>2, <1>3, <1>4, <1>5, <1>6, <1>7, <1>8, <1>9, <1>11, <1>12, <1>13
        DEF SysCallsNext

-----------------------------------------------------------------------------
(* What a step does to the call: it stays with its service and moves on,   *)
(* or the service is over.                                                 *)
MovedTo(at) ==
  /\ call'.at = at /\ call'.todo = call.todo /\ call'.n = call.n
  /\ call'.field = call.field /\ call'.k = call.k /\ Now' = Now

Ended ==
  /\ call'.todo = call.todo /\ call'.field = 1 /\ call'.k = 1
  /\ \/ call'.at = "idle" /\ call.n = Len(call.todo)
     \/ call'.at = "start" /\ call'.n = 2 /\ call.n = 1 /\ Len(call.todo) = 2

(* Go changes the place only.                                              *)
LEMMA GoMoves ==
  ASSUME TypeOK, NEW at \in {"idle", "start", "asserted", "clocks", "send", "wait"}, Go(at)
  PROVE  Free /\ MovedTo(at)
<1>1. Free /\ call' = [call EXCEPT !.at = at] BY DEF Go, Step
<1>2. call \in CallSet BY DEF TypeOK
<1> QED BY <1>1, <1>2, CallMoved DEF MovedTo, Now

(* Over ends the service.                                                  *)
LEMMA OverEnds ==
  ASSUME TypeOK, Turns, call.at # "idle", NEW r \in Results, Step(Over(r))
  PROVE  Free /\ Ended
<1>1. Free /\ call' = Over(r) BY DEF Step
<1> QED BY <1>1, Finished DEF Ended

(* An application calls when nothing is under way.                         *)
LEMMA RequestStep ==
  ASSUME Request
  PROVE  /\ call.at = "idle" /\ Free /\ ~Performing /\ ispDone
         /\ call'.at = "start" /\ call'.todo \in Todos /\ call'.n = 1
         /\ call'.field = 1 /\ call'.k = 1
<1>1. PICK r \in Requests :
        call' = [Idle EXCEPT !.at = "start", !.todo = r.todo, !.main = r.main]
  BY DEF Request
<1>2. call' = [at |-> "start", todo |-> r.todo, main |-> r.main, n |-> 1, field |-> 1,
               k |-> 1, result |-> "none"]
  BY <1>1 DEF Idle
<1> QED BY <1>2, RequestTyped DEF Request, Performing

(* A service starts with its clocks, or with its command.                  *)
LEMMA StartStep ==
  ASSUME TypeOK, Turns, Start
  PROVE  /\ call.at = "start" /\ Free /\ ~Performing /\ ispDone
         /\ Now.switches => MovedTo("clocks")
         /\ ~Now.switches => MovedTo("send")
<1>1. call.at = "start" BY DEF Start
<1>2. ~Performing /\ ispDone BY <1>1 DEF Turns
<1>3. Now.switches => Go("clocks") BY DEF Start
<1>4. ~Now.switches => Go("send") BY DEF Start
<1>5. Free BY DEF Start, Go, Step
<1> QED BY <1>1, <1>2, <1>3, <1>4, <1>5, GoMoves

(* The clocks are divided, one write more or all of them, or they cannot   *)
(* be and the service is over.                                             *)
LEMMA ClockStep ==
  ASSUME TypeOK, Turns, WalkingOut, clk_switching_fix
  PROVE  /\ call.at = "clocks" /\ Free /\ ~Performing /\ ispDone
         /\ \/ DivideWide /\ MovedTo("send")
            \/ /\ DivideInSequence /\ call.field <= 4 /\ call'.at = "clocks"
               /\ call'.todo = call.todo /\ call'.n = call.n /\ Now' = Now
            \/ DivideInSequence /\ call.field = 5 /\ MovedTo("send")
            \/ CheckDividers /\ MovedTo("send") /\ spoilt' = spoilt
            \/ CheckDividers /\ Ended /\ spoilt' = (spoilt \/ Now.programs)
            \/ OtherDevice /\ MovedTo("send")
<1>1. call.at = "clocks" BY DEF clk_switching_fix
<1>2. ~Performing /\ ispDone BY <1>1 DEF Turns
<1>3. call \in CallSet BY DEF TypeOK
<1>4. CASE DivideWide
  <2>1. Go("send") BY <1>4 DEF DivideWide
  <2> QED BY <1>1, <1>2, <1>4, <2>1, GoMoves
<1>5. CASE DivideInSequence /\ call.field <= 4
  <2>1. call.field \in 1 .. 4 /\ call.k \in 1 .. 5 BY <1>3, <1>5 DEF CallSet
  <2>2. Free /\ call' \in {[call EXCEPT !.k = call.k + 1],
                           [call EXCEPT !.field = call.field + 1, !.k = 1]}
    BY <1>5, <2>1 DEF DivideInSequence, Step
  <2>3. /\ call'.at = call.at /\ call'.todo = call.todo /\ call'.n = call.n
    BY <1>3, <2>2 DEF CallSet
  <2>4. Now' = Now BY <2>3 DEF Now
  <2> QED BY <1>1, <1>2, <1>5, <2>2, <2>3, <2>4
<1>6. CASE DivideInSequence /\ call.field = 5
  <2>1. Go("send") BY <1>6 DEF DivideInSequence
  <2> QED BY <1>1, <1>2, <1>6, <2>1, GoMoves
<1>7. CASE CheckDividers
  <2>1. "CLK_DIVISOR_ERROR" \in Results BY DEF Results
  <2>2. \/ Go("send") /\ spoilt' = spoilt
        \/ Step(Over("CLK_DIVISOR_ERROR")) /\ spoilt' = (spoilt \/ Now.programs)
    BY <1>7, Zenon DEF CheckDividers
  <2> QED BY <1>1, <1>2, <1>7, <2>1, <2>2, GoMoves, OverEnds
<1>8. CASE OtherDevice
  <2>1. Go("send") BY <1>8 DEF OtherDevice
  <2> QED BY <1>1, <1>2, <1>8, <2>1, GoMoves
<1>9. call.field <= 4 \/ call.field = 5 BY <1>3 DEF CallSet
<1> QED BY <1>4, <1>5, <1>6, <1>7, <1>8, <1>9, Zenon DEF clk_switching_fix

(* A command is sent; the caller of a bitstream does not wait for it.      *)
LEMMA SendStep ==
  ASSUME TypeOK, Turns, Send
  PROVE  /\ call.at = "send" /\ Free /\ ~Performing /\ ispDone
         /\ phase' = "work" /\ sent' = Now /\ Now \in Offered
         /\ \/ Now.how = "paged" /\ Ended /\ call'.at = "idle" /\ ~ispDone'
            \/ Now.how # "paged" /\ MovedTo("wait") /\ ispDone'
<1>1. call.at = "send" BY DEF Send
<1>2. ~Performing /\ ispDone BY <1>1 DEF Turns
<1>3. call \in CallSet /\ "SUCCESS" \in Results BY DEF TypeOK, Results
<1>4. Free /\ phase' = "work" /\ sent' = Now /\ Now \in Offered
  BY <1>1, Current DEF Send, Step
<1>5. CASE Now.how = "paged"
  <2>1. Step(Over("SUCCESS")) /\ ~ispDone' BY <1>5 DEF Send
  <2>2. Ended BY <1>1, <1>3, <2>1, OverEnds
  <2>3. call.n = Len(call.todo) BY <1>1, <1>5, Current
  <2>4. ~(call.n = 1 /\ Len(call.todo) = 2) BY <2>3
  <2>5. call'.at = "idle" BY <2>2, <2>4, Zenon DEF Ended
  <2> QED BY <1>1, <1>2, <1>4, <1>5, <2>1, <2>2, <2>5
<1>6. CASE Now.how # "paged"
  <2>1. Go("wait") /\ ispDone' BY <1>2, <1>6 DEF Send, Go
  <2> QED BY <1>1, <1>2, <1>4, <1>6, <2>1, GoMoves
<1> QED BY <1>5, <1>6

(* The answer ends the service.                                            *)
LEMMA ReturnStep ==
  ASSUME TypeOK, Turns, Return
  PROVE  call.at = "wait" /\ Free /\ ~Performing /\ ispDone /\ Ended
<1>1. call.at = "wait" /\ ~busy BY DEF Return
<1>2. ~Performing /\ ispDone BY <1>1 DEF Turns
<1>3. call.at # "idle" BY <1>1
<1>4. answers[call.n] \in Results BY <1>3, Current DEF TypeOK
<1>5. Step(Over(answers[call.n])) BY DEF Return
<1> QED BY <1>1, <1>2, <1>3, <1>4, <1>5, OverEnds

(* The controller answers what it performs, or refuses it at once.         *)
LEMMA CompleteStep ==
  ASSUME TypeOK, Turns, Answer \/ Refuse
  PROVE  /\ Free /\ Performing /\ phase' = "idle" /\ sent \in Offered
         /\ sent.how = "paged" => /\ call.at = "idle" /\ ispDone' /\ busy' = busy
                                  /\ programming => GivenBack
                                  /\ ~programming => envm' = envm /\ facc2' = facc2
         /\ sent.how # "paged" => /\ call.at = "wait" /\ ispDone' /\ ~busy' /\ sent = Now
                                  /\ envm' = envm /\ facc2' = facc2
         /\ UNCHANGED <<device, div, standby, kept, call, isr, sent, calls, spoilt>>
<1>1. PICK answer : Complete(answer) BY DEF Answer, Refuse
<1>2. Free /\ Performing BY DEF Answer, Refuse, Performing
<1>3. /\ sent.how = "paged" => call.at = "idle"
      /\ sent.how # "paged" => call.at = "wait" /\ ispDone /\ sent = Now
      /\ sent \in Offered
  BY <1>2 DEF Turns
<1> QED BY <1>1, <1>2, <1>3 DEF Complete

-----------------------------------------------------------------------------
(* The caller and the controller take turns.                               *)
LEMMA TurnsInit == SysCallsInit => Turns
BY DEF SysCallsInit, Turns, Idle, Performing, Todos

(* The end of a service leaves the turn with the caller.                   *)
LEMMA EndedTurns ==
  ASSUME Turns, call.at # "idle", Ended, ~Performing', ispDone', isr' = isr, ~(isr.field > 0)
  PROVE  Turns'
<1>1. call'.todo \in Todos BY DEF Turns, Ended
<1>2. call'.at # "idle" => call'.n <= Len(call'.todo)
  <2>1. call'.at # "idle" => call'.n = 2 /\ Len(call'.todo) = 2 BY DEF Ended
  <2>2. 2 <= 2 OBVIOUS
  <2> QED BY <2>1, <2>2, Zenon
<1>3. call'.at \in {"idle", "start"} /\ call'.field = 1 /\ call'.k = 1 BY DEF Ended
<1>4. phase' = "idle" BY DEF Performing
<1> QED BY <1>1, <1>2, <1>3, <1>4 DEF Turns

(* The turn changes with the command and with the answer only.             *)
LEMMA TurnsNext ==
  ASSUME TypeOK, Turns, WalkingOut, [SysCallsNext]_calling PROVE Turns'
<1> USE DEF registers, kept, controller
<1>0. isr.field \in 0 .. 5 /\ call.n \in 1 .. 2 BY DEF TypeOK, CallSet
<1>a. Free => ~(isr.field > 0) BY <1>0 DEF Free
<1>1. CASE Request
  <2>1. UNCHANGED <<phase, sent, ispDone, isr, busy>> BY <1>1 DEF Request
  <2>2. call'.n <= Len(call'.todo) BY RequestStep, <1>1, Requested
  <2> QED BY <1>1, <1>a, <2>1, <2>2, RequestStep DEF Turns, Performing
<1>2. CASE Refused
  <2>1. MovedTo("asserted") /\ Free BY <1>2, GoMoves DEF Refused
  <2>2. call.at = "start" /\ UNCHANGED <<phase, sent, ispDone, isr, busy>>
    BY <1>2 DEF Refused
  <2> QED BY <1>a, <2>1, <2>2 DEF Turns, Performing, MovedTo
<1>3. CASE Start
  <2>1. UNCHANGED <<phase, sent, ispDone, isr, busy>> BY <1>3 DEF Start
  <2>2. (MovedTo("clocks") /\ Now.switches) \/ MovedTo("send")
    BY <1>3, StartStep
  <2> QED BY <1>3, <1>a, <2>1, <2>2, StartStep DEF Turns, Performing, MovedTo
<1>4. CASE clk_switching_fix
  <2>1. UNCHANGED <<phase, sent, ispDone, isr, busy>> BY <1>4 DEF clk_switching_fix
  <2>2. Now.switches BY <1>4, ClockStep DEF Turns
  <2>3. \/ MovedTo("send") \/ Ended
        \/ /\ call'.at = "clocks" /\ call'.todo = call.todo /\ call'.n = call.n /\ Now' = Now
    BY <1>4, ClockStep
  <2>4. call.at = "clocks" /\ ~Performing' /\ ispDone' /\ ~(isr.field > 0)
    BY <1>4, <1>a, <2>1, ClockStep DEF Performing
  <2>5. CASE MovedTo("send") BY <2>1, <2>4, <2>5 DEF Turns, Performing, MovedTo
  <2>6. CASE Ended BY <2>1, <2>4, <2>6, EndedTurns
  <2>7. CASE /\ call'.at = "clocks" /\ call'.todo = call.todo /\ call'.n = call.n
             /\ Now' = Now
    BY <2>1, <2>2, <2>4, <2>7 DEF Turns, Performing
  <2> QED BY <2>3, <2>5, <2>6, <2>7
<1>5. CASE Send
  <2>1. isr' = isr /\ busy' = TRUE BY <1>5 DEF Send
  <2>2. call.todo \in Todos /\ call.n <= Len(call.todo) BY <1>5, SendStep DEF Turns
  <2> QED BY <1>5, <1>a, <2>1, <2>2, SendStep DEF Turns, Performing, MovedTo, Ended
<1>6. CASE Return
  <2>1. UNCHANGED <<phase, sent, ispDone, isr, busy>> BY <1>6 DEF Return
  <2>2. call.at = "wait" /\ ~Performing' /\ ispDone' /\ ~(isr.field > 0) /\ Ended
    BY <1>6, <1>a, <2>1, ReturnStep DEF Performing
  <2> QED BY <2>1, <2>2, EndedTurns
<1>7. CASE revert_clk_config
  <2>1. UNCHANGED <<call, phase, sent, ispDone, busy>> /\ isr.field > 0
    BY <1>7 DEF revert_clk_config
  <2> QED BY <2>1 DEF Turns, Performing, Now
<1>8. CASE Freeze
  <2>1. UNCHANGED <<call, sent, ispDone, isr, busy>> /\ Free /\ Performing /\ Performing'
        /\ sent.switches
    BY <1>8 DEF Freeze, Performing
  <2> QED BY <1>a, <2>1 DEF Turns, Now
<1>9. CASE Thaw
  <2>1. UNCHANGED <<call, sent, ispDone, busy>> /\ phase = "frozen" /\ phase' = "thawed"
    BY <1>9 DEF Thaw
  <2> QED BY <2>1 DEF Turns, Now, Performing
<1>10. CASE Answer \/ Refuse
  <2> QED BY <1>10, <1>a, CompleteStep DEF Turns, Now, Performing
<1>11. CASE UNCHANGED calling
  BY <1>11 DEF calling, Turns, Now, Performing
<1> QED BY <1>1, <1>2, <1>3, <1>4, <1>5, <1>6, <1>7, <1>8, <1>9, <1>10, <1>11
        DEF SysCallsNext

-----------------------------------------------------------------------------
(* The registers of programming, and what is saved of them.                *)
LEMMA ProgrammedInit == SysCallsInit => Programmed /\ Designed
BY DEF SysCallsInit, Programmed, Designed, Programs, Pending, Performing, Idle

(* When nothing is programmed the registers are what they were.            *)
LEMMA ProgrammedNext ==
  ASSUME TypeOK, Turns, WalkingOut, Programmed, Designed, [SysCallsNext]_calling
  PROVE  Programmed' /\ Designed'
<1> USE DEF registers, kept, controller
<1>1. CASE Request
  <2>1. UNCHANGED <<phase, envm, facc2, saved, spoilt>> BY <1>1 DEF Request
  <2>2. ~Programs /\ ~Programs' BY <1>1, <2>1, RequestStep DEF Programs, Pending, Performing
  <2>3. ~Performing' /\ call'.at = "start" BY <1>1, <2>1, RequestStep DEF Performing
  <2> QED BY <2>1, <2>2, <2>3 DEF Programmed, Designed
<1>2. CASE Refused
  <2>1. UNCHANGED <<phase, envm, facc2, saved, spoilt>> /\ call.at = "start"
    BY <1>2 DEF Refused
  <2>2. ~Performing /\ ~Performing' BY <2>1 DEF Turns, Performing
  <2>3. call'.at = "asserted" BY <1>2, GoMoves DEF Refused, MovedTo
  <2>4. ~Programs /\ ~Programs' BY <2>1, <2>2, <2>3 DEF Programs, Pending
  <2> QED BY <2>1, <2>2, <2>3, <2>4 DEF Programmed, Designed
<1>3. CASE Start
  <2>1. UNCHANGED <<phase, spoilt>> BY <1>3 DEF Start
  <2>2. call.at = "start" /\ ~Performing /\ ~Performing' /\ Now' = Now
        /\ call'.at \in {"clocks", "send"}
    BY <1>3, <2>1, StartStep DEF MovedTo, Performing
  <2>3. ~Programs /\ (Programs' <=> Now.programs) BY <2>2 DEF Programs, Pending
  <2>4. Now.how = "paged" => programming' = Now.programs BY <1>3 DEF Start
  <2>5. saved \in [div : Dividers, standby : BOOLEAN, envm : Setting, facc2 : Setting]
    BY DEF TypeOK
  <2>6. CASE Now.programs
    <3>1. /\ envm' = "program" /\ facc2' = "program"
          /\ saved' = [saved EXCEPT !.envm = envm, !.facc2 = facc2]
      BY <1>3, <2>6 DEF Start, Prepared, Prepare
    <3>2. saved'.envm = envm /\ saved'.facc2 = facc2 BY <2>5, <3>1
    <3> QED BY <2>1, <2>2, <2>3, <2>4, <2>6, <3>1, <3>2 DEF Programmed, Designed
  <2>7. CASE ~Now.programs
    <3>1. envm' = envm /\ facc2' = facc2 /\ saved'.envm = saved.envm /\ saved'.facc2 = saved.facc2
      BY <1>3, <2>5, <2>7 DEF Start, Prepared
    <3> QED BY <2>1, <2>2, <2>3, <2>4, <2>7, <3>1 DEF Programmed, Designed
  <2> QED BY <2>6, <2>7
<1>4. CASE clk_switching_fix
  <2>1. UNCHANGED <<phase, envm, facc2, saved, programming>> BY <1>4 DEF clk_switching_fix
  <2>2. call.at = "clocks" /\ ~Performing /\ ~Performing'
    BY <1>4, <2>1, ClockStep DEF Performing
  <2>3. Programs <=> Now.programs BY <2>2 DEF Programs, Pending
  <2>4. CASE call'.at \in {"clocks", "send"} /\ Now' = Now /\ spoilt' = spoilt
    <3>1. Programs' <=> Now.programs BY <2>2, <2>4 DEF Programs, Pending
    <3> QED BY <2>1, <2>2, <2>3, <2>4, <3>1 DEF Programmed, Designed
  <2>5. CASE Ended /\ spoilt' = (spoilt \/ Now.programs)
    <3>1. ~Programs' /\ call'.at \in {"idle", "start"}
      BY <2>2, <2>5 DEF Programs, Pending, Ended
    <3>2. ~spoilt' => ~spoilt /\ ~Programs BY <2>3, <2>5
    <3> QED BY <2>1, <2>2, <3>1, <3>2 DEF Programmed, Designed
  <2>6. \/ call'.at \in {"clocks", "send"} /\ Now' = Now /\ spoilt' = spoilt
        \/ Ended /\ spoilt' = (spoilt \/ Now.programs)
    <3>1. DivideWide \/ DivideInSequence \/ OtherDevice => spoilt' = spoilt
      BY DEF DivideWide, DivideInSequence, OtherDevice
    <3> QED BY <1>4, <3>1, ClockStep, Zenon DEF MovedTo
  <2> QED BY <2>4, <2>5, <2>6
<1>5. CASE Send
  <2>1. UNCHANGED <<envm, facc2, saved, spoilt, programming>> BY <1>5 DEF Send
  <2>2. /\ call.at = "send" /\ ~Performing /\ Performing' /\ sent' = Now
        /\ \/ Now.how = "paged" /\ call'.at = "idle"
           \/ Now.how # "paged" /\ call'.at = "wait" /\ Now' = Now
    BY <1>5, SendStep DEF Performing, MovedTo
  <2>3. Programs <=> Now.programs BY <2>2 DEF Programs, Pending
  <2>4. Programs' <=> Now.programs BY <2>2 DEF Programs, Pending
  <2> QED BY <2>1, <2>2, <2>3, <2>4 DEF Programmed, Designed
<1>6. CASE Return
  <2>1. UNCHANGED <<phase, saved, spoilt, programming>> BY <1>6 DEF Return
  <2>2. call.at = "wait" /\ ~Performing /\ ~Performing' /\ call'.at \in {"idle", "start"}
    BY <1>6, <2>1, ReturnStep DEF Performing, Ended
  <2>3. (Programs <=> Now.programs) /\ ~Programs' BY <2>2 DEF Programs, Pending
  <2>4. /\ Now.programs => envm' = saved.envm /\ facc2' = saved.facc2
        /\ ~Now.programs => envm' = envm /\ facc2' = facc2
    BY <1>6 DEF Return, GivenBack
  <2> QED BY <2>1, <2>2, <2>3, <2>4 DEF Programmed, Designed
<1>7. CASE revert_clk_config \/ Freeze \/ Thaw
  <2>1. UNCHANGED <<envm, facc2, saved, spoilt, programming, call, sent>>
    BY <1>7 DEF revert_clk_config, Freeze, Thaw
  <2>2. Performing' <=> Performing BY <1>7 DEF revert_clk_config, Freeze, Thaw, Performing
  <2>3. (Programs' <=> Programs) /\ Now' = Now BY <2>1, <2>2 DEF Programs, Pending, Now
  <2> QED BY <2>1, <2>2, <2>3 DEF Programmed, Designed
<1>8. CASE Answer \/ Refuse
  <2>1. UNCHANGED <<saved, spoilt, programming, call, sent>> /\ Performing /\ ~Performing'
    BY <1>8, CompleteStep DEF Performing
  <2>2. Now' = Now BY <2>1 DEF Now
  <2>3. CASE sent.how = "paged"
    <3>1. call.at = "idle" /\ (programming => GivenBack)
          /\ (~programming => envm' = envm /\ facc2' = facc2)
      BY <1>8, <2>3, CompleteStep
    <3>2. (Programs <=> sent.programs) /\ ~Programs' BY <2>1, <3>1 DEF Programs, Pending
    <3>3. programming = sent.programs BY <2>1, <2>3 DEF Programmed
    <3> QED BY <2>1, <3>1, <3>2, <3>3 DEF Programmed, Designed, GivenBack
  <2>4. CASE sent.how # "paged"
    <3>1. call.at = "wait" /\ sent = Now /\ envm' = envm /\ facc2' = facc2
      BY <1>8, <2>4, CompleteStep
    <3>2. (Programs <=> Now.programs) /\ (Programs' <=> Now.programs)
      BY <2>1, <2>2, <3>1 DEF Programs, Pending
    <3> QED BY <2>1, <2>2, <3>1, <3>2 DEF Programmed, Designed
  <2> QED BY <2>3, <2>4
<1>9. CASE UNCHANGED calling
  BY <1>9 DEF calling, Programmed, Designed, Programs, Pending, Performing, Now
<1> QED BY <1>1, <1>2, <1>3, <1>4, <1>5, <1>6, <1>7, <1>8, <1>9 DEF SysCallsNext

-----------------------------------------------------------------------------
(* A divider that is left alone is as far on its way as it was.            *)
LEMMA LeftAlone ==
  ASSUME NEW i \in 1 .. 4, div'[i] = div[i], divisor'[i] = divisor[i]
  PROVE  (Far(i) => Far(i)') /\ (Near(i) => Near(i)') /\ Way(i)' = Way(i)
BY DEF Far, Near, Way

(* One write of clk_switching_fix on M2S005: the divider comes one step    *)
(* further on the way from its own value, or has reached the end of it.    *)
LEMMA OutStep ==
  ASSUME TypeOK, Turns, WalkingOut, call.at = "clocks", DivideInSequence,
         NEW f \in 1 .. 4, call.field = f
  PROVE  /\ standby' = standby
         /\ \A i \in 1 .. 4 : i # f => div'[i] = div[i] /\ divisor'[i] = divisor[i]
         /\ divisor'[f] = IF call.k = 1 THEN div[f] ELSE divisor[f]
         /\ \/ call'.field = f + 1 /\ call'.k = 1 /\ Far(f)'
            \/ /\ call'.field = f /\ call'.k > 1 /\ call'.k < Len(Way(f)')
               /\ div'[f] = Way(f)'[call'.k]
         /\ div'[f] # div[f] => OneBit(div[f], div'[f])
<1> DEFINE val == IF call.k = 1 THEN div[f] ELSE divisor[f]
           w == determine_seq(val)
           k == call.k + 1
<1>1. call \in CallSet /\ div \in Dividers /\ divisor \in Dividers BY DEF TypeOK
<1>2. call.k \in 1 .. 5 BY <1>1 DEF CallSet
<1>3. device.family = "005" BY DEF DivideInSequence
<1>4. val \in 0 .. 7 BY <1>1, <1>2 DEF Dividers
<1>5. /\ divisor' = [divisor EXCEPT ![f] = val]
      /\ div' = IF k <= Len(w) THEN [div EXCEPT ![f] = w[k]] ELSE div
      /\ call' = IF k < Len(w) THEN [call EXCEPT !.k = k]
             ELSE [call EXCEPT !.field = f + 1, !.k = 1]
      /\ standby' = standby
  BY <1>2 DEF DivideInSequence, Step
<1>6. /\ call.k = 1 => div[f] = val
      /\ call.k > 1 => div[f] = w[call.k] /\ call.k < Len(w)
  BY <1>2, <1>3 DEF WalkingOut, Way
<1> HIDE DEF val
<1>7. /\ Len(w) \in {0, 2, 3, 4, 5} /\ (w = << >> <=> Len(w) = 0)
      /\ w # << >> => w[1] = val
      /\ \A i \in 1 .. Len(w) - 1 : OneBit(w[i], w[i + 1])
  BY <1>4, Sequence
<1>8. divisor'[f] = val /\ Way(f)' = w BY <1>1, <1>2, <1>5 DEF Dividers, Way
<1> HIDE DEF w
<1>9. \A i \in 1 .. 4 : i # f => div'[i] = div[i] /\ divisor'[i] = divisor[i]
  BY <1>1, <1>2, <1>5 DEF Dividers
<1>10. CASE k <= Len(w)
  <2>1. div'[f] = w[k] BY <1>1, <1>2, <1>5, <1>10 DEF Dividers
  <2>2. div[f] = w[call.k] /\ call.k \in 1 .. Len(w) - 1
    BY <1>2, <1>6, <1>7, <1>10
  <2>3. OneBit(div[f], div'[f]) BY <1>7, <2>1, <2>2
  <2>4. CASE k < Len(w)
    <3>1. call'.field = f /\ call'.k = k /\ k > 1 BY <1>1, <1>2, <1>5, <2>4 DEF CallSet
    <3> QED BY <1>2, <1>5, <1>8, <1>9, <2>1, <2>3, <2>4, <3>1 DEF val
  <2>5. CASE k = Len(w)
    <3>1. call'.field = f + 1 /\ call'.k = 1 BY <1>1, <1>5, <2>5 DEF CallSet
    <3>2. w # << >> BY <1>2, <1>7, <2>5
    <3>3. Far(f)' BY <1>8, <2>1, <2>5, <3>2 DEF Far
    <3> QED BY <1>2, <1>5, <1>8, <1>9, <2>3, <3>1, <3>3 DEF val
  <2> QED BY <1>10, <1>2, <1>7, <2>4, <2>5
<1>11. CASE ~(k <= Len(w))
  <2>1. call'.field = f + 1 /\ call'.k = 1 /\ div' = div
    <3>1. ~(k < Len(w)) BY <1>2, <1>7, <1>11
    <3> QED BY <1>1, <1>5, <1>11, <3>1 DEF CallSet
  <2>2. call.k = 1 BY <1>2, <1>6, <1>7, <1>11
  <2>3. w = << >>
    <3>1. ~(2 <= Len(w)) BY <1>11, <2>2
    <3>2. Len(w) \in {0, 2, 3, 4, 5} BY <1>7
    <3>3. Len(w) = 0 BY ONLY <3>1, <3>2
    <3> QED BY <1>7, <3>3
  <2>4. Far(f)' BY <1>6, <1>8, <2>1, <2>2, <2>3 DEF Far, Near
  <2> QED BY <1>2, <1>5, <1>8, <1>9, <2>1, <2>4 DEF val
<1> QED BY <1>10, <1>11

(* One write of revert_clk_config on M2S005.                               *)
LEMMA BackStep ==
  ASSUME TypeOK, WalkingBack, revert_clk_config, device.family = "005",
         NEW f \in 1 .. 4, isr.field = f
  PROVE  /\ standby' = standby /\ divisor' = divisor
         /\ \A i \in 1 .. 4 : i # f => div'[i] = div[i]
         /\ \/ isr' = Revert(f + 1) /\ div' = div /\ Near(f)
            \/ /\ isr'.field = f /\ isr'.k < Len(Way(f)) /\ isr'.k \in Nat
               /\ div'[f] = Way(f)[isr'.k + 1]
         /\ div'[f] # div[f] => OneBit(div[f], div'[f])
<1> DEFINE w == Way(f)
<1>1. isr \in [field : 0 .. 5, k : 0 .. 5] /\ div \in Dividers /\ divisor \in Dividers
  BY DEF TypeOK
<1>2. isr.k \in 0 .. 5 BY <1>1 DEF revert_clk_config
<1>3. /\ \/ isr.k < 1 /\ isr' = Revert(f + 1) /\ div' = div
         \/ /\ isr.k >= 1 /\ div' = [div EXCEPT ![f] = w[isr.k]]
            /\ isr' = [isr EXCEPT !.k = @ - 1]
      /\ standby' = standby /\ divisor' = divisor
  BY <1>1, <1>2 DEF revert_clk_config, Wide, FirstOfSequence, Way, kept
<1>4. divisor[f] \in 0 .. 7 BY <1>1, <1>2 DEF Dividers
<1>5. /\ Len(w) \in {0, 2, 3, 4, 5} /\ (w = << >> <=> Len(w) = 0)
      /\ w # << >> => w[1] = divisor[f]
      /\ \A i \in 1 .. Len(w) - 1 : OneBit(w[i + 1], w[i])
  BY <1>4, Sequence DEF Way
<1>6. \/ isr.k = Len(w) /\ Far(f)
      \/ isr.k < Len(w) /\ div[f] = w[isr.k + 1]
  BY <1>2 DEF WalkingBack
<1>7. Far(f) => IF w = << >> THEN div[f] = divisor[f] ELSE div[f] = w[Len(w)]
  BY DEF Far, Near
<1> HIDE DEF w
<1>8. CASE isr.k < 1
  <2>1. isr' = Revert(f + 1) /\ div' = div BY <1>2, <1>3, <1>8
  <2>2. isr.k = 0 BY <1>2, <1>8
  <2>3. div[f] = divisor[f]
    <3>1. CASE Len(w) = 0 BY <1>5, <1>6, <1>7, <2>2, <3>1
    <3>2. CASE Len(w) > 0 BY <1>5, <1>6, <2>2, <3>2
    <3> QED BY <1>5, <3>1, <3>2
  <2> QED BY <1>2, <1>3, <2>1, <2>3 DEF Near
<1>9. CASE isr.k >= 1
  <2>1. div' = [div EXCEPT ![f] = w[isr.k]] /\ isr' = [isr EXCEPT !.k = @ - 1]
    BY <1>2, <1>3, <1>9
  <2>2. isr'.field = f /\ isr'.k = isr.k - 1 BY <1>1, <2>1
  <2>3. div'[f] = w[isr.k] /\ \A i \in 1 .. 4 : i # f => div'[i] = div[i]
    BY <1>1, <1>2, <2>1 DEF Dividers
  <2>4. isr.k <= Len(w) BY <1>2, <1>5, <1>6
  <2>5. isr'.k < Len(w) /\ isr'.k \in Nat /\ isr'.k + 1 = isr.k
    BY <1>2, <1>5, <1>9, <2>2, <2>4
  <2>6. div'[f] # div[f] => OneBit(div[f], div'[f])
    <3>1. CASE isr.k = Len(w)
      <4>1. w # << >> BY <1>5, <1>9, <3>1
      <4>2. Far(f) BY <1>6, <3>1
      <4> QED BY <1>7, <2>3, <3>1, <4>1, <4>2
    <3>2. CASE isr.k < Len(w)
      <4>1. div[f] = w[isr.k + 1] BY <1>6, <3>2, <1>2, <1>5
      <4>2. isr.k \in 1 .. Len(w) - 1 BY <1>2, <1>5, <1>9, <3>2
      <4> QED BY <1>5, <2>3, <4>1, <4>2
    <3> QED BY <2>4, <3>1, <3>2, <1>2, <1>5
  <2> QED BY <1>2, <1>3, <2>2, <2>3, <2>5, <2>6 DEF w
<1> QED BY <1>2, <1>8, <1>9

-----------------------------------------------------------------------------
(* The walks start from nothing.                                           *)
LEMMA WalksInit == SysCallsInit => Divided /\ WalkingOut /\ WalkingBack
BY DEF SysCallsInit, Divided, Switched, WalkingOut, WalkingBack, Idle

(* The end of a service, and every step but those of the clocks and the    *)
(* one that sends the command, leaves no clocks to be switched.            *)
LEMMA SwitchedNext ==
  ASSUME TypeOK, Turns, WalkingOut, [SysCallsNext]_calling, Switched'
  PROVE  \/ clk_switching_fix /\ MovedTo("send")
         \/ Switched /\ div' = div /\ divisor' = divisor /\ device' = device
<1> USE DEF registers, kept, controller
<1>1. CASE Request
  <2>1. phase' = phase BY <1>1 DEF Request
  <2> QED BY <1>1, <2>1, RequestStep DEF Switched, Performing
<1>2. CASE Refused
  <2>1. phase' = phase /\ call.at = "start" BY <1>2 DEF Refused
  <2>2. phase = "idle" BY <2>1 DEF Turns, Performing
  <2>3. call'.at = "asserted" BY <1>2, GoMoves DEF Refused, MovedTo
  <2> QED BY <2>1, <2>2, <2>3 DEF Switched
<1>3. CASE Start
  <2>1. phase' = phase BY <1>3 DEF Start
  <2>2. ~Performing /\ (Now.switches => MovedTo("clocks")) /\ (~Now.switches => MovedTo("send"))
    BY <1>3, StartStep
  <2> QED BY <2>1, <2>2 DEF Switched, Performing, MovedTo
<1>4. CASE clk_switching_fix
  <2>1. phase' = phase BY <1>4 DEF clk_switching_fix
  <2>2. ~Performing /\ (MovedTo("send") \/ Ended \/ call'.at = "clocks") BY <1>4, ClockStep
  <2>3. call'.at = "send" BY <2>1, <2>2 DEF Switched, Performing
  <2>4. ~Ended /\ call'.at # "clocks" BY <2>3 DEF Ended
  <2> QED BY <1>4, <2>2, <2>4
<1>5. CASE Send
  <2>1. call.at = "send" /\ sent' = Now /\ call'.at # "send" BY <1>5, SendStep DEF MovedTo
  <2>2. Switched BY <2>1 DEF Switched
  <2> QED BY <1>5, <2>2 DEF Send
<1>6. CASE Return
  <2>1. phase' = phase BY <1>6 DEF Return
  <2>2. ~Performing /\ Ended BY <1>6, ReturnStep
  <2> QED BY <2>1, <2>2 DEF Switched, Performing, Ended
<1>7. CASE revert_clk_config
  <2>1. UNCHANGED <<call, sent, phase>> /\ isr.field > 0 BY <1>7 DEF revert_clk_config
  <2>2. phase = "thawed" /\ call.at # "send" BY <2>1 DEF Turns, Performing
  <2> QED BY <2>1, <2>2 DEF Switched
<1>8. CASE Freeze
  <2>1. UNCHANGED <<call, sent>> /\ phase = "work" /\ sent.switches BY <1>8 DEF Freeze
  <2>2. Switched BY <2>1 DEF Switched
  <2> QED BY <1>8, <2>2 DEF Freeze
<1>9. CASE Thaw
  <2>1. UNCHANGED <<call, sent>> /\ phase = "frozen" /\ phase' = "thawed" BY <1>9 DEF Thaw
  <2>2. call.at # "send" BY <2>1 DEF Turns, Performing
  <2> QED BY <2>1, <2>2 DEF Switched
<1>10. CASE Answer \/ Refuse
  <2>1. call' = call /\ call.at # "send" /\ phase' = "idle"
    BY <1>10, CompleteStep
  <2> QED BY <2>1 DEF Switched
<1>11. CASE UNCHANGED calling
  BY <1>11 DEF calling, Switched, Now
<1> QED BY <1>1, <1>2, <1>3, <1>4, <1>5, <1>6, <1>7, <1>8, <1>9, <1>10, <1>11
        DEF SysCallsNext

(* What is sent finds its clocks divided.                                  *)
LEMMA DividedNext ==
  ASSUME TypeOK, Turns, WalkingOut, Divided, [SysCallsNext]_calling PROVE Divided'
<1> SUFFICES ASSUME Switched' PROVE Divided' BY DEF Divided
<1>1. CASE clk_switching_fix /\ MovedTo("send")
  <2>1. device' = device BY <1>1 DEF clk_switching_fix
  <2>2. CASE DivideWide
    BY <2>1, <2>2 DEF DivideWide, Divided, Wide, DividedBy32
  <2>3. CASE DivideInSequence /\ call.field = 5
    <3>1. div' = div /\ divisor' = divisor /\ device.family = "005"
      BY <2>3 DEF DivideInSequence
    <3>2. \A i \in 1 .. 4 : Far(i) BY <1>1, <2>3, <3>1 DEF WalkingOut, clk_switching_fix
    <3>3. \A i \in 1 .. 4 : Far(i)' BY <3>1, <3>2, LeftAlone
    <3> QED BY <2>1, <3>1, <3>3 DEF Divided, Wide
  <2>4. CASE CheckDividers
    <3>1. "CLK_DIVISOR_ERROR" \in Results /\ call.at # "idle"
      BY <1>1 DEF Results, clk_switching_fix
    <3>2. ~Step(Over("CLK_DIVISOR_ERROR"))
      BY <1>1, <3>1, OverEnds DEF Ended, MovedTo
    <3>3. \A i \in 1 .. 4 : div[i] = div[1] BY <2>4, <3>2, Zenon DEF CheckDividers
    <3>4. div' = div /\ device.family = "060" BY <2>4 DEF CheckDividers
    <3> QED BY <2>1, <3>3, <3>4 DEF Divided, Wide
  <2>5. CASE OtherDevice
    BY <2>1, <2>5 DEF OtherDevice, Divided
  <2> QED BY <1>1, <2>2, <2>3, <2>4, <2>5, ClockStep DEF MovedTo
<1>2. CASE Switched /\ div' = div /\ divisor' = divisor /\ device' = device
  <2>1. \A i \in 1 .. 4 : Far(i) => Far(i)' BY <1>2, LeftAlone
  <2> QED BY <1>2, <2>1 DEF Divided
<1> QED BY <1>1, <1>2, SwitchedNext

(* Each divider is taken to the end of its way before the next one.        *)
LEMMA WalkingOutNext ==
  ASSUME TypeOK, Turns, WalkingOut, [SysCallsNext]_calling PROVE WalkingOut'
<1> USE DEF registers, kept, controller
<1> SUFFICES ASSUME call'.at = "clocks", device'.family = "005"
             PROVE  /\ \A i \in 1 .. 4 : i < call'.field => Far(i)'
                    /\ call'.k > 1 => /\ call'.field <= 4 /\ call'.k < Len(Way(call.field)')
                                      /\ div'[call'.field] = Way(call.field)'[call'.k]
  BY DEF WalkingOut
<1>1. CASE Start
  <2>1. call'.field = 1 /\ call'.k = 1
    BY <1>1, StartStep DEF MovedTo, Turns
  <2>2. \A i \in 1 .. 4 : ~(i < 1) OBVIOUS
  <2> QED BY <2>1, <2>2
<1>2. CASE clk_switching_fix
  <2>1. device' = device /\ call.at = "clocks" BY <1>2 DEF clk_switching_fix
  <2>2. DivideInSequence /\ call.field <= 4
    BY <1>2, ClockStep DEF MovedTo, Ended
  <2>3. PICK f \in 1 .. 4 : f = call.field BY <2>2 DEF TypeOK, CallSet
  <2>4. \A i \in 1 .. 4 : i < f => Far(i) BY <2>1, <2>3 DEF WalkingOut
  <2>5. /\ \A i \in 1 .. 4 : i # f => div'[i] = div[i] /\ divisor'[i] = divisor[i]
        /\ \/ call'.field = f + 1 /\ call'.k = 1 /\ Far(f)'
           \/ /\ call'.field = f /\ call'.k > 1 /\ call'.k < Len(Way(f)')
              /\ div'[f] = Way(f)'[call'.k]
    BY <2>1, <2>2, <2>3, OutStep
  <2>6. \A i \in 1 .. 4 : i < f => Far(i)'
    <3> SUFFICES ASSUME NEW i \in 1 .. 4, i < f PROVE Far(i)' OBVIOUS
    <3>1. Far(i) /\ div'[i] = div[i] /\ divisor'[i] = divisor[i] BY <2>4, <2>5
    <3> QED BY <3>1, LeftAlone
  <2>7. CASE call'.field = f + 1 /\ call'.k = 1 /\ Far(f)'
    <3>1. \A i \in 1 .. 4 : i < f + 1 => i < f \/ i = f OBVIOUS
    <3>2. \A i \in 1 .. 4 : i < f + 1 => Far(i)' BY <2>6, <2>7, <3>1
    <3> QED BY <2>7, <3>2
  <2>8. CASE /\ call'.field = f /\ call'.k > 1 /\ call'.k < Len(Way(f)')
             /\ div'[f] = Way(f)'[call'.k]
    BY <2>6, <2>8 DEF Way
  <2> QED BY <2>5, <2>7, <2>8
<1>3. CASE ~Start /\ ~clk_switching_fix
  <2>1. call.at = "clocks" /\ UNCHANGED <<call, device, div, divisor>>
    <3>1. CASE Request BY <3>1, RequestStep
    <3>2. CASE Refused BY <3>2, GoMoves DEF Refused, MovedTo
    <3>3. CASE Send BY <3>3, SendStep DEF MovedTo
    <3>4. CASE Return BY <3>4, ReturnStep DEF Ended
    <3>5. CASE revert_clk_config \/ Freeze \/ Thaw
      <4>1. call' = call /\ Performing
        BY <3>5 DEF revert_clk_config, Freeze, Thaw, Turns, Performing
      <4> QED BY <4>1 DEF Turns
    <3>6. CASE Answer \/ Refuse
      <4>1. call' = call /\ Performing BY <3>6, CompleteStep
      <4> QED BY <4>1 DEF Turns
    <3>7. CASE UNCHANGED calling BY <3>7 DEF calling
    <3> QED BY <1>3, <3>1, <3>2, <3>3, <3>4, <3>5, <3>6, <3>7 DEF SysCallsNext
  <2>2. \A i \in 1 .. 4 : Far(i) => Far(i)' BY <2>1, LeftAlone
  <2>3. call.field \in 1 .. 5 BY DEF TypeOK, CallSet
  <2> QED BY <2>1, <2>2, <2>3 DEF WalkingOut, Way
<1> QED BY <1>1, <1>2, <1>3

(* The interrupt takes each divider back before the next one.              *)
LEMMA WalkingBackNext ==
  ASSUME TypeOK, Turns, Divided, WalkingBack, [SysCallsNext]_calling PROVE WalkingBack'
<1> USE DEF registers, kept, controller
<1>0. isr \in [field : 0 .. 5, k : 0 .. 5] /\ divisor \in Dividers BY DEF TypeOK
<1>1. CASE revert_clk_config
  <2> SUFFICES ASSUME isr'.field > 0, device'.family = "005" PROVE WalkingBack'
    BY DEF WalkingBack
  <2>1. device' = device /\ isr.field > 0 BY <1>1 DEF revert_clk_config
  <2>2. isr.field <= 4
    <3>1. isr.field = 5 => isr' = NoRevert
      BY <1>1, <2>1 DEF revert_clk_config, Wide
    <3>2. NoRevert.field = 0 BY DEF NoRevert
    <3>3. isr.field # 5 BY <3>1, <3>2
    <3> QED BY <1>0, <2>1, <3>3
  <2>3. PICK f \in 1 .. 4 : f = isr.field BY <1>0, <2>1, <2>2
  <2>4. /\ \A i \in 1 .. 4 : i < f => Near(i)
        /\ \A i \in 1 .. 4 : i > f => Far(i)
    BY <2>1, <2>3 DEF WalkingBack
  <2>5. /\ divisor' = divisor
        /\ \A i \in 1 .. 4 : i # f => div'[i] = div[i]
        /\ \/ isr' = Revert(f + 1) /\ div' = div /\ Near(f)
           \/ /\ isr'.field = f /\ isr'.k < Len(Way(f)) /\ isr'.k \in Nat
              /\ div'[f] = Way(f)[isr'.k + 1]
    BY <1>1, <2>1, <2>3, BackStep
  <2>6. \A i \in 1 .. 4 : Way(i)' = Way(i) BY <2>5 DEF Way
  <2>7. \A i \in 1 .. 4 : i # f => (Near(i) => Near(i)') /\ (Far(i) => Far(i)')
    BY <2>5, LeftAlone
  <2>8. CASE isr' = Revert(f + 1) /\ div' = div /\ Near(f)
    <3>1. isr'.field = f + 1 /\ (f + 1 <= 4 => isr'.k = Len(Way(f + 1)))
      BY <2>8 DEF Revert, Way
    <3>2. \A i \in 1 .. 4 : i < f + 1 => Near(i)'
      <4>1. Near(f)' BY <2>5, <2>8 DEF Near
      <4>2. \A i \in 1 .. 4 : i < f + 1 => i < f \/ i = f OBVIOUS
      <4> QED BY <2>4, <2>7, <4>1, <4>2
    <3>3. \A i \in 1 .. 4 : i > f => Far(i)' BY <2>4, <2>7
    <3>4. \A i \in 1 .. 4 : i > f + 1 => i > f OBVIOUS
    <3>5. f + 1 <= 4 => f + 1 \in 1 .. 4 /\ f + 1 > f OBVIOUS
    <3>6. f + 1 <= 4 => Far(f + 1)' /\ Way(f + 1)' = Way(f + 1) BY <3>3, <3>5, <2>6
    <3> QED BY <3>1, <3>2, <3>3, <3>4, <3>6 DEF WalkingBack
  <2>9. CASE /\ isr'.field = f /\ isr'.k < Len(Way(f)) /\ isr'.k \in Nat
             /\ div'[f] = Way(f)[isr'.k + 1]
    <3>1. \A i \in 1 .. 4 : (i < f => Near(i)') /\ (i > f => Far(i)') BY <2>4, <2>7
    <3> QED BY <2>6, <2>9, <3>1 DEF WalkingBack
  <2> QED BY <2>5, <2>8, <2>9
<1>2. CASE Thaw
  <2> SUFFICES ASSUME device'.family = "005" PROVE WalkingBack' BY DEF WalkingBack
  <2>1. /\ UNCHANGED <<device, div, divisor>> /\ phase = "frozen"
        /\ isr' = [field |-> 1, k |-> Len(Way(1))]
    BY <1>2 DEF Thaw, Revert, Way
  <2>2. Switched BY <2>1 DEF Switched, Turns
  <2>3. \A i \in 1 .. 4 : Far(i)' BY <2>1, <2>2, LeftAlone DEF Divided
  <2>4. \A i \in 1 .. 4 : ~(i < 1) OBVIOUS
  <2>5. Way(1)' = Way(1) BY <2>1 DEF Way
  <2> QED BY <2>1, <2>3, <2>4, <2>5 DEF WalkingBack
<1>3. CASE UNCHANGED calling
  <2>1. \A i \in 1 .. 4 : /\ Way(i)' = Way(i) /\ (Near(i) => Near(i)') /\ (Far(i) => Far(i)')
    BY <1>3, LeftAlone DEF calling
  <2> QED BY <1>0, <1>3, <2>1 DEF calling, WalkingBack
<1>4. CASE Free /\ isr' = isr BY <1>4 DEF Free, WalkingBack
<1>5. Request \/ Refused \/ Start \/ clk_switching_fix \/ Send \/ Return
        \/ Freeze \/ Answer \/ Refuse => Free /\ isr' = isr
  <2>1. Freeze \/ Answer \/ Refuse => Free /\ isr' = isr
    BY DEF Freeze, Answer, Refuse, Complete
  <2>2. Request \/ Refused \/ Start \/ Send \/ Return => Free /\ isr' = isr
    BY DEF Request, Refused, Start, Send, Return, Go, Step
  <2>3. clk_switching_fix => Free /\ isr' = isr
      BY DEF clk_switching_fix, DivideWide, DivideInSequence, CheckDividers,
         OtherDevice, Go, Step
  <2> QED BY <2>1, <2>2, <2>3
<1> QED BY <1>1, <1>2, <1>3, <1>4, <1>5 DEF SysCallsNext

-----------------------------------------------------------------------------
(* The way back ends where it started from.                                *)
LEMMA RestoredInit == SysCallsInit => Restored
<1> SUFFICES ASSUME SysCallsInit PROVE Restored OBVIOUS
<1>1. /\ SavedDividers /\ Undivided /\ ~Switched /\ ~(isr.field > 0) /\ call.at # "clocks"
  BY DEF SysCallsInit, SavedDividers, Undivided, Switched, Idle
<1> QED BY <1>1 DEF Restored

(* A step to where nothing is divided.                                     *)
LEMMA RestoredAtRest ==
  ASSUME SavedDividers', Undivided', ~Switched', ~(isr'.field > 0), call'.at # "clocks"
  PROVE  Restored'
BY DEF Restored

(* A controller that refuses no service that switches clocks lets every    *)
(* divider find its way back.                                              *)
LEMMA RestoredNext ==
  ASSUME \A s \in Disabled : ~s.switches,
         TypeOK, Turns, WalkingOut, WalkingBack, Restored, [SysCallsNext]_calling
  PROVE  Restored'
<1> USE DEF registers, kept, controller
<1>0. /\ isr \in [field : 0 .. 5, k : 0 .. 5] /\ call \in CallSet
      /\ div \in Dividers /\ divisor \in Dividers /\ device.div \in Dividers
      /\ saved \in [div : Dividers, standby : BOOLEAN, envm : Setting, facc2 : Setting]
  BY DEF TypeOK
<1>a. Free <=> ~(isr.field > 0) BY <1>0 DEF Free
<1>b. SavedDividers BY DEF Restored
<1>1. CASE Request
  <2>1. UNCHANGED <<device, div, standby, saved, isr, phase>> BY <1>1 DEF Request
  <2>2. call.at = "idle" /\ Free /\ ~Performing /\ call'.at = "start" BY <1>1, RequestStep
  <2>3. Undivided BY <2>2 DEF Restored, AtRest
  <2>4. ~Switched' BY <2>1, <2>2 DEF Switched, Performing
  <2> QED BY <1>a, <1>b, <2>1, <2>2, <2>3, <2>4, RestoredAtRest DEF SavedDividers, Undivided
<1>2. CASE Refused
  <2>1. UNCHANGED <<device, div, standby, saved, isr, phase>> /\ call.at = "start"
    BY <1>2 DEF Refused
  <2>2. Free /\ call'.at = "asserted" BY <1>2, GoMoves DEF Refused, MovedTo
  <2>3. Undivided BY <2>1 DEF Restored, AtRest
  <2>4. ~Switched' BY <2>1, <2>2 DEF Switched, Turns, Performing
  <2> QED BY <1>a, <1>b, <2>1, <2>2, <2>3, <2>4, RestoredAtRest DEF SavedDividers, Undivided
<1>3. CASE Start
  <2>1. UNCHANGED <<device, div, standby, isr, phase>> BY <1>3 DEF Start
  <2>2. /\ call.at = "start" /\ Free /\ ~Performing
        /\ Now.switches => MovedTo("clocks")
        /\ ~Now.switches => MovedTo("send")
    BY <1>3, StartStep
  <2>3. Undivided BY <2>2 DEF Restored, AtRest
  <2>4. SavedDividers'
    <3>1. saved' \in {[saved EXCEPT !.envm = envm, !.facc2 = facc2],
                      [saved EXCEPT !.div = div, !.standby = standby], saved}
      BY <1>3 DEF Start, Prepare
    <3>2. saved'.div = device.div /\ ~saved'.standby
      BY <1>0, <1>b, <2>3, <3>1 DEF SavedDividers, Undivided
    <3> QED BY <2>1, <3>2 DEF SavedDividers
  <2>5. ~Switched' /\ ~(isr'.field > 0)
    BY <1>a, <2>1, <2>2 DEF Switched, Performing, MovedTo
  <2>6. call'.at = "clocks" => call'.field = 1 /\ call'.k = 1
    BY <2>2 DEF MovedTo, Turns
  <2>7. \A i \in 1 .. 4 : ~(i < 1) OBVIOUS
  <2> QED BY <2>1, <2>3, <2>4, <2>5, <2>6, <2>7 DEF Restored, Undivided
<1>4. CASE clk_switching_fix
  <2>1. UNCHANGED <<device, saved, isr, phase, sent>> /\ call.at = "clocks"
    BY <1>4 DEF clk_switching_fix
  <2>2. ~Performing /\ ~Performing' /\ ~(isr'.field > 0)
    BY <1>4, <1>a, <2>1, ClockStep DEF Performing
  <2>3. SavedDividers' BY <1>b, <2>1 DEF SavedDividers
  <2>4. /\ ~standby
        /\ device.family # "005" => div = device.div
        /\ device.family = "005" =>
             \A i \in 1 .. 4 :
               IF i < call.field \/ (i = call.field /\ call.k > 1)
               THEN divisor[i] = device.div[i] ELSE div[i] = device.div[i]
    BY <2>1 DEF Restored
  <2>5. ASSUME MovedTo("send"),
               /\ device.family = "005" => divisor' = device.div
               /\ device.family \in {"060", "other"} => div' = device.div
        PROVE  Restored'
    <3>1. Now'.switches BY <2>1, <2>5 DEF MovedTo, Turns
    <3>2. ~AtRest' BY <2>2, <2>5, <3>1 DEF AtRest, MovedTo, Performing
    <3> QED BY <2>1, <2>2, <2>3, <2>5, <3>2 DEF Restored, MovedTo
  <2>6. CASE DivideWide /\ MovedTo("send")
    <3>1. device.family = Wide BY <2>6 DEF DivideWide
    <3> QED BY <2>5, <2>6, <3>1 DEF Wide
  <2>7. CASE DivideInSequence /\ call.field <= 4 /\ call'.at = "clocks"
    <3>1. PICK f \in 1 .. 4 : f = call.field BY <1>0, <2>7 DEF CallSet
    <3>2. /\ standby' = standby
          /\ \A i \in 1 .. 4 : i # f => div'[i] = div[i] /\ divisor'[i] = divisor[i]
          /\ divisor'[f] = IF call.k = 1 THEN div[f] ELSE divisor[f]
          /\ \/ call'.field = f + 1 /\ call'.k = 1
             \/ call'.field = f /\ call'.k > 1
      BY <2>1, <2>7, <3>1, OutStep
    <3>3. device.family = "005" BY <2>7 DEF DivideInSequence
    <3>4. divisor'[f] = device.div[f]
      <4>1. CASE call.k = 1 BY <2>4, <3>1, <3>2, <3>3, <4>1
      <4>2. CASE call.k # 1
        <5>1. call.k > 1 BY <1>0, <4>2 DEF CallSet
        <5> QED BY <2>4, <3>1, <3>2, <3>3, <4>2, <5>1
      <4> QED BY <4>1, <4>2
    <3>5. ASSUME NEW i \in 1 .. 4
          PROVE  IF i < call'.field \/ (i = call'.field /\ call'.k > 1)
                 THEN divisor'[i] = device.div[i] ELSE div'[i] = device.div[i]
      <4>1. CASE i < f
        <5>1. divisor[i] = device.div[i] BY <2>4, <3>1, <3>3, <4>1
        <5>2. divisor'[i] = device.div[i] BY <3>2, <4>1, <5>1
        <5>3. i < call'.field BY <3>2, <4>1
        <5> QED BY <5>2, <5>3
      <4>2. CASE i = f
        <5>1. i < call'.field \/ (i = call'.field /\ call'.k > 1) BY <3>2, <4>2
        <5> QED BY <3>4, <4>2, <5>1
      <4>3. CASE i > f
        <5>1. ~(i < f) /\ i # f BY <4>3
        <5>2. div[i] = device.div[i] BY <2>4, <3>1, <3>3, <5>1
        <5>3. div'[i] = device.div[i] BY <3>2, <5>1, <5>2
        <5>4. ~(i < call'.field) /\ ~(i = call'.field /\ call'.k > 1) BY <3>2, <4>3
        <5> QED BY <5>3, <5>4
      <4> QED BY <4>1, <4>2, <4>3
    <3>6. ~AtRest' /\ ~Switched'
      BY <2>2, <2>7 DEF AtRest, Switched, Performing
    <3> QED BY <2>1, <2>2, <2>3, <2>4, <2>7, <3>2, <3>3, <3>5, <3>6 DEF Restored
  <2>8. CASE DivideInSequence /\ call.field = 5 /\ MovedTo("send")
    <3>1. device.family = "005" /\ divisor' = divisor BY <2>8 DEF DivideInSequence
    <3>2. \A i \in 1 .. 4 : i < 5 OBVIOUS
    <3>3. \A i \in 1 .. 4 : divisor[i] = device.div[i] BY <2>4, <2>8, <3>1, <3>2
    <3>4. divisor = device.div BY <1>0, <3>3 DEF Dividers
    <3> QED BY <2>5, <2>8, <3>1, <3>4
  <2>9. CASE CheckDividers /\ MovedTo("send")
    <3>1. device.family = "060" /\ div' = div BY <2>9 DEF CheckDividers
    <3> QED BY <2>4, <2>5, <2>9, <3>1
  <2>10. CASE CheckDividers /\ Ended
    <3>1. device.family = "060" /\ div' = div /\ standby' = standby
      BY <2>10 DEF CheckDividers
    <3>2. Undivided' BY <2>1, <2>4, <3>1 DEF Undivided
    <3>3. call'.at \in {"idle", "start"} BY <2>10 DEF Ended
    <3>4. ~Switched' BY <2>2, <3>3 DEF Switched, Performing
    <3> QED BY <2>2, <2>3, <3>2, <3>3, <3>4, RestoredAtRest
  <2>11. CASE OtherDevice /\ MovedTo("send")
    <3>1. device.family # "005" /\ div' = div BY <2>11 DEF OtherDevice
    <3> QED BY <2>4, <2>5, <2>11, <3>1
  <2> QED BY <1>4, <2>6, <2>7, <2>8, <2>9, <2>10, <2>11, ClockStep
<1>5. CASE Send
  <2>1. UNCHANGED <<device, div, standby, saved, divisor, isr>> BY <1>5 DEF Send
  <2>2. /\ call.at = "send" /\ Free /\ phase' = "work" /\ sent' = Now /\ Now \in Offered
        /\ call'.at \in {"idle", "wait"}
    BY <1>5, SendStep DEF MovedTo
  <2>3. SavedDividers' /\ ~(isr'.field > 0) BY <1>a, <1>b, <2>1, <2>2 DEF SavedDividers
  <2>4. CASE Now.switches
    <3>1. ~AtRest' BY <2>2, <2>4 DEF AtRest, Performing
    <3>2. Switched BY <2>2, <2>4 DEF Switched
    <3> QED BY <2>1, <2>2, <2>3, <3>1, <3>2 DEF Restored
  <2>5. CASE ~Now.switches
    <3>1. Undivided BY <2>2, <2>5 DEF Restored, AtRest
    <3>2. ~Switched' BY <2>2, <2>5 DEF Switched
    <3>3. Undivided' BY <2>1, <3>1 DEF Undivided
    <3> QED BY <2>2, <2>3, <3>2, <3>3, RestoredAtRest
  <2> QED BY <2>4, <2>5
<1>6. CASE Return
  <2>1. UNCHANGED <<device, div, standby, saved, isr, phase>> BY <1>6 DEF Return
  <2>2. call.at = "wait" /\ Free /\ ~Performing /\ call'.at \in {"idle", "start"}
    BY <1>6, ReturnStep DEF Ended
  <2>3. Undivided BY <2>2 DEF Restored, AtRest
  <2>4. ~Switched' BY <2>1, <2>2 DEF Switched, Performing
  <2> QED BY <1>a, <1>b, <2>1, <2>2, <2>3, <2>4, RestoredAtRest DEF SavedDividers, Undivided
<1>7. CASE revert_clk_config
  <2>1. /\ UNCHANGED <<device, saved, divisor, call, phase, sent>> /\ isr.field > 0
    BY <1>7 DEF revert_clk_config
  <2>2. /\ phase = "thawed" /\ sent.switches /\ Performing /\ Performing'
        /\ call.at \in {"idle", "wait"}
    BY <2>1 DEF Turns, Performing
  <2>3. SavedDividers' /\ ~Switched' /\ call'.at # "clocks"
    BY <1>b, <2>1, <2>2 DEF SavedDividers, Switched
  <2>4. /\ device.family = "005" => divisor = device.div
        /\ device.family \in {"060", "other"} => div = device.div
        /\ ~standby \/ device.family \in {Wide, "005"}
    BY <2>1 DEF Restored
  <2>5. NoRevert.field = 0 BY DEF NoRevert
  <2>6. CASE device.family = Wide
    <3>1. div' = saved.div /\ standby' = saved.standby /\ isr' = NoRevert
      BY <1>7, <2>6 DEF revert_clk_config, Wide
    <3>2. Undivided' BY <1>b, <2>1, <3>1 DEF SavedDividers, Undivided
    <3> QED BY <2>3, <2>5, <3>1, <3>2, RestoredAtRest
  <2>7. CASE device.family = "005" /\ isr.field <= 4
    <3>1. PICK f \in 1 .. 4 : f = isr.field BY <1>0, <2>1, <2>7
    <3>2. isr' = Revert(f + 1) \/ isr'.field = f BY <1>7, <2>7, <3>1, BackStep
    <3>3. Revert(f + 1).field = f + 1 BY DEF Revert
    <3>4. isr'.field > 0 BY <3>2, <3>3
    <3>5. ~AtRest' BY <2>1, <2>2, <3>4 DEF AtRest, Free
    <3> QED BY <2>1, <2>3, <2>4, <2>7, <3>5 DEF Restored
  <2>8. CASE device.family = "005" /\ isr.field = 5
    <3>1. standby' = FALSE /\ isr' = NoRevert /\ div' = div
      BY <1>7, <2>8 DEF revert_clk_config, Wide
    <3>2. \A i \in 1 .. 4 : i < 5 OBVIOUS
    <3>3. \A i \in 1 .. 4 : div[i] = divisor[i] BY <2>8, <3>2 DEF WalkingBack, Near
    <3>4. div = device.div BY <1>0, <2>4, <2>8, <3>3 DEF Dividers
    <3>5. Undivided' BY <2>1, <3>1, <3>4 DEF Undivided
    <3> QED BY <2>3, <2>5, <3>1, <3>5, RestoredAtRest
  <2>9. CASE device.family \notin {Wide, "005"}
    <3>1. standby' = standby /\ isr' = NoRevert /\ div' = div
      BY <1>7, <2>9 DEF revert_clk_config
    <3>2. device.family \in {"060", "other"} BY <2>9 DEF TypeOK
    <3>3. Undivided' BY <2>1, <2>4, <2>9, <3>1, <3>2 DEF Undivided
    <3> QED BY <2>3, <2>5, <3>1, <3>3, RestoredAtRest
  <2>10. isr.field <= 4 \/ isr.field = 5 BY <1>0
  <2> QED BY <2>6, <2>7, <2>8, <2>9, <2>10, Zenon
<1>8. CASE Freeze
  <2>1. /\ UNCHANGED <<device, div, saved, divisor, call, isr, sent>>
        /\ Free /\ phase = "work" /\ phase' = "frozen" /\ sent.switches
    BY <1>8 DEF Freeze
  <2>2. Switched /\ call.at \in {"idle", "wait"} BY <2>1 DEF Switched, Turns, Performing
  <2>3. ~AtRest' BY <2>1, <2>2 DEF AtRest, Performing
  <2> QED BY <1>a, <1>b, <2>1, <2>2, <2>3 DEF Restored, SavedDividers
<1>9. CASE Thaw
  <2>1. /\ UNCHANGED <<device, div, saved, divisor, call, sent>>
        /\ phase = "frozen" /\ phase' = "thawed" /\ ~standby' /\ isr'.field = 1
    BY <1>9 DEF Thaw, Revert
  <2>2. Switched /\ call.at \in {"idle", "wait"} /\ sent.switches
    BY <2>1 DEF Switched, Turns, Performing
  <2>3. ~AtRest' BY <2>1, <2>2 DEF AtRest, Performing, Free
  <2> QED BY <1>b, <2>1, <2>2, <2>3 DEF Restored, SavedDividers
<1>10. CASE Answer \/ Refuse
  <2>1. /\ Free /\ Performing /\ phase' = "idle" /\ call.at \in {"idle", "wait"}
        /\ UNCHANGED <<device, div, standby, saved, call, isr>>
    BY <1>10, CompleteStep
  <2>2. ~sent.switches \/ phase = "thawed" BY <1>10 DEF Answer, Refuse
  <2>3. Undivided BY <2>1, <2>2 DEF Restored, AtRest
  <2>4. ~Switched' BY <2>1 DEF Switched
  <2> QED BY <1>a, <1>b, <2>1, <2>3, <2>4, RestoredAtRest DEF SavedDividers, Undivided
<1>11. CASE UNCHANGED calling
  BY <1>11 DEF calling, Restored, SavedDividers, AtRest, Undivided, Switched, Performing,
               Now, Free
<1> QED BY <1>1, <1>2, <1>3, <1>4, <1>5, <1>6, <1>7, <1>8, <1>9, <1>10, <1>11
        DEF SysCallsNext

-----------------------------------------------------------------------------
(* The lock of eNVM-1.                                                     *)
LEMMA UnlockedInit == SysCallsInit => Unlocked
BY DEF SysCallsInit, Unlocked

(* A controller that tells the number of keys gives the lock back before   *)
(* the request that made it take it is over.                               *)
LEMMA UnlockedNext ==
  ASSUME MSS_SYS_puf_get_number_of_keys \notin Disabled,
         TypeOK, Turns, WalkingOut, Unlocked, [SysCallsNext]_calling
  PROVE  Unlocked'
<1> USE DEF registers, kept, controller
<1> DEFINE keys == MSS_SYS_puf_get_number_of_keys
<1>1. CASE Request
  <2>1. enrolled' = enrolled /\ call.at = "idle" BY <1>1 DEF Request
  <2> QED BY <2>1 DEF Unlocked
<1>2. CASE Refused
  <2>1. enrolled' = enrolled /\ MovedTo("asserted") BY <1>2, GoMoves DEF Refused
  <2>2. call.at = "start" BY <1>2 DEF Refused
  <2> QED BY <2>1, <2>2 DEF Unlocked, MovedTo
<1>3. CASE Start
  <2>1. enrolled' = enrolled BY <1>3 DEF Start
  <2>2. (MovedTo("clocks") \/ MovedTo("send")) /\ call.at = "start"
    BY <1>3, StartStep DEF Start
  <2> QED BY <2>1, <2>2 DEF Unlocked, MovedTo
<1>4. CASE clk_switching_fix
  <2>1. enrolled' = enrolled /\ call.at = "clocks" BY <1>4 DEF clk_switching_fix
  <2>2. SUFFICES ASSUME enrolled PROVE Unlocked' BY <2>1 DEF Unlocked
  <2>3. /\ Len(call.todo) = 2 /\ call.todo[2] = keys BY <2>2 DEF Unlocked
  <2>4. Now.switches BY <2>1 DEF Turns
  <2>5. call.n # 2 BY <2>3, <2>4, KnownServices DEF Now
  <2>6. \/ MovedTo("send") \/ Ended
        \/ call'.at = "clocks" /\ call'.todo = call.todo /\ call'.n = call.n
    BY <1>4, ClockStep
  <2>7. CASE MovedTo("send") BY <2>1, <2>3, <2>7 DEF Unlocked, MovedTo
  <2>8. CASE Ended BY <2>1, <2>3, <2>5, <2>8 DEF Unlocked, Ended
  <2>9. CASE call'.at = "clocks" /\ call'.todo = call.todo /\ call'.n = call.n
    BY <2>1, <2>3, <2>9 DEF Unlocked
  <2> QED BY <2>6, <2>7, <2>8, <2>9
<1>5. CASE Send
  <2>1. enrolled' = enrolled BY <1>5 DEF Send
  <2>2. SUFFICES ASSUME enrolled PROVE Unlocked' BY <2>1 DEF Unlocked
  <2>3. Len(call.todo) = 2 /\ call.todo[2] = keys BY <2>2 DEF Unlocked
  <2>4. CASE Now.how = "paged"
    <3>1. call.at # "idle" BY <1>5, SendStep
    <3>2. call.n = 2 BY <2>3, <2>4, <3>1, Current
    <3> QED BY <2>3, <2>4, <3>2, KnownServices DEF Now
  <2>5. CASE Now.how # "paged"
    <3>1. MovedTo("wait") /\ Performing' BY <1>5, <2>5, SendStep DEF Performing
    <3> QED BY <2>3, <3>1 DEF Unlocked, MovedTo
  <2> QED BY <2>4, <2>5
<1>6. CASE Return
  <2>1. enrolled' = enrolled BY <1>6 DEF Return
  <2>2. SUFFICES ASSUME enrolled PROVE Unlocked' BY <2>1 DEF Unlocked
  <2>3. call.at = "wait" /\ ~Performing /\ Ended BY <1>6, ReturnStep
  <2>4. Len(call.todo) = 2 /\ call.todo[2] = keys /\ call.n # 2
    BY <2>2, <2>3 DEF Unlocked
  <2> QED BY <2>3, <2>4 DEF Unlocked, Ended
<1>7. CASE revert_clk_config \/ Freeze \/ Thaw
  <2>1. UNCHANGED <<enrolled, call>> /\ (Performing' <=> Performing)
    BY <1>7 DEF revert_clk_config, Freeze, Thaw, Performing
  <2> QED BY <2>1 DEF Unlocked
<1>8. CASE Answer
  <2>1. enrolled' = CASE sent \in Enrolling -> TRUE
                      [] sent = keys -> FALSE
                      [] OTHER -> enrolled
    BY <1>8 DEF Answer
  <2>2. /\ call' = call /\ Performing /\ sent \in Offered
        /\ sent.how # "paged" => call.at = "wait" /\ sent = Now
        /\ sent.how = "paged" => call.at = "idle"
    BY <1>8, CompleteStep
  <2>3. CASE sent \in Enrolling
    <3>1. call.at = "wait" /\ sent = Now BY <2>2, <2>3, EnrollingAtOnce
    <3>2. call.todo \in Todos /\ call.n \in 1 .. 2 /\ call.n <= Len(call.todo)
      BY <3>1, Current
    <3>3. call.n \in 1 .. Len(call.todo) BY <3>2, Requested
    <3>4. call.n = 1 /\ Len(call.todo) = 2 /\ call.todo[2] = keys
      BY <2>3, <3>1, <3>2, <3>3, Requested DEF Now
    <3> QED BY <2>2, <3>1, <3>4 DEF Unlocked
  <2>4. CASE sent = keys
    BY <2>1, <2>4, KnownServices, OfferedSound DEF Unlocked
  <2>5. CASE sent \notin Enrolling /\ sent # keys
    <3>1. enrolled' = enrolled BY <2>1, <2>5
    <3>2. SUFFICES ASSUME enrolled PROVE Unlocked' BY <3>1 DEF Unlocked
    <3>3. call.at # "idle" /\ Len(call.todo) = 2 /\ call.todo[2] = keys
      BY <3>2 DEF Unlocked
    <3>4. sent = Now BY <2>2, <3>3
    <3>5. call.n # 2 BY <2>5, <3>3, <3>4 DEF Now
    <3> QED BY <2>2, <3>3, <3>5 DEF Unlocked
  <2> QED BY <2>3, <2>4, <2>5
<1>9. CASE Refuse
  <2>1. enrolled' = enrolled /\ sent # keys BY <1>9 DEF Refuse
  <2>2. SUFFICES ASSUME enrolled PROVE Unlocked' BY <2>1 DEF Unlocked
  <2>3. /\ call' = call
        /\ sent.how # "paged" => sent = Now
        /\ sent.how = "paged" => call.at = "idle"
    BY <1>9, CompleteStep
  <2>4. call.at # "idle" /\ Len(call.todo) = 2 /\ call.todo[2] = keys
    BY <2>2 DEF Unlocked
  <2>5. call.n # 2 BY <2>1, <2>3, <2>4 DEF Now
  <2> QED BY <2>3, <2>4, <2>5 DEF Unlocked
<1>10. CASE UNCHANGED calling BY <1>10 DEF calling, Unlocked, Performing
<1> QED BY <1>1, <1>2, <1>3, <1>4, <1>5, <1>6, <1>7, <1>8, <1>9, <1>10 DEF SysCallsNext

-----------------------------------------------------------------------------
(* IInv always holds, whatever the controller refuses: callers and         *)
(* controller take turns, the registers of programming are set and given   *)
(* back in pairs, and dividers are where their sequences have taken them.  *)
THEOREM TurnsAreTaken == SysCallsSpec => []IInv
<1>1. SysCallsInit => IInv
  BY TypeInit, TurnsInit, ProgrammedInit, WalksInit DEF IInv
<1>2. IInv /\ [SysCallsNext]_calling => IInv'
    BY TypeNext, TurnsNext, ProgrammedNext, DividedNext, WalkingOutNext,
       WalkingBackNext DEF IInv
<1> QED BY <1>1, <1>2, PTL DEF SysCallsSpec

(* No service writes a parameter twice or behind the end of its block,     *)
(* whatever is called after what.                                          *)
THEOREM BlocksAlwaysWellFormed == SysCallsSpec => []BlockWellFormed
<1>1. IInv => BlockWellFormed
  <2> SUFFICES ASSUME TypeOK, Turns, call.at = "send" PROVE WellFormed(Now)
    BY DEF IInv, BlockWellFormed
  <2> QED BY Current DEF Sound
<1> QED BY <1>1, TurnsAreTaken, PTL

(* Nothing is programmed before the eNVM is at its highest frequency range *)
(* and the clocks are divided, also behind services that were refused.     *)
THEOREM AlwaysPrepared == SysCallsSpec => []ProgramsPrepared
<1>1. IInv => ProgramsPrepared
  <2> SUFFICES ASSUME IInv, phase \in {"work", "frozen"}, sent.switches
               PROVE  /\ sent.programs => envm = "program" /\ facc2 = "program"
                      /\ \/ \A i \in 1 .. 4 : div[i] \in {3, 6, 7}
                         \/ device.family = "060" /\ \A i \in 1 .. 4 : div[i] = div[1]
                         \/ device.family = "other"
    BY DEF ProgramsPrepared
  <2>1. sent.programs => envm = "program" /\ facc2 = "program"
    BY DEF IInv, Programmed, Programs, Performing
  <2>2. Switched /\ divisor \in Dividers BY DEF Switched, IInv, TypeOK
  <2>3. CASE device.family = Wide
    BY <2>1, <2>2, <2>3 DEF IInv, Divided, DividedBy32
  <2>4. CASE device.family = "005"
    <3> SUFFICES ASSUME NEW i \in 1 .. 4 PROVE div[i] \in {3, 6, 7} BY <2>1
    <3>1. Far(i) BY <2>2, <2>4 DEF IInv, Divided
    <3>2. divisor[i] \in 0 .. 7 BY <2>2 DEF Dividers
    <3>3. /\ Way(i) = << >> => divisor[i] \in {3, 7}
          /\ Way(i) # << >> => Way(i)[Len(Way(i))] = 7
      BY <3>2, Sequence DEF Way
    <3> QED BY <3>1, <3>3 DEF Far, Near
  <2>5. CASE device.family = "060" BY <2>1, <2>2, <2>5 DEF IInv, Divided
  <2>6. device.family \in {Wide, "005", "060", "other"} BY DEF IInv, TypeOK
  <2> QED BY <2>1, <2>3, <2>4, <2>5, <2>6
<1> QED BY <1>1, TurnsAreTaken, PTL

(* A divider of M2S005 never changes more than one bit at a time, in the   *)
(* foreground or in the interrupt, also when it was left divided before.   *)
THEOREM AlwaysOneBit == SysCallsSpec => OneBitAtATime
<1> DEFINE A == device.family = "005" =>
                  \A i \in 1 .. 4 : div'[i] # div[i] => OneBit(div[i], div'[i])
<1>1. IInv /\ [SysCallsNext]_calling => A
  <2> SUFFICES ASSUME IInv, [SysCallsNext]_calling, device.family = "005"
               PROVE  \A i \in 1 .. 4 : div'[i] # div[i] => OneBit(div[i], div'[i])
    OBVIOUS
  <2> USE DEF IInv
  <2>1. CASE clk_switching_fix
    <3>1. call.at = "clocks" BY <2>1 DEF clk_switching_fix
    <3>2. CASE DivideInSequence /\ call.field <= 4
      <4>1. PICK f \in 1 .. 4 : call.field = f BY <3>2 DEF TypeOK, CallSet
      <4> QED BY <3>1, <3>2, <4>1, OutStep
    <3>3. CASE DivideInSequence /\ call.field = 5 BY <3>3 DEF DivideInSequence
    <3>4. CASE ~DivideInSequence
      BY <2>1, <3>4 DEF clk_switching_fix, DivideWide, CheckDividers, OtherDevice, Wide
    <3>5. call.field <= 4 \/ call.field = 5 BY DEF TypeOK, CallSet
    <3> QED BY <3>2, <3>3, <3>4, <3>5
  <2>2. CASE revert_clk_config
    <3>1. CASE isr.field <= 4
      <4>1. PICK f \in 1 .. 4 : isr.field = f BY <2>2, <3>1 DEF TypeOK, revert_clk_config
      <4> QED BY <2>2, <4>1, BackStep
    <3>2. CASE isr.field = 5 BY <2>2, <3>2 DEF revert_clk_config, Wide
    <3>3. isr.field <= 4 \/ isr.field = 5 BY DEF TypeOK
    <3> QED BY <3>1, <3>2, <3>3
  <2>3. CASE div' = div BY <2>3
  <2>4. \/ clk_switching_fix \/ revert_clk_config \/ div' = div
    BY DEF SysCallsNext, calling, registers, Request, Refused, Start, Send, Return, Freeze,
           Thaw, Answer, Refuse, Complete
  <2> QED BY <2>1, <2>2, <2>3, <2>4
<1>2. SysCallsSpec => [][A]_calling BY <1>1, TurnsAreTaken, PTL DEF SysCallsSpec
<1> QED BY <1>2 DEF OneBitAtATime, OneBit

(* When no service is under way the dividers are those of the design, with *)
(* a controller that refuses no service that switches clocks; the eNVM and *)
(* its clocks are too, unless M2S060 refused to divide its own.            *)
THEOREM ClocksAlwaysRestored ==
  ASSUME \A s \in Disabled : ~s.switches PROVE SysCallsSpec => []ClocksRestored
<1>1. SysCallsInit => Restored BY RestoredInit
<1>2. IInv /\ Restored /\ [SysCallsNext]_calling => Restored' BY RestoredNext DEF IInv
<1>3. IInv /\ Restored => ClocksRestored
    BY DEF IInv, Restored, AtRest, Undivided, Designed, ClocksRestored, Quiet,
       Programs, Pending,
         Performing
<1> QED BY <1>1, <1>2, <1>3, TurnsAreTaken, PTL DEF SysCallsSpec

(* eNVM-1 is unlocked whenever no service is under way, with a controller  *)
(* that does not refuse to tell the number of keys, whatever else it       *)
(* refuses.                                                                *)
THEOREM LockAlwaysReleased ==
  ASSUME MSS_SYS_puf_get_number_of_keys \notin Disabled
  PROVE  SysCallsSpec => []LockReleased
<1>1. SysCallsInit => Unlocked BY UnlockedInit
<1>2. IInv /\ Unlocked /\ [SysCallsNext]_calling => Unlocked' BY UnlockedNext DEF IInv
<1>3. Unlocked => LockReleased BY DEF Unlocked, LockReleased, Quiet
<1> QED BY <1>1, <1>2, <1>3, TurnsAreTaken, PTL DEF SysCallsSpec

=============================================================================
