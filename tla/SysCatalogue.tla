---------------------------- MODULE SysCatalogue ----------------------------
(***************************************************************************)
(* The services of mss_sys_services.c: the command each sends, in which    *)
(* form, with which parameters, and the response it expects.               *)
(*                                                                         *)
(*   op       command byte                                                 *)
(*   how      "ptr": opcode and the address of a parameter block           *)
(*            (execute_service); "cmd": `size` bytes; "paged": a bitstream  *)
(*   size     bytes of the command                                         *)
(*   block    bytes of the parameter block, 0 when the caller provides it  *)
(*   fields   what is written to the block: <<offset, length>>             *)
(*   length   bytes of the response                                        *)
(*   missing  how many of the first revisions of M2S050 an ASSERT refuses  *)
(*   switches clk_switching_fix is called first                            *)
(*   programs the eNVM and its clocks are prepared first                   *)
(***************************************************************************)
EXTENDS Naturals, Sequences

STANDARD_SERV_RESP_LENGTH == 6
ADDRESS == 4            \* bytes written by write_ptr_value_into_array

Service(op, how, size, length) ==
  [op |-> op, how |-> how, size |-> size, block |-> 0, fields |-> << >>,
   length |-> length, missing |-> 0, switches |-> FALSE, programs |-> FALSE]

(* The caller's own buffer is the parameter block; a block of the service; *)
(* a command of so many bytes and a response of two.                       *)
Fetch(op)                 == Service(op, "ptr", 2, STANDARD_SERV_RESP_LENGTH)
Block(op, block, fields)  == [Fetch(op) EXCEPT !.block = block, !.fields = fields]
Command(op, size)         == Service(op, "cmd", size, 2)

Lacking(n, s) == [s EXCEPT !.missing = n]

-----------------------------------------------------------------------------
(* Device and design information. *)
MSS_SYS_get_serial_number      == Fetch(1)
MSS_SYS_get_user_code          == Fetch(4)
MSS_SYS_get_design_version     == Fetch(5)
MSS_SYS_get_device_certificate == Fetch(0)
MSS_SYS_get_secondary_device_certificate == Lacking(4, Fetch(30))

(* Cryptographic services. *)
MSS_SYS_128bit_aes ==
  Block(3, 44, << <<0, 16>>, <<16, 16>>, <<32, 2>>, <<34, 1>>, <<35, 1>>,
                  <<36, ADDRESS>>, <<40, ADDRESS>> >>)
MSS_SYS_256bit_aes ==
  Block(6, 60, << <<0, 32>>, <<32, 16>>, <<48, 2>>, <<50, 1>>, <<51, 1>>,
                  <<52, ADDRESS>>, <<56, ADDRESS>> >>)
MSS_SYS_sha256 == Block(10, 12, << <<0, 4>>, <<4, ADDRESS>>, <<8, ADDRESS>> >>)

(* Mutant: the length is written one byte early, onto the key. *)
HmacOverlap ==
  Block(12, 58, << <<0, 32>>, <<31, 4>>, <<36, ADDRESS>>, <<40, ADDRESS>> >>)

MSS_SYS_hmac ==
  Block(12, 58, << <<0, 32>>, <<32, 4>>, <<36, ADDRESS>>, <<40, ADDRESS>> >>)
MSS_SYS_key_tree == Block(9, 49, << <<0, 32>>, <<32, 1>>, <<33, 16>> >>)
MSS_SYS_challenge_response == Block(14, 21, << <<0, ADDRESS>>, <<4, 1>>, <<5, 16>> >>)

(* Elliptic curves. *)
MSS_SYS_ecc_point_multiplication ==
  Lacking(4, Block(16, 12, << <<0, ADDRESS>>, <<4, ADDRESS>>, <<8, ADDRESS>> >>))
MSS_SYS_ecc_point_addition ==
  Lacking(4, Block(17, 12, << <<0, ADDRESS>>, <<4, ADDRESS>>, <<8, ADDRESS>> >>))

(* Non-deterministic random bit generator. *)
MSS_SYS_nrbg_reset     == Command(45, 4)
MSS_SYS_nrbg_self_test == Command(40, 1)
MSS_SYS_nrbg_instantiate == Block(41, 7, << <<0, ADDRESS>>, <<4, 2>>, <<6, 1>> >>)
MSS_SYS_nrbg_generate ==
  Block(42, 12, << <<0, ADDRESS>>, <<4, ADDRESS>>, <<8, 1>>, <<9, 1>>, <<10, 1>>,
                   <<11, 1>> >>)
MSS_SYS_nrbg_reseed == Block(43, 6, << <<0, ADDRESS>>, <<4, 1>>, <<5, 1>> >>)
MSS_SYS_nrbg_uninstantiate == [Command(44, 2) EXCEPT !.length = 3]

(* Physically unclonable function.  A block that is declared with an       *)
(* initial value is written as a whole.                                    *)
MSS_SYS_puf_create_activation_code == [Lacking(4, Block(25, 1, << <<0, 1>> >>))
                                        EXCEPT !.length = 2]
MSS_SYS_puf_delete_activation_code == [Lacking(4, Block(25, 1, << <<0, 1>> >>))
                                        EXCEPT !.length = 2]
MSS_SYS_puf_get_number_of_keys == Lacking(4, Block(26, 11, << <<0, 11>> >>))
MSS_SYS_puf_enroll_key ==
  Lacking(4, Block(26, 11, << <<0, 1>>, <<1, ADDRESS>>, <<5, ADDRESS>>, <<9, 1>>, <<10, 1>> >>))
MSS_SYS_puf_delete_key == Lacking(4, Block(26, 11, << <<0, 1>>, <<9, 1>> >>))
MSS_SYS_puf_fetch_key  == Lacking(4, Block(27, 5, << <<0, ADDRESS>>, <<4, 1>> >>))
MSS_SYS_puf_export_keycodes == Lacking(4, Block(26, 11, << <<0, 1>>, <<1, ADDRESS>> >>))
MSS_SYS_puf_import_keycodes == Lacking(4, Block(26, 11, << <<0, 1>>, <<1, ADDRESS>> >>))
MSS_SYS_puf_fetch_ecc_public_key == Lacking(4, Block(28, 4, << <<0, ADDRESS>> >>))
MSS_SYS_puf_get_random_seed == Lacking(4, Block(29, 4, << <<0, ADDRESS>> >>))

(* Tamper control. *)
MSS_SYS_start_clock_monitor    == Lacking(4, Command(31, 2))
MSS_SYS_stop_clock_monitor     == Lacking(4, Command(31, 2))
MSS_SYS_enable_puf_power_down  == Lacking(4, Command(31, 2))
MSS_SYS_disable_puf_power_down == Lacking(4, Command(31, 2))
MSS_SYS_clear_lock_parity      == Lacking(4, Command(31, 2))
MSS_SYS_clear_mesh_short       == Lacking(4, Command(31, 2))

(* Flash*Freeze, digest checks, programming, zeroization.  Authentication  *)
(* leaves the clocks and the eNVM alone.                                   *)
MSS_SYS_flash_freeze == [Lacking(2, Command(2, 2)) EXCEPT !.switches = TRUE]
MSS_SYS_check_digest(fabric) == [Lacking(3, Command(23, 2)) EXCEPT !.switches = fabric]
MSS_SYS_initiate_iap(authenticate) ==
  [Command(20, 6) EXCEPT !.switches = ~authenticate, !.programs = ~authenticate]
MSS_SYS_start_isp(authenticate) ==
  [Service(21, "paged", 2, 2) EXCEPT !.switches = ~authenticate, !.programs = ~authenticate]
MSS_SYS_zeroize_device == [Lacking(3, Command(240, 1)) EXCEPT !.length = 0]

-----------------------------------------------------------------------------
(* The services that a function sends and that leave nothing behind.       *)
Services ==
  {MSS_SYS_get_serial_number, MSS_SYS_get_user_code, MSS_SYS_get_design_version,
   MSS_SYS_get_device_certificate, MSS_SYS_get_secondary_device_certificate,
   MSS_SYS_128bit_aes, MSS_SYS_256bit_aes, MSS_SYS_sha256, MSS_SYS_hmac,
   MSS_SYS_key_tree, MSS_SYS_challenge_response,
   MSS_SYS_ecc_point_multiplication, MSS_SYS_ecc_point_addition,
   MSS_SYS_nrbg_reset, MSS_SYS_nrbg_self_test, MSS_SYS_nrbg_instantiate,
   MSS_SYS_nrbg_generate, MSS_SYS_nrbg_reseed, MSS_SYS_nrbg_uninstantiate,
   MSS_SYS_puf_get_number_of_keys, MSS_SYS_puf_fetch_key,
   MSS_SYS_puf_export_keycodes, MSS_SYS_puf_import_keycodes,
   MSS_SYS_puf_fetch_ecc_public_key, MSS_SYS_puf_get_random_seed,
   MSS_SYS_start_clock_monitor, MSS_SYS_stop_clock_monitor,
   MSS_SYS_enable_puf_power_down, MSS_SYS_disable_puf_power_down,
   MSS_SYS_clear_lock_parity, MSS_SYS_clear_mesh_short,
   MSS_SYS_flash_freeze, MSS_SYS_check_digest(TRUE), MSS_SYS_check_digest(FALSE),
   MSS_SYS_initiate_iap(TRUE), MSS_SYS_initiate_iap(FALSE),
   MSS_SYS_start_isp(TRUE), MSS_SYS_start_isp(FALSE)}

(* The services behind which the controller keeps the lock of eNVM-1.      *)
Enrolling == {MSS_SYS_puf_create_activation_code, MSS_SYS_puf_delete_activation_code,
              MSS_SYS_puf_enroll_key, MSS_SYS_puf_delete_key}

-----------------------------------------------------------------------------
Overlap(f, g) == f[1] < g[1] + g[2] /\ g[1] < f[1] + f[2]

(* No parameter of a service is written over another one or behind the end *)
(* of the block, which is an array on the stack.                           *)
WellFormed(s) ==
  \A i \in 1 .. Len(s.fields) :
    /\ s.fields[i][1] + s.fields[i][2] <= s.block
    /\ \A j \in 1 .. Len(s.fields) : i # j => ~Overlap(s.fields[i], s.fields[j])

=============================================================================
