--------------------------- MODULE MCSysServices ---------------------------
(* Small instances of SysServices for TLC. *)
EXTENDS SysServices

(* MSS_SYS_get_serial_number, MSS_SYS_check_digest, MSS_SYS_start_isp.  The *)
(* serial number's response is 6 bytes long in the source.                 *)
Serial == [op |-> 1, how |-> "ptr", size |-> 1, length |-> 6]
Digest == [op |-> 23, how |-> "cmd", size |-> 2, length |-> 2]
Isp    == [op |-> 21, how |-> "paged", size |-> 2, length |-> 2]

MCServices == {Serial, Digest, Isp}

MCBuffers == {"g_response", "g_isp_response", "stack"}
MCStatus  == {0, 2}
Plain     == {5}
MCTampers == {128}
Flag      == {9}

=============================================================================
