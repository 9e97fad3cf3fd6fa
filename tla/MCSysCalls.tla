----------------------------- MODULE MCSysCalls -----------------------------
(* Small instances of SysCalls for TLC. *)
EXTENDS SysCalls

MCRequests == Interface

(* What the controller may refuse. *)
Hashes  == {MSS_SYS_sha256, MSS_SYS_hmac}
Device(family, revision, dividers) == [family |-> family, revision |-> revision, div |-> dividers]
MCDevices == {Device(Wide, 5, <<1, 2, 0, 0>>), Device(Wide, 1, <<0, 0, 0, 0>>),
              Device("005", 5, <<0, 1, 2, 3>>), Device("005", 5, <<4, 5, 6, 7>>),
              Device("060", 5, <<2, 2, 2, 2>>), Device("060", 5, <<2, 2, 1, 2>>),
              Device("other", 5, <<0, 1, 0, 1>>)}

=============================================================================
