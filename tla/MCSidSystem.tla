---------------------------- MODULE MCSidSystem ----------------------------
(* Small instances of SidSystem for TLC. *)
EXTENDS SidSystem

RegW(r, d) == [slave |-> "BRIDGE", a14 |-> 0, idx |-> r, HWRITE |-> 1, data |-> d]
RegR(r)    == [slave |-> "BRIDGE", a14 |-> 0, idx |-> r, HWRITE |-> 0]
SidW(i, d) == [slave |-> "BRIDGE", a14 |-> 1, idx |-> i, HWRITE |-> 1, data |-> d]
SidR(i)    == [slave |-> "BRIDGE", a14 |-> 1, idx |-> i, HWRITE |-> 0]
SdramW(d)  == [slave |-> "SDRAM", HWRITE |-> 1, data |-> d]
Unmapped   == [slave |-> "OTHER", HWRITE |-> 0]

MCIndex == {0, 1, 21}
MCBytes == {85, 170}

RegWrites == {RegW(0, 257), RegW(0, 2), RegW(1, 260)}
SidWrites == {SidW(0, 273), SidW(21, 17)}
ToBridge  == RegWrites \cup SidWrites \cup {RegR(1), SidR(21)}
ToOthers  == {SdramW(99), Unmapped}
All       == ToBridge \cup ToOthers

MCWords == {0, 2, 257, 260, 273, 17, 99}

(* A master that pipelines, except behind a write to a bridge register and *)
(* from another slave, which may wait, into the bridge.                    *)
Careful == {p \in All \X All :
              /\ p[1] \notin RegWrites
              /\ p[1] \in ToBridge \/ p[2] \in ToOthers}

=============================================================================
