------------------------------- MODULE MCNvm --------------------------------
(* Small instances of Nvm for TLC: pages of four bytes, words of two. *)
EXTENDS Nvm

Users(a, b, c, d) == [u \in 0 .. 3 |-> <<a, b, c, d>>[u + 1]]
Open == Users(9, 9, 9, 9)
Device(family, first, users) == [family |-> family, first |-> first, users |-> users]
MCDevices == {Device("005", FALSE, Users(1, 8, 9, 9)), Device("010/025/050", TRUE, Open),
              Device("060", FALSE, Users(9, 9, 9, 0)), Device("090/150", FALSE, Users(8, 9, 0, 1))}

B == NVM1_BOTTOM_OFFSET
P == BYTES_PER_PAGE
Do(op, start, length, lock) == [op |-> op, start_addr |-> start, length |-> length, lock_page |-> lock]

(* Behind and in front of the lower area; over pages, within one, within a *)
(* word; over the boundary of the blocks; up to protected and reserved     *)
(* areas and behind the end; reads of the write count.                     *)
MCCalls ==
  {Do("write", 32 * P + s, n, l) : s \in {0, 1}, n \in {2, 6}, l \in {0, 1}}
    \cup {Do("write", NVM_BASE_ADDRESS + B - 3, 6, 1), Do("write", 0, 1, 0),
          Do("write", 32 * P, 0, 0), Do("write", 992 * P - 1, 2, 0), Do("write", 1952 * P - 1, 2, 0),
          Do("write", 2032 * P - 1, 2, 0), Do("write", 3936 * P - 1, 2, 0),
          Do("write", 4032 * P - 1, 1, 0), Do("write", 2048 * P - 1, 2, 0),
          Do("write", NVM_TOP_OFFSET, 1, 0)}
    \cup {Do("unlock", 32 * P + 2, 4, 0), Do("unlock", B - 2, 4, 0), Do("unlock", 0, 1, 0),
          Do("count", 32 * P, 0, 0), Do("count", 1, 0, 0), Do("count", B, 0, 0)}

=============================================================================
