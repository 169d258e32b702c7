-------------------------------- MODULE Bytes --------------------------------
(***************************************************************************)
(* The target's byte memory and the 32-bit registers its bytes travel in:  *)
(* four bytes, the lowest address first, or one byte under a filling.      *)
(***************************************************************************)
EXTENDS Integers

CONSTANTS
    Size,       \* bytes in the address space
    MaxLen,     \* the longest transfer
    Byte,       \* what a byte may hold
    Fill        \* the upper bytes of a register that holds one byte

Addr      == 0 .. Size - 1
Memory    == [Addr -> Byte]
Buffer    == [0 .. MaxLen - 1 -> Byte]
Word      == [0 .. 3 -> Byte \cup {Fill}]
Transfers == [op : {"read", "write"}, addr : Addr, len : 0 .. MaxLen]

ASSUME BytesAssumption ==
    Size \in Nat \ {0} /\ Size % 4 = 0 /\ MaxLen \in 0 .. Size

\* uint32_t arithmetic, where the address space wraps: the address i after a, and
\* how far x is after a.
At(a, i)     == IF a + i < Size THEN a + i ELSE a + i - Size
Behind(a, x) == IF x >= a THEN x - a ELSE x + Size - a

\* n bytes at a into a register; memory with n bytes of a register at a.
Loaded(m, a, n)    == [i \in 0 .. 3 |-> IF i < n THEN m[At(a, i)] ELSE Fill]
Stored(m, a, n, w) == [x \in Addr |-> IF Behind(a, x) < n THEN w[Behind(a, x)] ELSE m[x]]

\* n bytes of a buffer at o into a register; a buffer with n bytes of a register at o.
Taken(b, o, n)  == [i \in 0 .. 3 |-> IF i < n THEN b[o + i] ELSE Fill]
Put(b, o, n, w) == [i \in 0 .. MaxLen - 1 |-> IF i \in o .. o + n - 1 THEN w[i - o] ELSE b[i]]
=============================================================================
