---------------------------- MODULE Breakpoints ----------------------------
(***************************************************************************)
(* The software breakpoint table s_breakpoints[TARGET_MAX_BREAKPOINTS]     *)
(* that target_jtag.c and target_local.c each declare, with the same code. *)
(* A slot holds an address, or NoAddr when its "active" flag is false: the *)
(* address left in an inactive slot is never read.                         *)
(***************************************************************************)
EXTENDS Naturals, Integers

CONSTANTS
    NumAddrs,    \* program addresses, in words: 0 .. NumAddrs - 1
    NumSlots     \* TARGET_MAX_BREAKPOINTS

ASSUME AddrAssumption == NumAddrs \in Nat \ {0}
ASSUME SlotAssumption == NumSlots \in Nat \ {0}

Addr   == 0 .. NumAddrs - 1
NoAddr == -1
Slot   == 0 .. NumSlots - 1

BreakpointTable == [Slot -> Addr \cup {NoAddr}]
EmptyTable      == [i \in Slot |-> NoAddr]

SlotsWith(table, a) == {i \in Slot : table[i] = a}
Active(table)       == {i \in Slot : table[i] # NoAddr}
Lowest(S)           == CHOOSE i \in S : \A k \in S : i <= k

\* Mutant: the search for a slot that already holds the address is left out.
NeedSlotNoSearch(table, a) == SlotsWith(table, NoAddr) # {}
\* The first loop finds a slot that holds the address, the second a free one.
NeedSlot(table, a) == SlotsWith(table, a) = {} /\ SlotsWith(table, NoAddr) # {}
FreeSlot(table)    == Lowest(SlotsWith(table, NoAddr))

TableSet(table, a) ==
    IF NeedSlot(table, a) THEN [table EXCEPT ![FreeSlot(table)] = a] ELSE table

SlotOf(table, a) == Lowest(SlotsWith(table, a))

TableClear(table, a) ==
    IF SlotsWith(table, a) = {} THEN table
    ELSE [table EXCEPT ![SlotOf(table, a)] = NoAddr]

\* No address occupies two slots: clearing one address frees all that it had.
NoDuplicates(table) ==
    \A i, k \in Slot : table[i] = table[k] /\ table[i] # NoAddr => i = k
=============================================================================
