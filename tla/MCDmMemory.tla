----------------------------- MODULE MCDmMemory -----------------------------
(* Two transfers of up to six bytes, of any start, in two aligned words.   *)
EXTENDS DmMemory

MCContents == {[a \in Addr |-> a]}
MCPayloads == {[i \in 0 .. MaxLen - 1 |-> Size + i]}
MCByte     == 0 .. Size + MaxLen - 1
=============================================================================
