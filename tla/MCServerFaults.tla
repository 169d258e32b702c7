--------------------------- MODULE MCServerFaults ---------------------------
(* The server on the JTAG backend over a cable that fails at times.        *)
EXTENDS GdbServer

MCOps     == {"?", "g", "P", "Z", "c", "s", "H",
              "target jtag", "D", "intr", "vanish"}
MCFaults  == {f \in SUBSET DmFault : Cardinality(f) <= 2}
MCTasks   == {}
MCGarbage == {1}
=============================================================================
