--------------------------- MODULE MCServerJtag ---------------------------
(* The server on the JTAG backend with a sound cable: no application tasks. *)
EXTENDS GdbSession

MCOps     == {"?", "m", "P", "Z", "z", "c", "s", "target jtag", "D", "intr", "vanish"}
MCFaults  == {{}}
MCTasks   == {}
MCGarbage == {1}

\* The commands of the runs that end in a disagreement with a document.
CrossingOps == {"?", "target jtag", "Z", "c", "intr"}
ReinitOps   == {"?", "target jtag", "m", "c"}
=============================================================================
