--------------------------- MODULE MCServerLocal ---------------------------
(* The server switched between the tasks of the ESP32 and the hart.        *)
EXTENDS GdbServer

MCOps     == AllOps \ {"P", "g", "H", "vanish"}
MCFaults  == {{}}
MCTasks   == {"counter_a"}
MCGarbage == {0, 2}

\* The commands of the runs that end in a disagreement with a document.
SwitchOps == {"?", "target local", "c", "intr"}
=============================================================================
