---------------------------- MODULE MCFileLoader ----------------------------
(* Three names for two slots, files of up to two units.                    *)
EXTENDS FileLoader

MCMalloc(free) == IF free = {} THEN {} ELSE {CHOOSE b \in free : TRUE}

CONSTANTS a, b, c

MCServed(name) == {IF name = a THEN 1 ELSE 2}

MCBitstreams == {<<v, v>> : v \in Versions}
=============================================================================
