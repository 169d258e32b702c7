----------------------------- MODULE MCRspLink -----------------------------
(* Two commands over a queue that is shorter than a frame.                 *)
EXTENDS RspLink

MCOps    == {103, 99}
MCStrays == {Dollar, Hash}
=============================================================================
