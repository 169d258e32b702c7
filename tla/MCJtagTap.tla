----------------------------- MODULE MCJtagTap -----------------------------
(* Scans of up to three bits from a controller in any state.               *)
EXTENDS JtagTap
=============================================================================
