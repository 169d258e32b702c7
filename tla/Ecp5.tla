-------------------------------- MODULE Ecp5 --------------------------------
(***************************************************************************)
(* The steps of ecp5_jtag.c that program an ECP5, and what each does to    *)
(* the device: in programming mode it clears its SRAM and takes data; DONE *)
(* is shown when it leaves that mode with a complete configuration.        *)
(***************************************************************************)
EXTENDS Sequences

CONSTANTS
    Bitstreams    \* the complete configurations

VARIABLES
    fpga          \* isc: in programming mode; loaded: its SRAM

Ecp5Init == fpga = [isc |-> FALSE, loaded |-> <<>>]

FpgaDone == ~fpga.isc /\ fpga.loaded \in Bitstreams

\* jtag_reset, which does not end programming mode, and ISC_ENABLE.
IscEnable == fpga' = [fpga EXCEPT !.isc = TRUE]

\* Mutant: neither the SRAM nor the address is set back.
NoErase == UNCHANGED fpga

\* ISC_ERASE, LSC_INIT_ADDRESS and LSC_BITSTREAM_BURST.
IscErase == fpga' = IF fpga.isc THEN [fpga EXCEPT !.loaded = <<>>] ELSE fpga

ProgramData(unit) ==
    fpga' = IF fpga.isc THEN [fpga EXCEPT !.loaded = Append(@, unit)] ELSE fpga

IscDisable == fpga' = [fpga EXCEPT !.isc = FALSE]
=============================================================================
