------------------------------- MODULE MCBoot -------------------------------
(* Two settings, a file manager, the GDB server and a UART relay.          *)
EXTENDS Boot

MCFields  == <<"ssid", "password">>
MCModules == <<"file", "gdb", "console">>
MCTopics  == {"file", "console"}
=============================================================================
