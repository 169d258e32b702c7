---------------------------- MODULE DeviceConfig ----------------------------
(***************************************************************************)
(* The settings of device_config.c: read from NVS over the defaults,       *)
(* edited at the boot prompt, and saved one by one before a restart.       *)
(* Each nvs_set_str may fail, which nobody looks at, and power may be lost *)
(* between two of them.                                                    *)
(***************************************************************************)
EXTENDS Integers, Sequences

CONSTANTS
    Fields,      \* the settings, in the order of the prompt and of the save
    Values,
    Default,     \* what is built in
    Missing      \* not in NVS

ASSUME ConfigAssumption == Default \in Values /\ Missing \notin Values

VARIABLES
    nvs,         \* the namespace dev_cfg
    s_config,
    cfg,         \* device_config_init: pc, the setting it is at, changed, and
                 \* whether a part of the save failed
    wanted,      \* what the last save was to leave
    torn         \* a part of it failed, or power was lost in it

configVars == <<nvs, s_config, cfg, wanted, torn>>

Setting  == {Fields[i] : i \in DOMAIN Fields}

ASSUME FieldsAssumption == Fields \in Seq(Setting) /\ Fields # <<>>

Defaults == [f \in Setting |-> Default]

\* What the next boot will read.
Stored == [f \in Setting |-> IF nvs[f] = Missing THEN Default ELSE nvs[f]]

ConfigStart == [pc |-> "load", i |-> 1, changed |-> FALSE, failed |-> FALSE]

ConfigInit ==
    /\ nvs = [f \in Setting |-> Missing]
    /\ s_config = Defaults /\ cfg = ConfigStart
    /\ wanted = Defaults /\ torn = FALSE

LoadFromNvs ==
    /\ cfg.pc = "load"
    /\ s_config' = Stored
    /\ cfg' = [cfg EXCEPT !.pc = "prompt"]
    /\ UNCHANGED <<nvs, wanted, torn>>

\* wait_for_enter: a key in time, or none.
Prompt ==
    /\ cfg.pc = "prompt"
    /\ \E pc \in {"edit", "done"} : cfg' = [cfg EXCEPT !.pc = pc]
    /\ UNCHANGED <<nvs, s_config, wanted, torn>>

\* After the last setting: a save if anything was entered.
After(c) ==
    IF c.i < Len(Fields) THEN [c EXCEPT !.i = @ + 1]
    ELSE [c EXCEPT !.i = 1, !.pc = IF c.changed THEN "save" ELSE "done"]

\* An empty line and a timeout leave the setting as it is.
Edit ==
    /\ cfg.pc = "edit"
    /\ \/ cfg' = After(cfg) /\ UNCHANGED s_config
       \/ /\ cfg' = After([cfg EXCEPT !.changed = TRUE])
          /\ \E v \in Values : s_config' = [s_config EXCEPT ![Fields[cfg.i]] = v]
    /\ UNCHANGED <<nvs, wanted, torn>>

\* nvs_open fails and nothing is saved, but the device restarts all the same.
OpenFails ==
    /\ cfg.pc = "save" /\ cfg.i = 1
    /\ cfg' = [cfg EXCEPT !.pc = "restart"]
    /\ UNCHANGED <<nvs, s_config, wanted, torn>>

SaveSettings(saved) ==
    /\ cfg.pc = "save"
    /\ \E ok \in BOOLEAN :
         LET f == Fields[cfg.i]  failed == cfg.failed \/ ~ok IN
         /\ nvs' = IF ok /\ f \in saved THEN [nvs EXCEPT ![f] = s_config[f]] ELSE nvs
         /\ IF cfg.i < Len(Fields)
            THEN /\ cfg' = [cfg EXCEPT !.i = @ + 1, !.failed = failed]
                 /\ torn' = TRUE /\ UNCHANGED wanted
            ELSE /\ cfg' = [cfg EXCEPT !.pc = "restart"]
                 /\ torn' = failed /\ wanted' = s_config
    /\ UNCHANGED s_config

\* Mutant: the last setting is not saved.
SaveButLast == SaveSettings(Setting \ {Fields[Len(Fields)]})

Save == SaveSettings(Setting)

\* The device starts again, after a save or because power was lost.
ConfigRestart ==
    /\ s_config' = Defaults /\ cfg' = ConfigStart
    /\ UNCHANGED <<nvs, wanted, torn>>

ConfigStep == LoadFromNvs \/ Prompt \/ Edit \/ OpenFails \/ Save
=============================================================================
