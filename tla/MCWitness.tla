------------------------------ MODULE MCWitness -----------------------------
(* Two instances: the schedule of the witnesses along a chain, with every  *)
(* outcome of maintenance; and the plugin of a node with one witness, whose *)
(* fellow witnesses stay the same.                                         *)
EXTENDS WitnessPlugin

CONSTANTS w1, w2, w3, w4, k1, k2, k3

VARIABLE instance

\* the vote count keeps, replaces, adds or removes a witness
MCActiveSets == {{w1, w2, w3}, {w1, w2, w4}, {w1, w2, w3, w4}}

MCInitialKey == [w \in _witnesses |-> k1]

MCInit ==
    /\ PluginInit
    /\ \/ instance = "schedule" /\ clock = GenesisTime * Second /\ ~_production_enabled
       \/ instance = "plugin" /\ active = {w1, w2, w3} /\ interval = 2

Schedule_step ==
    /\ instance = "schedule" /\ Next
    /\ UNCHANGED <<plugin_vars, instance>>

Plugin_step ==
    /\ instance = "plugin" /\ PluginNext /\ active' = active
    /\ UNCHANGED instance

MCSpec == MCInit /\ [][Schedule_step \/ Plugin_step]_<<vars, plugin_vars, instance>>
=============================================================================
