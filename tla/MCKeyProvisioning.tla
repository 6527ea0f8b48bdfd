-------------------------- MODULE MCKeyProvisioning -------------------------
(***************************************************************************)
(* The model-checked instance of KeyProvisioning: a provision of one agent *)
(* and a sync of two, the first of them the same.                          *)
(***************************************************************************)
EXTENDS KeyProvisioningProps

CONSTANTS a1, a2

MCAgents == {a1, a2}
MCCommands == {[kind |-> "provision", agents |-> <<a1>>],
               [kind |-> "sync", agents |-> <<a1, a2>>]}
=============================================================================
