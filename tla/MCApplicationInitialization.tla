--------------------- MODULE MCApplicationInitialization ---------------------
(* Presets with a secret, with a branch and with requests sent together are *)
(* turned on and off, the rest stays on; the dialog is mounted twice.       *)
EXTENDS ApplicationInitialization

MCPolicies == {"accessPolicy", "evaluationPolicy"}
MCOptional == {"server", "authorization", "analytics"}
=============================================================================
