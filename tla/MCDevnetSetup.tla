---------------------------- MODULE MCDevnetSetup ----------------------------
(* Instances of DevnetSetup for TLC: the vaults of VAULT_SPECS, scaled down. *)
EXTENDS DevnetSetup

MCVaults == <<[symbol |-> "NVDA", labels |-> <<"NVDAx", "NVDAon">>]>>
=============================================================================
