---------------------------- MODULE MCProxmoxSync ----------------------------
(* The instance of ProxmoxSync that is checked; its values are in the cfg.   *)
EXTENDS ProxmoxSync
=============================================================================
