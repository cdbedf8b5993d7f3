--------------------------- MODULE MCHubLifecycle ---------------------------
(* Instances of HubLifecycle for TLC: its constants are numbers.           *)
EXTENDS HubLifecycle
=============================================================================
