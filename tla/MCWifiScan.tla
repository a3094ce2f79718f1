------------------------------ MODULE MCWifiScan ------------------------------
(* Instance of WifiScan for TLC; WifiScan.cfg gives the constants. *)
EXTENDS WifiScan
==============================================================================
