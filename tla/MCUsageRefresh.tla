---------------------------- MODULE MCUsageRefresh ----------------------------
(* Small instances of UsageRefresh for TLC; the cfg gives the constants.      *)
EXTENDS UsageRefresh, TLC
===============================================================================
