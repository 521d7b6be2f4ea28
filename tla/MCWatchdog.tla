---------------------------- MODULE MCWatchdog ----------------------------
EXTENDS Watchdog
OneSource == [j \in Jobs |-> "hc"]
===========================================================================
