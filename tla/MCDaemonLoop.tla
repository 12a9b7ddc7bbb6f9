---------------------------- MODULE MCDaemonLoop ----------------------------
(* The times of wire-daemon.py in the order of their sizes: fast_poll is 2 *)
(* seconds, the sleep after a failure 5 and the cadence 90.                *)
EXTENDS DaemonLoop

\* Two failures in a row.
TwoFailures == TickMax + Backoff + 1
=============================================================================
