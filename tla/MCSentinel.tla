---------------------------- MODULE MCSentinel ------------------------------
(* Sentinel for TLC: two sentinels, a master and two slaves.               *)
EXTENDS Sentinel

CONSTANTS s1, s2, i1, i2, i3
=============================================================================
