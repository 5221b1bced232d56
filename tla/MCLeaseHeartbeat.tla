-------------------------- MODULE MCLeaseHeartbeat ---------------------------
(* Instance of LeaseHeartbeat for TLC: a ttl that just covers set-up,        *)
(* interval, lateness and settling.                                          *)
EXTENDS LeaseHeartbeat, TLC

ASSUME JustCovered == Setup + Interval + Lag + Settle + 1 = TTL

Symmetry == Permutations(Owners)
==============================================================================
