------------------------------- MODULE MCUdp -------------------------------
(***************************************************************************)
(* Udp with the addresses and symmetry of its instances.                   *)
(***************************************************************************)
EXTENDS Udp, TLC

\* Two ports of the control connection's host, and another host.
MCAddrs == {[ip |-> "local", port |-> 1], [ip |-> "local", port |-> 2], [ip |-> "other", port |-> 1]}
OneAddr == {[ip |-> "local", port |-> 1]}

Symmetric == Permutations(Assocs) \cup Permutations(Conns)
=============================================================================
