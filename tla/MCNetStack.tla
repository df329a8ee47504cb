----------------------------- MODULE MCNetStack -----------------------------
(* NetStack.tla with a handful of hosts.                                   *)
EXTENDS NetStack, TLC

(* Hosts and cards are interchangeable.                                    *)
Symmetric == Permutations(Hosts) \cup Permutations(Macs)
=============================================================================
