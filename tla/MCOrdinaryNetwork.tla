------------------------- MODULE MCOrdinaryNetwork --------------------------
(* Two interfaces, each configured with DNS servers.                        *)
EXTENDS OrdinaryNetwork

CONSTANTS E1, E2

MCInterfaces == {E1, E2}
MCNetworks == {[iface |-> E1, dns |-> TRUE], [iface |-> E2, dns |-> TRUE]}
=============================================================================
