----------------------------- MODULE MCIdentity -----------------------------
(***************************************************************************)
(* An instance of Identity.  A service with a pre-seeded digest, whose     *)
(* container runs another image, and a service without one share an        *)
(* address in turn; a container of the second service with another image   *)
(* runs beside them.                                                       *)
(***************************************************************************)
EXTENDS Identity, TLC

CONSTANTS a1, a2, c1, c2

Symmetry == Permutations(Attests) \union Permutations(Calls)

Container(service, image, ip) == [service |-> service, image |-> image, ip |-> ip]

TwoAddresses == {Container("agent", "v1", "ip1"), Container("finance", "v2", "ip1"),
                 Container("agent", "v2", "ip2")}

TwoServices == {"agent", "finance"}
MCSeed      == [s \in AGENT_REGISTRY |-> IF s = "finance" THEN "v1" ELSE NoImage]
=============================================================================
