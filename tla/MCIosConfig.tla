---------------------------- MODULE MCIosConfig ---------------------------
(* Instances of IosConfig for TLC. *)
EXTENDS IosConfig, TLC

CONSTANTS g1, g10, p1, p2, a0, v10, x

ClientSymmetry == Permutations(Clients)

Op(kind, object, value, network) ==
    [kind |-> kind, object |-> object, value |-> value, network |-> network]

\* A VLAN and a process are created by the same lines; the process is there to
\* be removed while an interface joins or leaves.
AllKinds ==
    {Op("vlan", v10, x, None), Op("address", g1, x, None), Op("process", p1, None, None),
     Op("membership", g1, <<p1, a0>>, x), Op("membership", g1, None, None)}

Joining == {Op("membership", i, <<p1, a0>>, None) : i \in Interfaces}
             \union {Op("membership", i, <<p2, a0>>, None) : i \in Interfaces}
Leaving == {Op("membership", i, None, None) : i \in Interfaces}
JoinAndLeave == Joining \union Leaving

\* A filter that shows the interface asked for and no other.
Exactly == [i \in Interfaces |-> {i}]

\* `section interface g1` also prints g10.
ByPrefix == [i \in Interfaces |-> IF i = g1 THEN {g1, g10} ELSE {i}]
===========================================================================
