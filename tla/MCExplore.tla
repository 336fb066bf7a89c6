----------------------------- MODULE MCExplore -----------------------------
(* Instances of Explore for TLC: four addresses.  One does not match the   *)
(* query and, as a string, has no value; one string matches the query as a *)
(* pattern only, and one function has it only as a part of its name.       *)
EXTENDS Explore

MCMatching ==
    [search    |-> [regex |-> {1, 3, 4}, backend |-> {3, 4}],
     functions |-> [regex |-> {1, 3, 4}, backend |-> {1, 3}]]
MCUndecodable == {2}
MCLimits == {1, 2}
MCXrefLimits == {1, 2, 4}
MCCode == {1, 2, 4}
=============================================================================
