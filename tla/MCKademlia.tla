------------------------------ MODULE MCKademlia ------------------------------
(* Constants for TLC: ids of two bytes of three bits; node 1 knows the others. *)
EXTENDS Kademlia

MCNodes == {1, 2, 3}
MCId == <<{}, {0}, {0, 1}>>
MCKeys == {{0, 1}}

Ask(use, by, target) == [use |-> use, by |-> by, target |-> target]

MCRefreshed == {<<1, 1>>, <<2, 0>>, <<2, 1>>, <<2, 2>>}

MCTicking == {<<3, <<{0, 1}, 3>>>>}
MCCalls == {"c1"}
MCContacts == {<<1, 2>>, <<2, 1>>, <<3, 1>>}
MCHeld == [n \in MCNodes |-> IF n = 3 THEN {<<{0, 1}, 3>>} ELSE {}]
MCRequests == [c \in MCCalls |-> {Ask("join", 2, {0}), Ask("announce", 2, {0, 1}), Ask("download", 1, {0, 1})}]
===============================================================================
