------------------------------ MODULE MCDownloads ------------------------------
(* Constants for TLC: two calls for two keys at a time, of one node or of two,
   and transaction ids that are drawn again. *)
EXTENDS Kademlia

MCNodes == {1, 2, 3}
MCId == <<{}, {0}, {0, 1}>>
MCKeys == {{0, 1}, {1}}

Ask(use, by, target) == [use |-> use, by |-> by, target |-> target]

MCCalls == {"c1", "c2"}
MCContacts == {<<1, 2>>, <<2, 1>>, <<3, 1>>}
MCHeld == [n \in MCNodes |->
  CASE n = 1 -> {} [] n = 2 -> {<<{1}, 2>>} [] n = 3 -> {<<{0, 1}, 3>>}]
MCRequests == [c \in MCCalls |->
  IF c = "c1" THEN {Ask("download", 1, {0, 1})}
  ELSE {Ask("download", 1, {1}), Ask("download", 2, {0, 1}), Ask("announce", 2, {0, 1})}]
===============================================================================
