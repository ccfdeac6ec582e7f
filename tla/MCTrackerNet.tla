----------------------------- MODULE MCTrackerNet -----------------------------
(* Small networks for TLC. *)
EXTENDS TrackerNet

CONSTANTS a1, a2, a3

\* Two trackers of one network; a1 is told of the other one.
OneKey   == [a \in Trackers |-> "k"]
OneSided == [a \in Trackers |-> IF a = a1 THEN Trackers \ {a1} ELSE {}]

\* a1 and a2 are told of each other, so their KnowMe calls may cross; a3 has
\* another key.
TwoKeys  == [a \in Trackers |-> IF a = a3 THEN "k2" ELSE "k1"]
ThreeContacts ==
  [a \in Trackers |-> IF a = a1 THEN {a2} ELSE IF a = a2 THEN {a1, a3} ELSE {a1}]

\* How often each tracker is started.
OneBoot   == [a \in Trackers |-> 1]
TwoBoots  == [a \in Trackers |-> 2]
RestartA1 == [a \in Trackers |-> IF a = a1 THEN 2 ELSE 1]
===============================================================================
