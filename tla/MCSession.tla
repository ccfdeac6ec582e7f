------------------------------ MODULE MCSession ------------------------------
(* Two machines, one with an identifier in its info.json and one without. *)
EXTENDS Session

LOCAL INSTANCE TLC

CONSTANTS A, B, pA, pA2, pB1, pB2, t1, h, o0, o1, o2, s1, a1

OneKey      == [a \in Trackers |-> "k"]
NoContacts  == [a \in Trackers |-> {}]
TwoBoots    == [a \in Trackers |-> 2]

Both        == [m \in Machines |-> {"main", "ui"}]

StoredIds   == [m \in Machines |-> IF m = A THEN pA ELSE NoId]
RandomIds   == [m \in Machines |-> IF m = A THEN {pA2} ELSE {pB1, pB2}]

\* The random identifiers of B are interchangeable.
Random == Permutations({pB1, pB2})

\* With pieces of 3 bytes: less than a piece, no byte, two pieces and a rest.
FileLengths == [m \in Machines |-> IF m = A THEN {2} ELSE {0, 8}]

\* s1 and h, of torrents from elsewhere, are not text, and are alike in all bytes
\* that are.
Garbled == [x \in Torrents \cup OldHashes \cup {ZeroHash} |-> IF x \in {h, s1} THEN "~" ELSE x]

\* The file of A is as it is shipped: three torrents, under "0", "1" and "2".
\* That of B went through two saves since, of s1 and of a download that failed.
ShippedFiles == [k \in Info!Keys |->
  CASE k = "0" -> o0 [] k = "1" -> o1 [] k = "2" -> o2 [] OTHER -> Missing]
SavedFiles   == [ShippedFiles EXCEPT !["1"] = ZeroHash, ![ZeroHash] = ZeroHash, !["~"] = s1]
InitialFiles == [m \in Machines |-> IF m = A THEN ShippedFiles ELSE SavedFiles]
===============================================================================
