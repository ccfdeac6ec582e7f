------------------------------ MODULE PeersPool ------------------------------
(***************************************************************************)
(* What a tracker answers to "request": getRandomPeers of tacker.go.       *)
(*                                                                         *)
(* Go ranges over a map in an order of its own, anew each time, so the two *)
(* loops get an order each.  A pool maps identifiers to the state of the   *)
(* peer, "none" for one that is not in the map.                            *)
(***************************************************************************)
EXTENDS Integers, FiniteSets, Sequences, Functions

listed(pool) == {k \in DOMAIN pool : pool[k] # "none"}

\* Mutant: who has the torrent and who has not are taken for one another.
complete_swapped(pool) == {k \in listed(pool) : pool[k] = "started"}

\* The default case of both switches: neither "stopped" nor "started".
complete(pool) == {k \in listed(pool) : pool[k] \notin {"stopped", "started"}}
started(pool)  == {k \in listed(pool) : pool[k] = "started"}

\* maxPeers, and numwant cut down to it.
wanted(pool, excludeID, numwant) ==
  LET maxPeers == Cardinality(listed(pool) \ {excludeID}) IN
  IF numwant > maxPeers THEN maxPeers ELSE numwant

\* What a loop holds that began with found and visited i peers of its order, to
\* take those of a set, ...
visited(found, order, i, takes) == found \cup ({order[j] : j \in 1 .. i} \cap takes)

\* ... and when it breaks: at the first i, of the counts at which it looks, that
\* leaves it with n - 1 peers.
stops(found, order, takes, from, n) ==
  {i \in from .. Len(order) : Cardinality(visited(found, order, i, takes)) = n - 1}

loop(found, order, takes, from, n) ==
  LET at   == stops(found, order, takes, from, n)
      last == IF at = {} THEN Len(order) ELSE CHOOSE i \in at : \A j \in at : i <= j
  IN visited(found, order, last, takes)

\* The first loop looks whether it has enough behind each peer it visits, the
\* excluded one included, ...
firstLoop(pool, order, excludeID, n) ==
  loop({}, order, complete(pool) \ {excludeID}, 1, n)

\* ... and the second one before.
secondLoop(pool, order, excludeID, n, found) ==
  loop(found, order, started(pool) \ {excludeID}, 0, n)

\* The orders of a set.
orders(S) == Bijection(1 .. Cardinality(S), S)

\* The answers excludeID may get.
getRandomPeers(pool, excludeID, numwant) ==
  LET n == wanted(pool, excludeID, numwant) IN
  {secondLoop(pool, o2, excludeID, n, firstLoop(pool, o1, excludeID, n)) :
     o1, o2 \in orders(listed(pool))}
===============================================================================
