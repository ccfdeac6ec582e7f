------------------------------ MODULE RoutingTable -----------------------------
(***************************************************************************)
(* The routing table of a DHT node (routingTable.go, kbucket.go, node.go)  *)
(* as operators on tables.  Each of them holds the table's lock.           *)
(*                                                                         *)
(* An id has B bits, and is the set of those that are one in it; bit 0 is  *)
(* the last of its last byte.  An entry is an id at an address.  A table   *)
(* maps the index of a bucket to the entries in it, least recently heard   *)
(* of first.  Nothing bounds a bucket: k is stored and not read.           *)
(***************************************************************************)
EXTENDS Integers, FiniteSetsExt, SequencesExt

CONSTANTS
  B,          \* bits of an id: 160
  W,          \* bits of a byte: 8
  Addresses   \* addresses of nodes

ASSUME RoutingTableAssumption == {B, W} \subseteq Nat \ {0} /\ B % W = 0

Buckets == 0 .. B - 1
Ids == SUBSET Buckets
Entries == [id : Ids, at : Addresses]
Tables == [Buckets -> Seq(Entries)]

EmptyTable == [b \in Buckets |-> <<>>]

DifferingBits(x, y) == (x \ y) \cup (y \ x)

\* Xor, and Cmp of two numbers less than 2^B: the first bit in which they differ decides.
getDistance(x, y) == DifferingBits(x, y)
Smaller(d, e) == LET f == DifferingBits(d, e) IN f # {} /\ Max(f) \in e

Nearer(x, y, target) == Smaller(getDistance(x, target), getDistance(y, target))

\* The node's own id falls into bucket 0, with the id that differs in that bit.
getFirstDifBitBucketIndex(self, id) ==
  LET d == DifferingBits(self, id) IN IF d = {} THEN 0 ELSE Max(d)

HasId(l, id) == \E i \in DOMAIN l : l[i].id = id

nodeInBucket(l, id) == CHOOSE i \in DOMAIN l : l[i].id = id

\* No id twice in a list, and each in the bucket it belongs to.
Unique(l) == \A i, j \in DOMAIN l : l[i].id = l[j].id => i = j
OneEach(l, self, b) ==
  Unique(l) /\ \A i \in DOMAIN l : getFirstDifBitBucketIndex(self, l[i].id) = b

\* Mutant: an entry is added without a look for it.
updateBucketOfNode_append(t, self, e) ==
  [t EXCEPT ![getFirstDifBitBucketIndex(self, e.id)] = Append(@, e)]

\* updateBucketOfNode: an entry that is there moves to the end and keeps the
\* address it has.
updateBucketOfNode(t, self, e) ==
  LET Moved(l, i) == Append(RemoveAt(l, i), l[i])
      Updated(l)  == IF HasId(l, e.id) THEN Moved(l, nodeInBucket(l, e.id)) ELSE Append(l, e)
  IN  [t EXCEPT ![getFirstDifBitBucketIndex(self, e.id)] = Updated(@)]

\* The entries of new whose id the list has not, one after the other.
AppendUnique(l, new) ==
  FoldLeft(LAMBDA m, e : IF HasId(m, e.id) THEN m ELSE Append(m, e), l, new)

\* Mutant: Less the wrong way round.
Sorted_farthest(l, target) ==
  LET After(j) == {k \in DOMAIN l : Nearer(l[j].id, l[k].id, target)}
  IN  [i \in DOMAIN l |-> l[CHOOSE j \in DOMAIN l : Cardinality(After(j)) = i - 1]]

\* sort.Sort of a nodeList, which has no id twice: at place i the entry with
\* i - 1 nearer ones.
Sorted(l, target) ==
  LET Before(j) == {k \in DOMAIN l : Nearer(l[k].id, l[j].id, target)}
  IN  [i \in DOMAIN l |-> l[CHOOSE j \in DOMAIN l : Cardinality(Before(j)) = i - 1]]

\* The order in which getNearestNodes visits the buckets: outwards from the
\* target's, one below and one above in turn, then those left on one side.
Visited(index) ==
  LET both == 1 + 2 * Min({index, B - 1 - index}) IN
  [i \in 1 .. B |->
     IF i > both THEN IF 2 * index < B THEN i - 1 ELSE B - i
     ELSE IF i % 2 = 0 THEN index - i \div 2 ELSE index + i \div 2]

getNearestNodes(t, self, num, target) ==
  LET order == Visited(getFirstDifBitBucketIndex(self, target))
      all   == FoldLeft(LAMBDA l, b : l \o t[b], <<>>, order)
  IN  Sorted(AppendUnique(<<>>, SubSeq(all, 1, Min({num, Len(all)}))), target)

\* The bytes an id of bucket b has in common with the node's own, ...
equalsBytes(b) == ((B - b + W - 1) \div W) - 1

\* ... and the place in the next byte where they differ; -1 when it is the last.
firstDif(b) == ((B - b) % W) - 1

\* Mutant: the bits before that place are not copied.
getRandomIDFromBucket_bytes(self, b) ==
  LET begin == B - W * equalsBytes(b)
  IN  {id \in Ids :
         /\ (begin .. B - 1) \cap DifferingBits(id, self) = {}
         /\ firstDif(b) >= 0 => (b \in id <=> begin - W \notin self)}

\* The ids getRandomIDFromBucket may draw.  byte&1<<n is (byte&1)<<n in Go: the
\* bit that should differ from the node's own differs from the lowest of its
\* byte.  A shift by -1 leaves the byte: then all of it is random.
getRandomIDFromBucket(self, b) ==
  LET begin  == B - W * equalsBytes(b)
      copied == begin - Max({firstDif(b), 0}) .. B - 1
  IN  {id \in Ids :
         /\ copied \cap DifferingBits(id, self) = {}
         /\ firstDif(b) >= 0 => (b \in id <=> begin - W \notin self)}
===============================================================================
