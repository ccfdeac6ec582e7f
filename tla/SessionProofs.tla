----------------------------- MODULE SessionProofs -----------------------------
(***************************************************************************)
(* Proofs about Session, for every set of machines, files, torrents and    *)
(* identifiers: what the tracker answers, what a .torrent and info.json    *)
(* hold, and that the tracker, as the clients use it, is the one of        *)
(* TrackerNet.                                                             *)
(***************************************************************************)
EXTENDS Session, TrackerNetProofs, FiniteSetTheorems, SequenceTheorems,
        WellFoundedInduction

-------------------------------------------------------------------------------
(* What a tracker answers. *)

\* A set of numbers has a least one.
LEMMA Least ==
  ASSUME NEW T \in SUBSET Nat, T # {}
  PROVE  \E i \in T : \A j \in T : i <= j
<1> DEFINE R == OpToRel(<, Nat)
<1>1. IsWellFoundedOn(R, Nat)
  BY NatLessThanWellFounded
<1>2. \A i, j \in Nat : <<i, j>> \in R <=> i < j
  BY DEF OpToRel
<1> HIDE DEF R
<1>3. PICK i \in T : \A j \in T : ~(<<j, i>> \in R)
  BY <1>1, WFMin
<1>4. ASSUME NEW j \in T PROVE i <= j
  <2>1. i \in Nat /\ j \in Nat
    OBVIOUS
  <2>2. ~(j < i)
    BY <1>2, <1>3, <2>1
  <2> QED
    BY <2>1, <2>2
<1> QED
  BY <1>4

\* A loop keeps what it found and takes only what it is to take.
LEMMA LoopTakes ==
  ASSUME NEW found, NEW order, NEW takes, NEW from, NEW n
  PROVE  /\ found \subseteq loop(found, order, takes, from, n)
         /\ loop(found, order, takes, from, n) \subseteq found \cup takes
  BY DEF loop, visited

\* An answer is taken from the pool and leaves out who asks.
LEMMA AnswerFromPool ==
  ASSUME NEW pool, NEW id, NEW numwant, NEW peers \in getRandomPeers(pool, id, numwant)
  PROVE  peers \subseteq listed(pool) \ {id}
<1> DEFINE n == wanted(pool, id, numwant)
<1>1. PICK o1, o2 \in orders(listed(pool)) :
        peers = secondLoop(pool, o2, id, n, firstLoop(pool, o1, id, n))
  BY DEF getRandomPeers
<1>2. firstLoop(pool, o1, id, n) \subseteq complete(pool) \ {id}
  BY LoopTakes DEF firstLoop
<1>3. peers \subseteq firstLoop(pool, o1, id, n) \cup (started(pool) \ {id})
  BY <1>1, LoopTakes DEF secondLoop
<1>4. complete(pool) \cup started(pool) \subseteq listed(pool)
  BY DEF complete, started
<1> QED
  BY <1>2, <1>3, <1>4

\* The loop over the peers that have the torrent finds one, unless it may stop
\* at the one who asks before it sees the only other one.
LEMMA LoopFinds ==
  ASSUME NEW S, IsFiniteSet(S), NEW order \in orders(S), NEW id,
         NEW takes \in SUBSET (S \ {id}), takes # {},
         NEW n \in Nat, n = Cardinality(S \ {id}) \/ n >= 2,
         ~(Cardinality(S \ {id}) = 1 /\ id \in S)
  PROVE  loop({}, order, takes, 1, n) # {}
<1> DEFINE len == Cardinality(S)
           at == stops({}, order, takes, 1, n)
<1>1. len \in Nat
  BY FS_CardinalityType
<1>2. /\ order \in [1 .. len -> S] /\ Len(order) = len
      /\ \A s \in S : \E j \in 1 .. len : order[j] = s
  <2>1. order \in [1 .. len -> S] /\ \A s \in S : \E j \in 1 .. len : order[j] = s
    BY DEF orders, Bijection, Surjection, Injection
  <2> QED
    BY <1>1, <2>1
<1>3. CASE at = {}
  <2>1. loop({}, order, takes, 1, n) = visited({}, order, Len(order), takes)
    BY <1>3 DEF loop
  <2> QED
    BY <1>2, <2>1 DEF visited
<1>4. CASE at # {}
  <2> DEFINE last == CHOOSE i \in at : \A j \in at : i <= j
  <2>1. at \in SUBSET (1 .. len)
    BY <1>2 DEF stops
  <2>2. last \in at
    <3>1. \E i \in at : \A j \in at : i <= j
      BY <1>1, <1>4, <2>1, Least
    <3> QED
      BY <3>1
  <2>3. loop({}, order, takes, 1, n) = visited({}, order, last, takes)
    BY <1>4 DEF loop
  <2>4. last \in 1 .. len /\ Cardinality(visited({}, order, last, takes)) = n - 1
    BY <1>2, <2>2 DEF stops
  <2> HIDE DEF at, last
  <2>5. CASE n >= 2
    <3>1. Cardinality({}) = 0
      BY FS_EmptySet
    <3> QED
      BY <2>3, <2>4, <2>5, <3>1
  <2>6. CASE n = Cardinality(S \ {id}) /\ ~(n >= 2)
    <3>1. IsFiniteSet(S \ {id}) /\ S \ {id} # {}
      BY FS_Subset
    <3>2. n = 1
      <4>1. Cardinality(S \ {id}) \in Nat /\ Cardinality(S \ {id}) # 0
        BY <3>1, FS_EmptySet, FS_CardinalityType
      <4> QED
        BY <2>6, <4>1
    <3>3. id \notin S /\ S \ {id} = S /\ len = 1
      BY <2>6, <3>2
    <3>4. last = 1
      BY <2>4, <3>3
    <3>5. PICK p \in takes : TRUE
      OBVIOUS
    <3>6. order[1] = p
      BY <1>2, <3>3, <3>5
    <3> QED
      BY <2>3, <3>4, <3>5, <3>6 DEF visited
  <2> QED
    BY <2>5, <2>6
<1> QED
  BY <1>3, <1>4

\* Who asks for up to 40 peers is told of one that has the torrent.
LEMMA AnswerHasSeeder ==
  ASSUME NEW pool, NEW id, NEW peers \in getRandomPeers(pool, id, 40),
         IsFiniteSet(listed(pool)), complete(pool) \ {id} # {},
         ~(Cardinality(listed(pool) \ {id}) = 1 /\ id \in listed(pool))
  PROVE  (complete(pool) \ {id}) \cap peers # {}
<1> DEFINE n == wanted(pool, id, 40)
<1>1. PICK o1, o2 \in orders(listed(pool)) :
        peers = secondLoop(pool, o2, id, n, firstLoop(pool, o1, id, n))
  BY DEF getRandomPeers
<1>2. n \in Nat /\ (n = Cardinality(listed(pool) \ {id}) \/ n >= 2)
  <2>1. Cardinality(listed(pool) \ {id}) \in Nat
    BY FS_Subset, FS_CardinalityType
  <2> QED
    BY <2>1 DEF wanted
<1>3. complete(pool) \ {id} \in SUBSET (listed(pool) \ {id})
  BY DEF complete
<1> HIDE DEF n
<1>4. firstLoop(pool, o1, id, n) # {}
  BY <1>2, <1>3, LoopFinds DEF firstLoop
<1>5. firstLoop(pool, o1, id, n) \subseteq complete(pool) \ {id}
  BY LoopTakes DEF firstLoop
<1>6. firstLoop(pool, o1, id, n) \subseteq peers
  BY <1>1, LoopTakes DEF secondLoop
<1> QED
  BY <1>4, <1>5, <1>6

-------------------------------------------------------------------------------
(* What a .torrent and info.json hold. *)

\* An entry of a torrent whose infohash is text.
Text(x) == x \in Info!Hashes /\ JsonKey[x] = x

\* A save keeps the type of info.json, its identifier, and every entry of a text
\* infohash but the one under "1".
LEMMA SaveKeeps ==
  ASSUME NEW PeerId, NEW files \in Info!TorrentFiles, NEW h \in Info!Hashes,
         NEW new \in Info!SaveToInfo([PeerId |-> PeerId, TorrentFiles |-> files], h)
  PROVE  /\ new = [PeerId |-> PeerId, TorrentFiles |-> new.TorrentFiles]
         /\ new.TorrentFiles \in Info!TorrentFiles
         /\ \A k \in Info!Keys \ {"1"} : Text(files[k]) => new.TorrentFiles[k] = files[k]
<1> DEFINE Numbers == {"0", "1", "2"}
           base == IF Info!HasInfoHash(files, h) THEN files
                   ELSE [files EXCEPT !["1"] = ZeroHash]
           put == [base EXCEPT ![JsonKey[h]] = h]
<1>1. PICK saved \in {put, base} : new = [PeerId |-> PeerId, TorrentFiles |-> saved]
  <2>1. new \in {[PeerId |-> PeerId, TorrentFiles |-> x] : x \in Info!written(base, h)}
    BY DEF Info!SaveToInfo, Info!copied
  <2> HIDE DEF base
  <2> QED
    BY <2>1 DEF Info!written
<1>2. /\ "1" \in Info!Keys /\ JsonKey[h] \in Info!Keys /\ JsonKey[h] \notin Numbers
      /\ ZeroHash \in Info!Hashes
  BY KeysAssumption DEF Info!Keys, Info!Hashes
<1>3. /\ files \in [Info!Keys -> Info!Hashes \cup {Missing}]
      /\ \A k \in Info!Keys \ Numbers : files[k] = Missing \/ JsonKey[files[k]] = k
  BY DEF Info!TorrentFiles
<1>4. /\ base \in [Info!Keys -> Info!Hashes \cup {Missing}]
      /\ \A k \in Info!Keys \ {"1"} : base[k] = files[k]
  BY <1>2, <1>3
<1> HIDE DEF base
<1>5. /\ saved \in [Info!Keys -> Info!Hashes \cup {Missing}]
      /\ \A k \in Info!Keys \ {"1", JsonKey[h]} : saved[k] = files[k]
      /\ saved[JsonKey[h]] \in {h, files[JsonKey[h]]}
  BY <1>2, <1>4
<1>6. saved \in Info!TorrentFiles
  <2>1. ASSUME NEW k \in Info!Keys \ Numbers
        PROVE  saved[k] = Missing \/ JsonKey[saved[k]] = k
    BY <1>2, <1>3, <1>5, <2>1
  <2> QED
    BY <1>5, <2>1 DEF Info!TorrentFiles
<1>7. ASSUME NEW k \in Info!Keys \ {"1"}, Text(files[k])
      PROVE  saved[k] = files[k]
  <2>1. CASE k # JsonKey[h]
    BY <1>5, <2>1
  <2>2. CASE k = JsonKey[h]
    <3>1. files[k] # Missing
      BY <1>7, SessionAssumption DEF Text
    <3>2. JsonKey[files[k]] = k
      BY <1>2, <1>3, <2>2, <3>1
    <3>3. files[k] = k /\ k \in Info!Hashes
      BY <1>7, <3>2 DEF Text
    <3>4. h = k
      BY <2>2, <3>3, KeysAssumption
    <3> QED
      BY <1>5, <2>2, <3>3, <3>4
  <2> QED
    BY <2>1, <2>2
<1> QED
  BY <1>1, <1>6, <1>7

\* Division by a number, and what is left.
LEMMA DivMod ==
  ASSUME NEW d \in Nat \ {0}, NEW q \in Nat, NEW r \in 0 .. d - 1, NEW x, x = q * d + r
  PROVE  x \div d = q /\ x % d = r
  OBVIOUS

\* The string of joined hashes can be taken apart again.
LEMMA SplitJoined ==
  ASSUME NEW n \in Nat, NEW hashes, DOMAIN hashes = 1 .. n, Len(hashes) = n,
         \A i \in 1 .. n : hashes[i] = [b \in 1 .. HashLen |-> hashes[i][b]]
  PROVE  /\ Len(joined(hashes)) = n * HashLen
         /\ n * HashLen \in Nat
         /\ (n * HashLen) % HashLen = 0 /\ (n * HashLen) \div HashLen = n
         /\ splitPiecesHash(joined(hashes)) = [i \in 1 .. n |-> hashes[i]]
<1> USE HashLenAssumption
<1>1. n * HashLen \in Nat
  OBVIOUS
<1>2. (n * HashLen) % HashLen = 0 /\ (n * HashLen) \div HashLen = n
  <2>1. n * HashLen + 0 = n * HashLen /\ 0 \in 0 .. HashLen - 1
    BY <1>1
  <2> QED
    BY ZenonT(30), <2>1, DivMod
<1>3. Len(joined(hashes)) = n * HashLen
  BY <1>1 DEF joined
<1>4. ASSUME NEW i \in 1 .. n
      PROVE  SubSeq(joined(hashes), (i - 1) * HashLen + 1, i * HashLen) = hashes[i]
  <2>1. /\ (i - 1) * HashLen \in Nat /\ i * HashLen = (i - 1) * HashLen + HashLen
        /\ i - 1 \in Nat /\ i * HashLen \in Nat
    OBVIOUS
  <2>2. i * HashLen <= n * HashLen
    OBVIOUS
  <2>3. \A b \in 1 .. HashLen :
          /\ (i - 1) * HashLen + b \in 1 .. n * HashLen
          /\ joined(hashes)[(i - 1) * HashLen + b] = hashes[i][b]
    <3> SUFFICES ASSUME NEW b \in 1 .. HashLen
                 PROVE  /\ (i - 1) * HashLen + b \in 1 .. n * HashLen
                        /\ joined(hashes)[(i - 1) * HashLen + b] = hashes[i][b]
      OBVIOUS
    <3> DEFINE at == (i - 1) * HashLen
    <3>0. at \in Nat /\ at + HashLen <= n * HashLen
      BY <2>1, <2>2
    <3>1. at + b - 1 = at + (b - 1) /\ b - 1 \in 0 .. HashLen - 1 /\ b - 1 + 1 = b
      BY <3>0
    <3>2. \A c : c = at + (b - 1) => c \div HashLen = i - 1 /\ c % HashLen = b - 1
      BY <2>1, <3>1, DivMod
    <3> HIDE DEF at
    <3>3. at + b \in 1 .. n * HashLen
      BY <1>1, <3>0
    <3>4. i - 1 + 1 = i
      OBVIOUS
    <3>5. joined(hashes)[at + b] = hashes[i][b]
      <4> DEFINE k == at + b
      <4>1. k \in 1 .. Len(hashes) * HashLen
        BY <3>3
      <4>2. k - 1 = at + (b - 1)
        BY <3>0
      <4> HIDE DEF k
      <4> DEFINE c == k - 1
      <4>3. joined(hashes)[k] = hashes[c \div HashLen + 1][(c % HashLen) + 1]
        BY <4>1 DEF joined
      <4>4. c = at + (b - 1)
        BY <4>2
      <4> HIDE DEF c
      <4>5. c \div HashLen = i - 1 /\ c % HashLen = b - 1
        BY <3>2, <4>4
      <4> QED
        BY <3>1, <3>4, <4>3, <4>5 DEF k
    <3> QED
      BY <3>3, <3>5 DEF at
  <2> DEFINE at == (i - 1) * HashLen
             sub == SubSeq(joined(hashes), at + 1, i * HashLen)
  <2>4. sub = [b \in 1 .. HashLen |-> joined(hashes)[at + b]]
    <3>1. i * HashLen - (at + 1) + 1 = HashLen
      BY <2>1
    <3>2. sub = [b \in 1 .. i * HashLen - (at + 1) + 1 |-> joined(hashes)[at + 1 + b - 1]]
      OBVIOUS
    <3>3. \A b \in 1 .. HashLen : at + 1 + b - 1 = at + b
      BY <2>1
    <3> QED
      BY <3>1, <3>2, <3>3
  <2>5. sub = [b \in 1 .. HashLen |-> hashes[i][b]]
    BY <2>3, <2>4
  <2> QED
    BY <2>5
<1> QED
  BY <1>1, <1>2, <1>3, <1>4 DEF splitPiecesHash

\* The whole pieces of a file and what is left over.
LEMMA WholePieces ==
  ASSUME NEW length \in Nat, NEW d \in Nat \ {0}
  PROVE  /\ length \div d \in Nat /\ length % d \in 0 .. d - 1
         /\ length = (length \div d) * d + (length % d)
         /\ length \div d = 0 <=> length < d
         /\ \A i \in 1 .. length \div d : i * d <= (length \div d) * d
  OBVIOUS

\* A .torrent agrees with itself, whatever the length of the file.
LEMMA TorrentAgrees ==
  ASSUME NEW length \in Nat, NEW d \in Nat \ {0}
  PROVE  Agrees(BuildTorrentFile(length, d))
<1> USE HashLenAssumption
<1> DEFINE n == length \div d
           bto == BuildTorrentFile(length, d)
           tf == OpenTorrentFile(bto)
<1>0. /\ n \in Nat /\ length % d \in 0 .. d - 1 /\ length = n * d + (length % d)
      /\ n = 0 <=> length < d
      /\ \A i \in 1 .. n : i * d <= n * d
  BY WholePieces
<1>1. bto.PieceLength = d /\ bto.Length = length
      /\ tf = [bto EXCEPT !.Pieces = splitPiecesHash(bto.Pieces)]
  BY DEF BuildTorrentFile, OpenTorrentFile
<1>2. tf.PieceLength = d /\ tf.Length = length /\ tf.Pieces = splitPiecesHash(bto.Pieces)
  BY DEF BuildTorrentFile, OpenTorrentFile
<1>3. CASE n = 0
  <2>1. bto.Pieces = Sum(0, length)
    BY <1>3 DEF BuildTorrentFile
  <2>2. Len(bto.Pieces) = HashLen /\ bto.Pieces \in [1 .. HashLen -> Int \X Int \X Int]
    BY <2>1 DEF Sum
  <2>3. HashLen % HashLen = 0 /\ HashLen \div HashLen = 1
    <3>1. 1 * HashLen + 0 = HashLen /\ 0 \in 0 .. HashLen - 1
      OBVIOUS
    <3> QED
      BY <3>1, DivMod
  <2>4. Len(tf.Pieces) = 1 /\ tf.Pieces[1] = Sum(0, length)
    <3>1. SubSeq(bto.Pieces, (1 - 1) * HashLen + 1, 1 * HashLen) = bto.Pieces
      <4>1. (1 - 1) * HashLen + 1 = 1 /\ 1 * HashLen = HashLen
        OBVIOUS
      <4>2. SubSeq(bto.Pieces, 1, HashLen) = [b \in 1 .. HashLen |-> bto.Pieces[b]]
        <5>1. HashLen - 1 + 1 = HashLen
          OBVIOUS
        <5>2. SubSeq(bto.Pieces, 1, HashLen)
                = [b \in 1 .. HashLen - 1 + 1 |-> bto.Pieces[1 + b - 1]]
          OBVIOUS
        <5>3. \A b \in 1 .. HashLen : 1 + b - 1 = b
          OBVIOUS
        <5> QED
          BY <5>1, <5>2, <5>3
      <4> QED
        BY <2>2, <4>1, <4>2
    <3>2. tf.Pieces = [i \in 1 .. 1 |-> SubSeq(bto.Pieces, (i - 1) * HashLen + 1, i * HashLen)]
      BY <1>2, <2>2, <2>3 DEF splitPiecesHash
    <3> QED
      BY <2>1, <3>1, <3>2
  <2>5. pieceLengthOf(tf, 0) = length
    BY <1>0, <1>2, <1>3 DEF pieceLengthOf
  <2>6. Hashed(tf) = length
    BY <1>0, <1>2, <1>3 DEF Hashed
  <2> HIDE DEF bto, tf, n
  <2>7. ~Malformed(bto)
    BY <2>2, <2>3 DEF Malformed
  <2>8. /\ \A i \in 1 .. Len(tf.Pieces) :
             tf.Pieces[i] = Sum((i - 1) * d, (i - 1) * d + pieceLengthOf(tf, i - 1))
        /\ (Len(tf.Pieces) - 1) * d + pieceLengthOf(tf, Len(tf.Pieces) - 1) = Hashed(tf)
    <3>1. (1 - 1) * d = 0 /\ 1 - 1 = 0 /\ 0 + length = length
      OBVIOUS
    <3>2. \A i \in 1 .. Len(tf.Pieces) : i = 1
      BY <2>4
    <3> QED
      BY <2>4, <2>5, <2>6, <3>1, <3>2
  <2> QED
    BY <1>2, <2>7, <2>8 DEF Agrees, tf, bto
<1>4. CASE n # 0
  <2> DEFINE hashes == hashedPieces(length, d)
  <2>1. bto.Pieces = joined(hashes)
    BY <1>4 DEF BuildTorrentFile
  <2>2. /\ DOMAIN hashes = 1 .. n /\ Len(hashes) = n
        /\ \A i \in 1 .. n : hashes[i] = Sum((i - 1) * d, i * d)
    BY <1>0 DEF hashedPieces
  <2>3. \A i \in 1 .. n : hashes[i] = [b \in 1 .. HashLen |-> hashes[i][b]]
    BY <2>2 DEF Sum
  <2> HIDE DEF hashes, n
  <2>4. /\ Len(joined(hashes)) = n * HashLen
        /\ (n * HashLen) % HashLen = 0
        /\ splitPiecesHash(joined(hashes)) = [i \in 1 .. n |-> hashes[i]]
    BY ZenonT(30), <1>0, <2>2, <2>3, SplitJoined
  <2>5. Len(tf.Pieces) = n /\ \A i \in 1 .. n : tf.Pieces[i] = Sum((i - 1) * d, i * d)
    BY <1>0, <1>2, <2>1, <2>2, <2>4
  <2>6. ASSUME NEW i \in 1 .. n
        PROVE  (i - 1) * d + pieceLengthOf(tf, i - 1) = i * d
    <3>1. i - 1 + 1 = i /\ (i - 1) * d \in Nat /\ i * d = (i - 1) * d + d
      OBVIOUS
    <3>2. i * d <= length
      BY <1>0
    <3>3. ~((i - 1 + 1) * d > length)
      BY <3>1, <3>2
    <3>4. pieceLengthOf(tf, i - 1) = d
      BY <1>2, <3>3 DEF pieceLengthOf
    <3> QED
      BY <3>1, <3>4
  <2>7. Hashed(tf) = n * d
    <3>1. Hashed(tf) = length - (length % d)
      BY <1>0, <1>2, <1>4 DEF Hashed
    <3>2. n * d \in Nat
      BY <1>0
    <3> QED
      BY <1>0, <3>1, <3>2
  <2>8. ~Malformed(bto)
    BY <2>1, <2>4 DEF Malformed
  <2>9. n \in 1 .. n
    BY <1>0, <1>4
  <2> HIDE DEF bto, tf
  <2>10. /\ \A i \in 1 .. Len(tf.Pieces) :
              tf.Pieces[i] = Sum((i - 1) * d, (i - 1) * d + pieceLengthOf(tf, i - 1))
         /\ (Len(tf.Pieces) - 1) * d + pieceLengthOf(tf, Len(tf.Pieces) - 1) = Hashed(tf)
    BY <2>5, <2>6, <2>7, <2>9
  <2> QED
    BY <1>2, <2>8, <2>10 DEF Agrees, tf, bto
<1> QED
  BY <1>3, <1>4

-------------------------------------------------------------------------------
(* The inductive invariant. *)

InfoFile == [whole : BOOLEAN,
             val : [PeerId : Peers \cup {NoId}, TorrentFiles : Info!TorrentFiles]]

\* A process has an identifier of its machine that is in use, and is offered
\* other ones; what it asks the tracker for is a torrent.
Sound(m, cl, used) ==
  /\ cl \in Process
  /\ IF cl.pc = "off" THEN cl.offered = {} ELSE cl.id \in IdsOf(m) \cap used
  /\ cl.offered \subseteq used \ {cl.id}
  /\ cl.pc \in {"publish", "request", "file", "completed", "stopped"} => cl.torrent \in Torrents

\* The identifiers in use are of machines, and a machine with one in its
\* info.json uses no other.
Used(used) ==
  /\ used \in SUBSET Peers /\ IsFiniteSet(used)
  /\ \A p \in used : \E m \in Machines : p \in IdsOf(m)
  /\ \A m \in Machines : Stored[m] # NoId => used \cap IdsOf(m) \subseteq {Stored[m]}

\* The tracker lists identifiers in use.
Registered(used) == \A t \in Torrents : listed(torrents[tk][t].peers) \subseteq used

\* NotOfferedItself is not inductive: that a machine is offered another one's
\* identifier rests on what the tracker lists (Registered), that on what
\* processes have drawn (Used), and that on what saves left in info.json.
SessionInv ==
  /\ TypeOK
  /\ client \in [Machines -> Process]
  /\ \A m \in Machines : Sound(m, client[m], drawn)
  /\ info \in [Machines -> InfoFile]
  /\ \A m \in Machines : info[m].val.PeerId = Stored[m]
  /\ library \subseteq Torrents \ Hollow
  /\ Used(drawn)
  /\ Registered(drawn)

\* What the tracker does for a peer keeps its types, lists the peer at most, and
\* is a step of TrackerNet.
LEMMA TrackerServes ==
  ASSUME TypeOK, NEW t \in Torrents, NEW p \in Peers, NEW used, p \in used, Registered(used),
         NEW event \in AnnounceEvents,
         \/ Publish(tk, t, p) \/ Announce(tk, t, p, event)
         \/ AnnouncePanic(tk, t, p, event) \/ UNCHANGED vars
  PROVE  /\ TypeOK' /\ [Next]_vars
         /\ \A u \in Torrents : listed(torrents'[tk][u].peers) \subseteq used
<1>0. tk \in Trackers /\ p \in Peers \ Passive
  BY SessionAssumption
<1>1. TypeOK'
  <2>1. CASE UNCHANGED vars
    BY <2>1 DEF TypeOK, vars
  <2> QED
    BY <1>0, <2>1, PeerTypes
<1>2. [Next]_vars
  <2>1. CASE Publish(tk, t, p) \/ AnnouncePanic(tk, t, p, event)
    BY <1>0, <2>1 DEF Next, PeerRequest
  <2>2. CASE Announce(tk, t, p, event)
    BY <1>0, <2>2 DEF Next
  <2> QED
    BY <2>1, <2>2
<1>3. torrents[tk] \in [Torrents -> TorrentTk] /\ torrents'[tk] \in [Torrents -> TorrentTk]
  BY <1>0, <1>1 DEF TypeOK
<1>4. ASSUME NEW u \in Torrents PROVE listed(torrents'[tk][u].peers) \subseteq used
  <2>0. /\ torrents[tk][u].peers \in [Peers -> PeerState]
        /\ torrents'[tk][u].peers \in [Peers -> PeerState]
    BY <1>3 DEF TorrentTk
  <2>1. \A k \in Peers : k \notin used => torrents[tk][u].peers[k] = "none"
    BY <2>0 DEF Registered, listed
  <2>2. ASSUME NEW k \in Peers, k \notin used PROVE torrents'[tk][u].peers[k] = "none"
    <3>0. k # p /\ torrents[tk][u].peers[k] = "none"
      BY <2>1, <2>2
    <3>1. CASE Publish(tk, t, p)
      <4>1. torrents'[tk] = publishTorrent(torrents[tk], t, p)
        BY <1>0, <3>1 DEF Publish, TypeOK
      <4>2. CASE u # t
        BY <1>3, <3>0, <4>1, <4>2 DEF publishTorrent
      <4>3. CASE u = t
        <5>1. torrents'[tk][u].peers = (IF torrents[tk][u].peers[p] # "none"
                                        THEN torrents[tk][u].peers
                                        ELSE [torrents[tk][u].peers EXCEPT ![p] = "seeder"])
          BY <1>3, <4>1, <4>3 DEF publishTorrent
        <5> QED
          BY <2>0, <3>0, <5>1
      <4> QED
        BY <4>2, <4>3
    <3>2. CASE Announce(tk, t, p, event)
      <4>1. torrents'[tk] = [torrents[tk] EXCEPT ![t] = afterEvent(@, p, event)]
        BY <1>0, <3>2 DEF Announce, TypeOK
      <4>2. CASE u # t
        BY <1>3, <3>0, <4>1, <4>2
      <4>3. CASE u = t
        <5>1. torrents'[tk][u] = afterEvent(torrents[tk][u], p, event)
          BY <1>3, <4>1, <4>3
        <5>2. torrents'[tk][u].peers = torrents[tk][u].peers
              \/ torrents'[tk][u].peers = [torrents[tk][u].peers EXCEPT ![p] = event]
          BY <1>3, <5>1 DEF afterEvent, TorrentTk
        <5> QED
          BY <2>0, <3>0, <5>2
      <4> QED
        BY <4>2, <4>3
    <3>3. CASE AnnouncePanic(tk, t, p, event)
      BY <1>0, <3>3 DEF AnnouncePanic, Die, TypeOK, NoTorrents, NoTorrent
    <3>4. CASE UNCHANGED vars
      BY <3>0, <3>4 DEF vars
    <3> QED
      BY <3>1, <3>2, <3>3, <3>4
  <2> QED
    BY <2>0, <2>2 DEF listed
<1> QED
  BY <1>1, <1>2, <1>4

\* One process changes, and the others stay as they are.
LEMMA OneProcess ==
  ASSUME SessionInv, TypeOK', NEW m \in Machines, NEW cl, client' = [client EXCEPT ![m] = cl],
         drawn \subseteq drawn', Sound(m, cl, drawn'), Used(drawn'),
         \A u \in Torrents : listed(torrents'[tk][u].peers) \subseteq drawn',
         library' \subseteq Torrents \ Hollow, info' = info
  PROVE  SessionInv'
<1>1. client' \in [Machines -> Process]
  BY DEF SessionInv, Sound
<1>2. ASSUME NEW n \in Machines PROVE Sound(n, client'[n], drawn')
  <2>1. CASE n = m
    BY <2>1 DEF SessionInv
  <2>2. CASE n # m
    BY <2>2 DEF SessionInv, Sound
  <2> QED
    BY <2>1, <2>2
<1>3. Registered(drawn)'
  BY DEF Registered
<1>4. Used(drawn)'
  BY DEF Used
<1>5. (\A n \in Machines : Sound(n, client[n], drawn))'
  BY <1>2
<1> QED
  BY <1>1, <1>3, <1>4, <1>5 DEF SessionInv

\* No process, and it is sound.
LEMMA OffSound ==
  ASSUME NEW m \in Machines, NEW used
  PROVE  Off \in Process /\ Sound(m, Off, used)
<1>1. Off \in Process
  BY DEF Off, Process, Info!Hashes
<1> QED
  BY <1>1 DEF Sound, Off

\* A process starts: with the identifier of info.json, or with a random one.
LEMMA StartKeeps ==
  ASSUME SessionInv, NEW m \in Machines, NEW shell \in {"main", "ui"}, StartClient(m, shell)
  PROVE  SessionInv'
<1>1. PICK p \in peerIds(m) :
        /\ client' = [client EXCEPT ![m] = [Off EXCEPT !.pc = "ready", !.shell = shell,
                                                      !.id = p, !.ip = shell = "main"]]
        /\ drawn' = drawn \cup {p}
        /\ UNCHANGED <<info, library, vars>>
  BY DEF StartClient
<1>2. info[m].val.PeerId = Stored[m] /\ Used(drawn) /\ Registered(drawn)
  BY DEF SessionInv
<1>3. p \in IdsOf(m) /\ p \in Peers /\ (Stored[m] # NoId => p = Stored[m])
  BY <1>2, SessionAssumption DEF peerIds, IdsOf
<1>4. Used(drawn')
  <2>1. IsFiniteSet(drawn') /\ drawn' \in SUBSET Peers
    BY <1>1, <1>2, <1>3, FS_AddElement DEF Used
  <2>2. \A q \in drawn' : \E n \in Machines : q \in IdsOf(n)
    BY <1>1, <1>2, <1>3 DEF Used
  <2>3. ASSUME NEW n \in Machines, Stored[n] # NoId
        PROVE  drawn' \cap IdsOf(n) \subseteq {Stored[n]}
    <3>1. p \in IdsOf(n) => n = m
      BY <1>3, IdsAssumption
    <3> QED
      BY <1>1, <1>2, <1>3, <2>3, <3>1 DEF Used
  <2> QED
    BY <2>1, <2>2, <2>3 DEF Used
<1> DEFINE cl == [Off EXCEPT !.pc = "ready", !.shell = shell, !.id = p, !.ip = shell = "main"]
<1>5. Sound(m, cl, drawn')
  <2>1. cl.pc = "ready" /\ cl.id = p /\ cl.offered = {}
    BY DEF Off
  <2>2. cl \in Process
    <3>1. (shell = "main") \in BOOLEAN /\ Off \in Process
      BY OffSound
    <3> QED
      BY <1>3, <3>1 DEF Process
  <2> HIDE DEF cl
  <2> QED
    BY <1>1, <1>3, <2>1, <2>2 DEF Sound
<1>6. TypeOK' /\ \A u \in Torrents : listed(torrents'[tk][u].peers) \subseteq drawn'
  <2>1. TypeOK'
    BY <1>1 DEF SessionInv, TypeOK, vars
  <2> QED
    BY <1>1, <1>2, <2>1 DEF Registered, vars
<1> HIDE DEF cl
<1>7. client' = [client EXCEPT ![m] = cl]
  BY <1>1 DEF cl
<1>8. library' \subseteq Torrents \ Hollow /\ info' = info /\ drawn \subseteq drawn'
  BY <1>1 DEF SessionInv
<1> QED
  BY <1>4, <1>5, <1>6, <1>7, <1>8, OneProcess

\* A step that the tracker takes no part in.
LEMMA AloneKeeps ==
  ASSUME SessionInv, NEW m \in Machines, NEW cl, client' = [client EXCEPT ![m] = cl],
         Sound(m, cl, drawn), library' \subseteq Torrents \ Hollow,
         UNCHANGED <<vars, drawn, info>>
  PROVE  SessionInv'
<1>1. TypeOK'
  BY DEF SessionInv, TypeOK, vars
<1>2. drawn' = drawn /\ torrents' = torrents
  BY DEF vars
<1>3. Sound(m, cl, drawn') /\ Used(drawn')
      /\ \A u \in Torrents : listed(torrents'[tk][u].peers) \subseteq drawn'
  BY <1>2 DEF SessionInv, Registered
<1> QED
  BY <1>1, <1>2, <1>3, OneProcess

\* A process ends.
LEMMA EndKeeps ==
  ASSUME SessionInv, NEW m \in Machines, Ends(m), UNCHANGED <<info, library, drawn, vars>>
  PROVE  SessionInv'
<1>1. client' = [client EXCEPT ![m] = Off] /\ library' \subseteq Torrents \ Hollow
  BY DEF Ends, SessionInv
<1> QED
  BY <1>1, OffSound, AloneKeeps

\* A running process, its record and the record it may become.
LEMMA RunningSound ==
  ASSUME SessionInv, NEW m \in Machines, ~At(m, "off")
  PROVE  /\ client[m] \in Process
         /\ client[m].id \in IdsOf(m) \cap drawn /\ client[m].id \in Peers
         /\ client[m].offered \subseteq drawn \ {client[m].id}
  BY DEF SessionInv, Sound, At, Used

\* What a user does in fyneUI.go.
LEMMA UIKeeps ==
  ASSUME SessionInv, NEW m \in Machines, UIStep(m)
  PROVE  SessionInv'
<1>0. library \subseteq Torrents \ Hollow /\ DOMAIN client = Machines
  BY DEF SessionInv
<1>s. ~At(m, "off")
  BY DEF UIStep, SetIP, StartButton, PickFile, BuildTorrent, PublishTorrent, PublishFails, InUI, At
<1>r. /\ client[m] \in Process /\ client[m].id \in IdsOf(m) \cap drawn
      /\ client[m].offered \subseteq drawn \ {client[m].id} /\ client[m].id \in Peers
  BY <1>s, RunningSound
<1>1. CASE SetIP(m)
  <2> DEFINE cl == [client[m] EXCEPT !.ip = TRUE]
  <2>1. cl \in Process /\ cl.id = client[m].id /\ cl.offered = client[m].offered
        /\ cl.pc = "ready"
    BY <1>1, <1>r DEF Process, SetIP, InUI, At
  <2>2. client' = [client EXCEPT ![m] = cl] /\ UNCHANGED <<info, library, drawn, vars>>
    BY <1>1 DEF SetIP
  <2> HIDE DEF cl
  <2>3. Sound(m, cl, drawn)
    BY <1>r, <2>1 DEF Sound
  <2> QED
    BY <1>0, <2>2, <2>3, AloneKeeps
<1>2. CASE StartButton(m) \/ PublishFails(m)
  BY <1>2, EndKeeps DEF StartButton, PublishFails
<1>3. CASE PickFile(m)
  <2>1. PICK length \in Lengths[m] :
          client' = [client EXCEPT ![m].pc = "build",
                                   ![m].bto = {BuildTorrentFile(length, PieceLength)}]
    BY <1>3 DEF PickFile
  <2> DEFINE bto == {BuildTorrentFile(length, PieceLength)}
             cl == [client[m] EXCEPT !.pc = "build", !.bto = bto]
  <2>2. bto \in SUBSET BencodeTorrents
    BY DEF BencodeTorrents
  <2>3. client' = [client EXCEPT ![m] = cl] /\ UNCHANGED <<info, library, drawn, vars>>
    BY <1>0, <1>3, <2>1 DEF PickFile
  <2> HIDE DEF bto
  <2>4. cl \in Process /\ cl.id = client[m].id /\ cl.offered = client[m].offered
        /\ cl.pc = "build"
    BY <1>r, <2>2 DEF Process
  <2> HIDE DEF cl
  <2>5. Sound(m, cl, drawn)
    BY <1>r, <2>4 DEF Sound
  <2> QED
    BY <1>0, <2>3, <2>5, AloneKeeps
<1>4. CASE BuildTorrent(m)
  <2>1. library' \subseteq Torrents \ Hollow
    BY <1>0, <1>4 DEF BuildTorrent, WriteTorrent
  <2>2. UNCHANGED <<info, drawn, vars>>
    BY <1>4 DEF BuildTorrent
  <2>3. CASE client' = [client EXCEPT ![m].pc = "ready", ![m].bto = {}]
    <3> DEFINE cl == [client[m] EXCEPT !.pc = "ready", !.bto = {}]
    <3>1. client' = [client EXCEPT ![m] = cl]
      BY <1>0, <2>3
    <3>2. cl \in Process /\ cl.id = client[m].id /\ cl.offered = client[m].offered
          /\ cl.pc = "ready"
      BY <1>r DEF Process
    <3> HIDE DEF cl
    <3>3. Sound(m, cl, drawn)
      BY <1>r, <3>2 DEF Sound
    <3> QED
      BY <2>1, <2>2, <3>1, <3>3, AloneKeeps
  <2>4. ASSUME NEW t \in library \cup Hollow,
               client' = [client EXCEPT ![m].pc = "publish", ![m].torrent = t, ![m].bto = {}]
        PROVE  SessionInv'
    <3> DEFINE cl == [client[m] EXCEPT !.pc = "publish", !.torrent = t, !.bto = {}]
    <3>0. t \in Torrents /\ t \in Info!Hashes
      BY <1>0, SessionAssumption DEF Info!Hashes
    <3>1. client' = [client EXCEPT ![m] = cl]
      BY <1>0, <2>4
    <3>2. cl \in Process /\ cl.id = client[m].id /\ cl.offered = client[m].offered
          /\ cl.pc = "publish" /\ cl.torrent = t
      BY <1>r, <3>0 DEF Process
    <3> HIDE DEF cl
    <3>3. Sound(m, cl, drawn)
      BY <1>r, <3>0, <3>2 DEF Sound
    <3> QED
      BY <2>1, <2>2, <3>1, <3>3, AloneKeeps
  <2> QED
    BY <1>4, <2>3, <2>4 DEF BuildTorrent
<1>5. CASE PublishTorrent(m)
  <2> DEFINE cl == [client[m] EXCEPT !.pc = "ready", !.torrent = ZeroHash]
  <2>1. client[m].torrent \in Torrents
    BY <1>5 DEF PublishTorrent, At, SessionInv, Sound
  <2>2. Publish(tk, client[m].torrent, client[m].id) /\ UNCHANGED <<info, library, drawn>>
        /\ client' = [client EXCEPT ![m].pc = "ready", ![m].torrent = ZeroHash]
    BY <1>5 DEF PublishTorrent
  <2>3. client' = [client EXCEPT ![m] = cl]
    BY <1>0, <2>2
  <2>4. cl \in Process /\ cl.id = client[m].id /\ cl.offered = client[m].offered
        /\ cl.pc = "ready"
    BY <1>r DEF Process, Info!Hashes
  <2> HIDE DEF cl
  <2>5. Sound(m, cl, drawn)
    BY <1>r, <2>4 DEF Sound
  <2>6. TypeOK' /\ \A u \in Torrents : listed(torrents'[tk][u].peers) \subseteq drawn
    <3>1. "request" \in AnnounceEvents
      BY DEF AnnounceEvents
    <3> QED
      BY <1>r, <2>1, <2>2, <3>1, TrackerServes DEF SessionInv
  <2>7. Used(drawn)
    BY DEF SessionInv
  <2> QED
    BY <1>0, <2>2, <2>3, <2>5, <2>6, <2>7, OneProcess
<1> QED
  BY <1>1, <1>2, <1>3, <1>4, <1>5 DEF UIStep

\* A step in which main.go announces, or the tracker does not serve it.
LEMMA AskKeeps ==
  ASSUME SessionInv, NEW m \in Machines, NEW cl, client' = [client EXCEPT ![m] = cl],
         ~At(m, "off"), client[m].torrent \in Torrents, NEW event \in AnnounceEvents,
         \/ AnnounceOf(m, event)
         \/ AnnouncePanic(tk, client[m].torrent, client[m].id, event)
         \/ UNCHANGED vars,
         Sound(m, cl, drawn), UNCHANGED <<info, library, drawn>>
  PROVE  SessionInv'
<1>1. client[m].id \in Peers /\ client[m].id \in drawn
  BY RunningSound
<1>2. TypeOK /\ Registered(drawn) /\ Used(drawn) /\ library \subseteq Torrents \ Hollow
  BY DEF SessionInv
<1>3. TypeOK' /\ \A u \in Torrents : listed(torrents'[tk][u].peers) \subseteq drawn
  BY <1>1, <1>2, TrackerServes DEF AnnounceOf
<1>4. drawn' = drawn /\ library' \subseteq Torrents \ Hollow /\ info' = info
  BY <1>2
<1> QED
  BY <1>2, <1>3, <1>4, OneProcess

\* info.json changes, and the process with it.
LEMMA SavingKeeps ==
  ASSUME SessionInv, NEW m \in Machines, NEW cl, client' = [client EXCEPT ![m] = cl],
         Sound(m, cl, drawn), NEW file \in InfoFile, info' = [info EXCEPT ![m] = file],
         file.val.PeerId = Stored[m], UNCHANGED <<library, drawn, vars>>
  PROVE  SessionInv'
<1>1. /\ TypeOK' /\ client' \in [Machines -> Process]
      /\ torrents' = torrents /\ drawn' = drawn /\ library' \subseteq Torrents \ Hollow
  BY DEF SessionInv, TypeOK, vars, Sound
<1>2. info' \in [Machines -> InfoFile] /\ \A n \in Machines : info'[n].val.PeerId = Stored[n]
  BY DEF SessionInv
<1>3. \A n \in Machines : Sound(n, client'[n], drawn')
  BY <1>1 DEF SessionInv
<1>4. (\A n \in Machines : Sound(n, client[n], drawn))'
  BY <1>3
<1>5. Used(drawn)' /\ Registered(drawn)'
  BY <1>1 DEF SessionInv, Used, Registered
<1> QED
  BY <1>1, <1>2, <1>4, <1>5 DEF SessionInv

\* What main.go does until DownloadTo returns.
LEMMA DownloadKeeps ==
  ASSUME SessionInv, NEW m \in Machines,
         \/ OpenTorrent(m) \/ RequestPeers(m) \/ RequestFails(m)
         \/ DownloadPanics(m) \/ DownloadStarts(m) \/ FileReturned(m)
  PROVE  SessionInv'
<1>0. library \subseteq Torrents \ Hollow /\ DOMAIN client = Machines
  BY DEF SessionInv
<1>s. ~At(m, "off")
  BY DEF OpenTorrent, RequestPeers, RequestFails, DownloadPanics, DownloadStarts, FileReturned, At
<1>r. /\ client[m] \in Process /\ client[m].id \in IdsOf(m) \cap drawn
      /\ client[m].offered \subseteq drawn \ {client[m].id} /\ client[m].id \in Peers
  BY <1>s, RunningSound
<1>t. client[m].pc \in {"request", "file"} => client[m].torrent \in Torrents
  BY DEF SessionInv, Sound
<1>1. CASE OpenTorrent(m)
  <2>1. PICK t \in library \cup Hollow :
          client' = [client EXCEPT ![m].pc = "request", ![m].torrent = t]
    BY <1>1 DEF OpenTorrent
  <2> DEFINE cl == [client[m] EXCEPT !.pc = "request", !.torrent = t]
  <2>2. t \in Torrents /\ t \in Info!Hashes
    BY <1>0, SessionAssumption DEF Info!Hashes
  <2>3. client' = [client EXCEPT ![m] = cl] /\ UNCHANGED <<info, library, drawn, vars>>
    BY <1>0, <1>1, <2>1 DEF OpenTorrent
  <2>4. cl \in Process /\ cl.id = client[m].id /\ cl.offered = client[m].offered
        /\ cl.pc = "request" /\ cl.torrent = t
    BY <1>r, <2>2 DEF Process
  <2> HIDE DEF cl
  <2>5. Sound(m, cl, drawn)
    BY <1>r, <2>2, <2>4 DEF Sound
  <2> QED
    BY <1>0, <2>3, <2>5, AloneKeeps
<1>2. CASE RequestPeers(m)
  <2>1. PICK peers \in Answers(m) :
          client' = [client EXCEPT ![m].pc = "file", ![m].offered = peers]
    BY <1>2 DEF RequestPeers
  <2>2. AnnounceOf(m, "request") /\ client[m].torrent \in Torrents
        /\ UNCHANGED <<info, library, drawn>>
    BY <1>2, <1>t DEF RequestPeers, At
  <2> DEFINE cl == [client[m] EXCEPT !.pc = "file", !.offered = peers]
  <2>3. client' = [client EXCEPT ![m] = cl]
    BY <1>0, <2>1
  <2>4. peers \subseteq drawn \ {client[m].id}
    <3>1. peers \subseteq listed(torrents[tk][client[m].torrent].peers) \ {client[m].id}
      BY AnswerFromPool DEF Answers
    <3> QED
      BY <2>2, <3>1 DEF SessionInv, Registered
  <2>5. peers \in SUBSET Peers
    BY <2>4 DEF SessionInv, Used
  <2>6. cl \in Process /\ cl.id = client[m].id /\ cl.offered = peers
        /\ cl.pc = "file" /\ cl.torrent = client[m].torrent
    BY <1>r, <2>5 DEF Process
  <2> HIDE DEF cl
  <2>7. Sound(m, cl, drawn)
    BY <1>r, <2>2, <2>4, <2>6 DEF Sound
  <2>8. "request" \in AnnounceEvents
    BY DEF AnnounceEvents
  <2> QED
    BY <1>s, <2>2, <2>3, <2>7, <2>8, AskKeeps
<1>3. CASE RequestFails(m) \/ DownloadPanics(m)
  BY <1>3, EndKeeps DEF RequestFails, DownloadPanics
<1>4. CASE DownloadStarts(m)
  <2>1. /\ client' = [client EXCEPT ![m].pc = "loading", ![m].offered = {}]
        /\ AnnounceOf(m, "started") /\ client[m].torrent \in Torrents
        /\ UNCHANGED <<info, library, drawn>>
    BY <1>4, <1>t DEF DownloadStarts, At
  <2> DEFINE cl == [client[m] EXCEPT !.pc = "loading", !.offered = {}]
  <2>2. client' = [client EXCEPT ![m] = cl]
    BY <1>0, <2>1
  <2>3. cl \in Process /\ cl.id = client[m].id /\ cl.offered = {} /\ cl.pc = "loading"
    BY <1>r DEF Process
  <2> HIDE DEF cl
  <2>4. Sound(m, cl, drawn)
    BY <1>r, <2>3 DEF Sound
  <2>5. "started" \in AnnounceEvents
    BY DEF AnnounceEvents
  <2> QED
    BY <1>s, <2>1, <2>2, <2>4, <2>5, AskKeeps
<1>5. CASE FileReturned(m)
  <2>1. /\ client' = [client EXCEPT ![m].pc = "completed", ![m].offered = {}]
        /\ client[m].torrent \in Torrents /\ UNCHANGED <<info, library, drawn, vars>>
    BY <1>5, <1>t DEF FileReturned, At
  <2> DEFINE cl == [client[m] EXCEPT !.pc = "completed", !.offered = {}]
  <2>2. client' = [client EXCEPT ![m] = cl]
    BY <1>0, <2>1
  <2>3. cl \in Process /\ cl.id = client[m].id /\ cl.offered = {} /\ cl.pc = "completed"
        /\ cl.torrent = client[m].torrent
    BY <1>r DEF Process
  <2> HIDE DEF cl
  <2>4. Sound(m, cl, drawn)
    BY <1>r, <2>1, <2>3 DEF Sound
  <2> QED
    BY <1>0, <2>1, <2>2, <2>4, AloneKeeps
<1> QED
  BY <1>1, <1>2, <1>3, <1>4, <1>5

\* What it does from then on: the announces, and the save.
LEMMA ReturnKeeps ==
  ASSUME SessionInv, NEW m \in Machines,
         Completed(m) \/ Stopped(m) \/ InfoTruncate(m) \/ InfoWrite(m)
  PROVE  SessionInv'
<1>0. /\ library \subseteq Torrents \ Hollow /\ DOMAIN client = Machines
      /\ info \in [Machines -> InfoFile] /\ info[m].val.PeerId = Stored[m]
  BY DEF SessionInv
<1>s. ~At(m, "off")
  BY DEF Completed, Stopped, InfoTruncate, InfoWrite, At
<1>r. /\ client[m] \in Process /\ client[m].id \in IdsOf(m) \cap drawn
      /\ client[m].offered \subseteq drawn \ {client[m].id} /\ client[m].id \in Peers
  BY <1>s, RunningSound
<1>t. client[m].pc \in {"completed", "stopped"} => client[m].torrent \in Torrents
  BY DEF SessionInv, Sound
<1>1. CASE Completed(m)
  <2>1. PICK h \in {client[m].torrent, ZeroHash} :
          /\ client' = [client EXCEPT ![m].pc = "stopped", ![m].result = h]
          /\ AnnounceOf(m, "completed") \/ UNCHANGED vars
    BY <1>1 DEF Completed
  <2>2. client[m].torrent \in Torrents /\ UNCHANGED <<info, library, drawn>>
    BY <1>1, <1>t DEF Completed, At
  <2> DEFINE cl == [client[m] EXCEPT !.pc = "stopped", !.result = h]
  <2>3. client' = [client EXCEPT ![m] = cl]
    BY <1>0, <2>1
  <2>4. h \in Info!Hashes
    BY <2>2 DEF Info!Hashes
  <2>5. cl \in Process /\ cl.id = client[m].id /\ cl.offered = client[m].offered
        /\ cl.pc = "stopped" /\ cl.torrent = client[m].torrent
    BY <1>r, <2>4 DEF Process
  <2> HIDE DEF cl
  <2>6. Sound(m, cl, drawn)
    BY <1>r, <2>2, <2>5 DEF Sound
  <2>7. "completed" \in AnnounceEvents
    BY DEF AnnounceEvents
  <2> QED
    BY <1>s, <2>1, <2>2, <2>3, <2>6, <2>7, AskKeeps
<1>2. CASE Stopped(m)
  <2>1. /\ \/ AnnounceOf(m, "stopped")
           \/ AnnouncePanic(tk, client[m].torrent, client[m].id, "stopped")
           \/ UNCHANGED vars
        /\ client[m].torrent \in Torrents /\ UNCHANGED <<info, library, drawn>>
        /\ client' = [client EXCEPT ![m].pc = "save"]
    BY <1>2, <1>t DEF Stopped, Goto, At
  <2> DEFINE cl == [client[m] EXCEPT !.pc = "save"]
  <2>2. client' = [client EXCEPT ![m] = cl]
    BY <1>0, <2>1
  <2>3. cl \in Process /\ cl.id = client[m].id /\ cl.offered = client[m].offered
        /\ cl.pc = "save"
    BY <1>r DEF Process
  <2> HIDE DEF cl
  <2>4. Sound(m, cl, drawn)
    BY <1>r, <2>3 DEF Sound
  <2>5. "stopped" \in AnnounceEvents
    BY DEF AnnounceEvents
  <2> QED
    BY <1>s, <2>1, <2>2, <2>4, <2>5, AskKeeps
<1>3. CASE InfoTruncate(m)
  <2>1. /\ client' = [client EXCEPT ![m].pc = "write"] /\ UNCHANGED <<library, drawn, vars>>
        /\ info' = [info EXCEPT ![m].whole = FALSE]
    BY <1>3 DEF InfoTruncate, Goto
  <2> DEFINE cl == [client[m] EXCEPT !.pc = "write"]
             file == [info[m] EXCEPT !.whole = FALSE]
  <2>2. client' = [client EXCEPT ![m] = cl] /\ info' = [info EXCEPT ![m] = file]
    BY <1>0, <2>1
  <2>3. cl \in Process /\ cl.id = client[m].id /\ cl.offered = client[m].offered
        /\ cl.pc = "write"
    BY <1>r DEF Process
  <2>4. file \in InfoFile /\ file.val.PeerId = Stored[m]
    BY <1>0 DEF InfoFile
  <2> HIDE DEF cl, file
  <2>5. Sound(m, cl, drawn)
    BY <1>r, <2>3 DEF Sound
  <2> QED
    BY <2>1, <2>2, <2>4, <2>5, SavingKeeps
<1>4. CASE InfoWrite(m)
  <2>0. PICK new \in Info!SaveToInfo(info[m].val, client[m].result) :
          info' = [info EXCEPT ![m] = [whole |-> TRUE, val |-> new]]
    BY <1>4 DEF InfoWrite
  <2> DEFINE cl == [client[m] EXCEPT !.pc = "done", !.torrent = ZeroHash, !.result = ZeroHash]
             file == [whole |-> TRUE, val |-> new]
  <2>1. /\ client' = [client EXCEPT ![m].pc = "done", ![m].torrent = ZeroHash,
                                    ![m].result = ZeroHash]
        /\ info' = [info EXCEPT ![m] = file] /\ UNCHANGED <<library, drawn, vars>>
    BY <1>4, <2>0 DEF InfoWrite
  <2>2. client' = [client EXCEPT ![m] = cl]
    BY <1>0, <2>1
  <2>3. cl \in Process /\ cl.id = client[m].id /\ cl.offered = client[m].offered
        /\ cl.pc = "done"
    BY <1>r DEF Process, Info!Hashes
  <2>4. new \in [PeerId : Peers \cup {NoId}, TorrentFiles : Info!TorrentFiles]
        /\ new.PeerId = Stored[m]
    <3> DEFINE files == info[m].val.TorrentFiles
    <3>1. /\ info[m].val = [PeerId |-> Stored[m], TorrentFiles |-> files]
          /\ files \in Info!TorrentFiles /\ Stored[m] \in Peers \cup {NoId}
      BY <1>0 DEF InfoFile
    <3>2. client[m].result \in Info!Hashes
      BY <1>r DEF Process
    <3> HIDE DEF files
    <3>3. /\ new = [PeerId |-> Stored[m], TorrentFiles |-> new.TorrentFiles]
          /\ new.TorrentFiles \in Info!TorrentFiles
      BY <2>0, <3>1, <3>2, SaveKeeps
    <3> QED
      BY <3>1, <3>3
  <2>5. file \in InfoFile /\ file.val.PeerId = Stored[m]
    BY <2>4 DEF InfoFile
  <2> HIDE DEF cl, file
  <2>6. Sound(m, cl, drawn)
    BY <1>r, <2>3 DEF Sound
  <2> QED
    BY <2>1, <2>2, <2>5, <2>6, SavingKeeps
<1> QED
  BY <1>1, <1>2, <1>3, <1>4

\* The tracker is started without -load, or crashes.
LEMMA TrackerKeeps ==
  ASSUME SessionInv, Start(tk, FALSE) \/ Crash(tk), UNCHANGED session
  PROVE  SessionInv' /\ [Next]_vars
<1>0. tk \in Trackers /\ TypeOK
  BY SessionAssumption DEF SessionInv
<1>1. TypeOK' /\ [Next]_vars
  <2>1. FALSE \in BOOLEAN
    OBVIOUS
  <2>2. CASE Start(tk, FALSE)
    BY <1>0, <2>1, <2>2, StartTypes DEF Next
  <2>3. CASE Crash(tk)
    BY <1>0, <2>3, DieType DEF Next, Crash
  <2> QED
    BY <2>2, <2>3
<1>2. torrents'[tk] = NoTorrents
  BY <1>0 DEF TypeOK, Start, Crash, Die
<1>3. \A t \in Torrents : listed(torrents'[tk][t].peers) = {}
  BY <1>2 DEF NoTorrents, NoTorrent, listed
<1>4. Registered(drawn)'
  BY <1>3 DEF Registered
<1>5. /\ client' \in [Machines -> Process] /\ library' \subseteq Torrents \ Hollow
      /\ info' \in [Machines -> InfoFile] /\ \A m \in Machines : info'[m].val.PeerId = Stored[m]
  BY DEF SessionInv, session
<1>6. Used(drawn)'
  BY DEF SessionInv, session, Used
<1>7. (\A m \in Machines : Sound(m, client[m], drawn))'
  BY DEF SessionInv, session, Sound
<1> QED
  BY <1>1, <1>4, <1>5, <1>6, <1>7 DEF SessionInv

\* The invariant is inductive.
LEMMA SessionSteps == SessionInv /\ [SessionNext]_<<vars, session>> => SessionInv'
<1> SUFFICES ASSUME SessionInv, [SessionNext]_<<vars, session>> PROVE SessionInv'
  OBVIOUS
<1>1. CASE (Start(tk, FALSE) \/ Crash(tk)) /\ UNCHANGED session
  BY <1>1, TrackerKeeps
<1>2. ASSUME NEW m \in Machines, NEW shell \in Shells[m], StartClient(m, shell)
      PROVE  SessionInv'
  <2>1. shell \in {"main", "ui"}
    BY SessionAssumption
  <2> QED
    BY <1>2, <2>1, StartKeeps
<1>3. ASSUME NEW m \in Machines, Kill(m) PROVE SessionInv'
  BY <1>3, EndKeeps DEF Kill
<1>4. ASSUME NEW m \in Machines, UIStep(m) PROVE SessionInv'
  BY <1>4, UIKeeps
<1>5. ASSUME NEW m \in Machines, MainStep(m) PROVE SessionInv'
  BY <1>5, DownloadKeeps, ReturnKeeps DEF MainStep
<1>6. CASE UNCHANGED <<vars, session>>
  BY <1>6 DEF SessionInv, TypeOK, Sound, Used, Registered, vars, session
<1> QED
  BY <1>1, <1>2, <1>3, <1>4, <1>5, <1>6 DEF SessionNext

\* It holds when no process runs yet.
LEMMA SessionBegins == SessionInit => SessionInv
<1> SUFFICES ASSUME SessionInit PROVE SessionInv
  OBVIOUS
<1>0. TypeOK /\ torrents = [a \in Trackers |-> NoTorrents]
  BY NoTorrentType DEF SessionInit, Init, TypeOK, Idle, Files, TorrentsFile, BkFile
<1>1. \A m \in Machines : Sound(m, client[m], drawn)
  BY OffSound DEF SessionInit
<1>2. info \in [Machines -> InfoFile] /\ \A m \in Machines : info[m].val.PeerId = Stored[m]
  BY SessionAssumption DEF SessionInit, InfoFile
<1>3. Used(drawn)
  BY FS_EmptySet DEF SessionInit, Used
<1>4. Registered(drawn)
  BY <1>0, SessionAssumption DEF Registered, NoTorrents, NoTorrent, listed
<1> QED
  BY <1>0, <1>1, <1>2, <1>3, <1>4, OffSound DEF SessionInv, SessionInit

\* The invariant the theorems below rest on.
LEMMA SessionInvariant == SessionSpec => []SessionInv
BY SessionBegins, SessionSteps, PTL DEF SessionSpec

\* The types hold, and a process has an identifier of its machine, whatever was
\* saved or drawn before.
THEOREM SessionTypeCorrect == SessionSpec => []SessionTypeOK
<1>1. SessionInv => SessionTypeOK
  <2> SUFFICES ASSUME SessionInv PROVE SessionTypeOK
    OBVIOUS
  <2>1. \A m \in Machines : ~At(m, "off") => client[m].id \in IdsOf(m)
    BY DEF SessionInv, Sound, At
  <2> QED
    BY <2>1 DEF SessionTypeOK, SessionInv, InfoFile, Used
<1> QED
  BY <1>1, SessionInvariant, PTL

\* A machine that has a PeerId in info.json is never offered itself.
THEOREM NoSelfOffer == SessionSpec => []NotOfferedItself
<1>1. SessionInv => NotOfferedItself
  <2> SUFFICES ASSUME SessionInv, NEW m \in Machines, Stored[m] # NoId,
                      NEW p \in client[m].offered, Owner(p) = m
               PROVE  FALSE
    BY DEF NotOfferedItself
  <2>1. Sound(m, client[m], drawn) /\ Used(drawn)
    BY DEF SessionInv
  <2>2. client[m].pc # "off" /\ client[m].id \in IdsOf(m) \cap drawn
    BY <2>1 DEF Sound
  <2>3. client[m].id = Stored[m]
    BY <2>1, <2>2 DEF Used
  <2>4. p \in drawn /\ p # Stored[m]
    BY <2>1, <2>3 DEF Sound
  <2>5. p \in IdsOf(m)
    BY <2>1, <2>4 DEF Used, Owner
  <2> QED
    BY <2>1, <2>4, <2>5 DEF Used
<1> QED
  BY <1>1, SessionInvariant, PTL

\* Whatever file is published, the hashes of its .torrent are those of the
\* pieces its downloaders ask for.
THEOREM MadeTorrentsAgree == SessionSpec => []PiecesAgree
<1>1. SessionInv => PiecesAgree
  <2> SUFFICES ASSUME SessionInv, NEW m \in Machines, NEW bto \in client[m].bto
               PROVE  Agrees(bto)
    BY DEF PiecesAgree
  <2>1. bto \in BencodeTorrents
    BY DEF SessionInv, Sound, Process
  <2>2. PICK length \in Nat : bto = BuildTorrentFile(length, PieceLength)
    BY <2>1, SessionAssumption DEF BencodeTorrents
  <2> QED
    BY <2>2, SessionAssumption, TorrentAgrees
<1> QED
  BY <1>1, SessionInvariant, PTL

\* Only its own step changes a process, and only the answer to a request takes
\* it from "request" to "file".
LEMMA OneMoves ==
  ASSUME SessionInv, SessionNext, NEW m \in Machines, At(m, "request"), client'[m].pc = "file"
  PROVE  RequestPeers(m)
<1>0. client \in [Machines -> Process] /\ client[m].pc # "file" /\ client[m].pc = "request"
  BY DEF SessionInv, At
<1>1. ASSUME NEW n \in Machines, NEW shell, StartClient(n, shell) PROVE FALSE
  BY <1>0, <1>1 DEF StartClient, At, Off
<1>2. ASSUME NEW n \in Machines,
             \/ Kill(n) \/ StartButton(n) \/ PublishFails(n) \/ RequestFails(n)
             \/ DownloadPanics(n)
      PROVE  FALSE
  <2>1. client' = [client EXCEPT ![n] = Off]
    BY <1>2 DEF Kill, StartButton, PublishFails, RequestFails, DownloadPanics, Ends
  <2> QED
    BY <1>0, <2>1 DEF Off
<1>3. ASSUME NEW n \in Machines, UIStep(n) PROVE FALSE
  <2>1. CASE StartButton(n) \/ PublishFails(n)
    BY <1>2, <2>1
  <2>2. CASE SetIP(n)
    BY <1>0, <2>2 DEF SetIP, InUI, At
  <2>3. CASE PickFile(n)
    BY <1>0, <2>3 DEF PickFile, InUI, At
  <2>4. CASE BuildTorrent(n)
    BY <1>0, <2>4 DEF BuildTorrent, At
  <2>5. CASE PublishTorrent(n)
    BY <1>0, <2>5 DEF PublishTorrent, At
  <2> QED
    BY <1>3, <2>1, <2>2, <2>3, <2>4, <2>5 DEF UIStep
<1>4. ASSUME NEW n \in Machines, MainStep(n) PROVE RequestPeers(m)
  <2>1. CASE RequestFails(n) \/ DownloadPanics(n)
    BY <1>2, <2>1
  <2>2. CASE RequestPeers(n)
    BY <1>0, <2>2 DEF RequestPeers, At
  <2>3. CASE OpenTorrent(n)
    BY <1>0, <2>3 DEF OpenTorrent, At
  <2>4. CASE DownloadStarts(n)
    BY <1>0, <2>4 DEF DownloadStarts, At
  <2>5. CASE FileReturned(n)
    BY <1>0, <2>5 DEF FileReturned, At
  <2>6. CASE Completed(n)
    BY <1>0, <2>6 DEF Completed, At
  <2>7. CASE Stopped(n) \/ InfoTruncate(n)
    BY <1>0, <2>7 DEF Stopped, InfoTruncate, Goto, At
  <2>8. CASE InfoWrite(n)
    BY <1>0, <2>8 DEF InfoWrite, At
  <2> QED
    BY <1>4, <2>1, <2>2, <2>3, <2>4, <2>5, <2>6, <2>7, <2>8 DEF MainStep
<1> QED
  BY <1>0, <1>1, <1>2, <1>3, <1>4 DEF SessionNext, session

\* Whatever order Go gives the map of peers, a request that could be answered
\* with a peer that has the torrent is.
THEOREM SeederIsOffered == SessionSpec => SeederOffered
<1> DEFINE Offer(m) ==
      LET pool  == torrents[tk][client[m].torrent].peers
          other == listed(pool) \ {client[m].id}
          have  == {p \in other : pool[p] \in {"seeder", "complete"}}
      IN \/ have \cap client'[m].offered # {}
         \/ have = {}
         \/ Cardinality(other) = 1 /\ client[m].id \in listed(pool)
<1>1. ASSUME SessionInv, SessionNext, NEW m \in Machines, At(m, "request"), client'[m].pc = "file"
      PROVE  Offer(m)
  <2> DEFINE pool == torrents[tk][client[m].torrent].peers
             id   == client[m].id
             have == {p \in listed(pool) \ {id} : pool[p] \in {"seeder", "complete"}}
  <2>1. RequestPeers(m) /\ client[m].torrent \in Torrents /\ client \in [Machines -> Process]
    BY <1>1, OneMoves DEF SessionInv, Sound, At
  <2>2. client'[m].offered \in getRandomPeers(pool, id, 40)
    BY <2>1 DEF RequestPeers, Answers
  <2>3. pool \in [Peers -> PeerState]
    BY <1>1, <2>1, SessionAssumption DEF SessionInv, TypeOK, TorrentTk
  <2>4. IsFiniteSet(listed(pool))
    BY <1>1, <2>1, FS_Subset DEF SessionInv, Used, Registered
  <2>5. have = complete(pool) \ {id}
    BY <2>3 DEF complete, listed, PeerState
  <2> HIDE DEF pool, id
  <2>6. \/ have \cap client'[m].offered # {} \/ have = {}
        \/ Cardinality(listed(pool) \ {id}) = 1 /\ id \in listed(pool)
    <3> HIDE DEF have
    <3> QED
      BY <2>2, <2>4, <2>5, AnswerHasSeeder
  <2> QED
    BY <2>6 DEF pool, id
<1>2. SessionInv /\ [SessionNext]_<<vars, session>> =>
        [\A m \in Machines : At(m, "request") /\ client'[m].pc = "file" =>
           Offer(m)]_<<vars, session>>
  BY <1>1
<1> QED
  BY <1>2, SessionInvariant, PTL DEF SessionSpec, SeederOffered

\* Steps that write info.json, and no other, change what it holds.
LEMMA InfoChanges ==
  ASSUME SessionNext
  PROVE  info' = info \/ \E m \in Machines : InfoTruncate(m) \/ InfoWrite(m)
BY DEF SessionNext, session, StartClient, Kill, UIStep, SetIP, StartButton, PickFile,
       BuildTorrent, PublishTorrent, PublishFails, MainStep, OpenTorrent, RequestPeers,
       RequestFails, DownloadPanics, DownloadStarts, FileReturned, Completed, Stopped

\* The entries of text infohashes that m began with, but for the one under "1",
\* are where they were.
Entries(m) ==
  \A k \in Info!Keys \ {"1"} :
    Text(InitFiles[m][k]) => info[m].val.TorrentFiles[k] = InitFiles[m][k]

\* No step takes one of them away.
LEMMA EntriesStay ==
  ASSUME SessionInv, SessionNext, NEW m \in Machines, Entries(m)
  PROVE  Entries(m)'
<1>0. info \in [Machines -> InfoFile] /\ client \in [Machines -> Process]
  BY DEF SessionInv
<1>1. CASE info'[m].val = info[m].val
  BY <1>1 DEF Entries, Text
<1>2. ASSUME NEW n \in Machines, InfoTruncate(n)
      PROVE  info'[m].val = info[m].val
  BY <1>0, <1>2 DEF InfoTruncate, InfoFile
<1>3. ASSUME NEW n \in Machines, InfoWrite(n), n # m
      PROVE  info'[m].val = info[m].val
  BY <1>0, <1>3 DEF InfoWrite
<1>4. CASE InfoWrite(m)
  <2> DEFINE files == info[m].val.TorrentFiles
             id == info[m].val.PeerId
  <2>1. PICK new \in Info!SaveToInfo(info[m].val, client[m].result) : info'[m].val = new
    BY <1>0, <1>4 DEF InfoWrite
  <2>2. info[m].val = [PeerId |-> id, TorrentFiles |-> files] /\ files \in Info!TorrentFiles
    BY <1>0 DEF InfoFile
  <2>3. client[m].result \in Info!Hashes
    BY <1>0 DEF Process
  <2>4. \A k \in Info!Keys \ {"1"} : Text(InitFiles[m][k]) => files[k] = InitFiles[m][k]
    BY DEF Entries
  <2> HIDE DEF files, id
  <2>5. \A k \in Info!Keys \ {"1"} : Text(files[k]) => new.TorrentFiles[k] = files[k]
    BY <2>1, <2>2, <2>3, SaveKeeps
  <2>6. \A k \in Info!Keys \ {"1"} :
          Text(InitFiles[m][k]) => new.TorrentFiles[k] = InitFiles[m][k]
    BY <2>4, <2>5
  <2> QED
    BY <2>1, <2>6 DEF Entries, Text
<1> QED
  BY <1>1, <1>2, <1>3, <1>4, InfoChanges

\* Of the torrents with text infohashes that info.json began with, all saves
\* together lose at most one: it is under "1".
THEOREM SavesLoseOne == SessionSpec => []OneTorrentLost
<1> DEFINE Kept == \A m \in Machines : Entries(m)
<1>1. SessionInit => Kept
  BY DEF SessionInit, Entries
<1>2. SessionInv /\ Kept /\ [SessionNext]_<<vars, session>> => Kept'
  <2>1. CASE SessionNext
    BY <2>1, EntriesStay
  <2>2. CASE UNCHANGED <<vars, session>>
    BY <2>2 DEF session, Entries, Text
  <2> QED
    BY <2>1, <2>2
<1>3. Kept => OneTorrentLost
  <2> SUFFICES ASSUME NEW m \in Machines, Entries(m)
               PROVE  Cardinality(Begun(m) \ Info!Listed(info[m].val.TorrentFiles)) <= 1
    BY DEF OneTorrentLost
  <2> DEFINE lost == Begun(m) \ Info!Listed(info[m].val.TorrentFiles)
             first == InitFiles[m]["1"]
  <2>1. ASSUME NEW x \in lost PROVE x = first
    <3>1. PICK k \in Info!Keys : InitFiles[m][k] = x /\ x \in Torrents \cup OldHashes
      BY DEF Begun, Info!Listed
    <3>2. Text(x)
      BY <3>1 DEF Begun, Text, Info!Hashes
    <3>3. CASE k # "1"
      <4>1. info[m].val.TorrentFiles[k] = x
        BY <3>1, <3>2, <3>3 DEF Entries
      <4> QED
        BY <3>1, <4>1 DEF Info!Listed
    <3> QED
      BY <3>1, <3>3
  <2> HIDE DEF lost, first
  <2>2. lost \subseteq {first}
    BY <2>1
  <2>3. IsFiniteSet({first}) /\ Cardinality({first}) = 1
    BY FS_Singleton
  <2>4. Cardinality(lost) <= Cardinality({first})
    BY <2>2, <2>3, FS_Subset
  <2> QED
    BY <2>3, <2>4 DEF lost
<1> HIDE DEF Kept
<1> QED
  BY <1>1, <1>2, <1>3, SessionInvariant, PTL DEF SessionSpec

\* What the clients do to their tracker is what TrackerNet lets peers do: every
\* theorem about the network of trackers holds of it here.
THEOREM SessionUsesTracker == SessionSpec => Spec
<1>1. ASSUME SessionInv, SessionNext PROVE [Next]_vars
  <2>1. CASE (Start(tk, FALSE) \/ Crash(tk)) /\ UNCHANGED session
    BY <1>1, <2>1, TrackerKeeps
  <2>2. ASSUME NEW m \in Machines, UNCHANGED vars
        PROVE  [Next]_vars
    BY <2>2
  <2>3. ASSUME NEW m \in Machines, NEW event \in AnnounceEvents, ~At(m, "off"),
               client[m].torrent \in Torrents,
               \/ Publish(tk, client[m].torrent, client[m].id) \/ AnnounceOf(m, event)
               \/ AnnouncePanic(tk, client[m].torrent, client[m].id, event)
        PROVE  [Next]_vars
    <3>1. client[m].id \in Peers /\ client[m].id \in drawn
      BY <1>1, <2>3, RunningSound
    <3>2. TypeOK /\ Registered(drawn)
      BY <1>1 DEF SessionInv
    <3> QED
      BY <2>3, <3>1, <3>2, TrackerServes DEF AnnounceOf
  <2>4. ASSUME NEW m \in Machines, client[m].pc \in {"publish", "request", "file", "completed", "stopped"}
        PROVE  client[m].torrent \in Torrents /\ ~At(m, "off")
    BY <1>1, <2>4 DEF SessionInv, Sound, At
  <2>5. AnnounceEvents = {"request", "started", "completed", "stopped"}
    BY DEF AnnounceEvents
  <2>6. ASSUME NEW m \in Machines, PublishTorrent(m) PROVE [Next]_vars
    BY <2>3, <2>4, <2>5, <2>6 DEF PublishTorrent, At
  <2>7. ASSUME NEW m \in Machines, RequestPeers(m) PROVE [Next]_vars
    BY <2>3, <2>4, <2>5, <2>7 DEF RequestPeers, At
  <2>8. ASSUME NEW m \in Machines, DownloadStarts(m) PROVE [Next]_vars
    BY <2>3, <2>4, <2>5, <2>8 DEF DownloadStarts, At
  <2>9. ASSUME NEW m \in Machines, Completed(m) PROVE [Next]_vars
    BY <2>2, <2>3, <2>4, <2>5, <2>9 DEF Completed, At
  <2>10. ASSUME NEW m \in Machines, Stopped(m) PROVE [Next]_vars
    BY <2>2, <2>3, <2>4, <2>5, <2>10 DEF Stopped, At
  <2>11. ASSUME NEW m \in Machines,
                \/ \E shell \in Shells[m] : StartClient(m, shell)
                \/ Kill(m) \/ SetIP(m) \/ StartButton(m) \/ PickFile(m) \/ BuildTorrent(m)
                \/ PublishFails(m) \/ OpenTorrent(m) \/ RequestFails(m) \/ DownloadPanics(m)
                \/ FileReturned(m) \/ InfoTruncate(m) \/ InfoWrite(m)
         PROVE  UNCHANGED vars
    BY <2>11 DEF StartClient, Kill, SetIP, StartButton, PickFile, BuildTorrent, PublishFails,
                 OpenTorrent, RequestFails, DownloadPanics, FileReturned, InfoTruncate, InfoWrite,
                 vars
  <2> QED
    BY <1>1, <2>1, <2>6, <2>7, <2>8, <2>9, <2>10, <2>11 DEF SessionNext, UIStep, MainStep
<1>2. SessionInit => Init
  BY DEF SessionInit
<1>3. SessionInv /\ [SessionNext]_<<vars, session>> => [Next]_vars
  BY <1>1 DEF vars
<1> QED
  BY <1>2, <1>3, SessionInvariant, PTL DEF SessionSpec, Spec

===============================================================================
