---------------------------- MODULE PeerWireProofs ----------------------------
(***************************************************************************)
(* On a connection that holds every block a downloader awaits is under way *)
(* and in order: proofs about PeerWire, for every set of peers, every      *)
(* piece and every length of the pipeline.                                 *)
(***************************************************************************)
EXTENDS PeerWire, FiniteSetTheorems, SequenceTheorems, TLAPS

-------------------------------------------------------------------------------
(* Types. *)

\* What is written is a message, and what is read leaves messages.
LEMMA QueueType ==
  ASSUME NEW q \in [Clients -> Seq(Message)], NEW c \in Clients,
         NEW msgs \in Seq(Message), open \in [Clients -> BOOLEAN]
  PROVE  /\ Write(q, c, msgs) \in [Clients -> Seq(Message)]
         /\ q[c] # <<>> => Read(q, c) \in [Clients -> Seq(Message)]
<1>1. q[c] \o msgs \in Seq(Message)
  OBVIOUS
<1>2. q[c] # <<>> => Tail(q[c]) \in Seq(Message)
  OBVIOUS
<1> QED
  BY <1>1, <1>2 DEF Write, Read

\* The messages of this client and the uploader, and those of another client.
LEMMA MessageType ==
  /\ \A id \in {"HANDSHAKE", "BITFIELD", "UNCHOKE", "CHOKE", "INTERESTED",
                "NOTINTERESTED", "HAVE", "CANCEL", "NIL",
                "BADREQUEST", "FARREQUEST", "BADHAVE"} : Plain(id) \in Message
  /\ \A p \in Pieces, b \in Blocks : Request(p, b) \in Message /\ Piece(p, b) \in Message
  /\ \A m \in Message : m.id \in {"REQUEST", "PIECE"} => m.index \in Pieces /\ m.begin \in Blocks
  /\ OtherMessages \subseteq Message
<1>1. \A id \in {"HANDSHAKE", "BITFIELD", "UNCHOKE", "CHOKE", "INTERESTED",
                "NOTINTERESTED", "HAVE", "CANCEL", "NIL",
                "BADREQUEST", "FARREQUEST", "BADHAVE"} : Plain(id) \in Message
  BY DEF Plain, Message
<1>2. \A p \in Pieces, b \in Blocks : Request(p, b) \in Message /\ Piece(p, b) \in Message
  BY DEF Request, Piece, Message
<1>3. \A m \in Message : m.id \in {"REQUEST", "PIECE"} => m.index \in Pieces /\ m.begin \in Blocks
  BY DEF Message
<1>4. OtherMessages \subseteq Message
  BY <1>1, <1>2 DEF OtherMessages
<1> QED
  BY <1>1, <1>2, <1>3, <1>4

\* A whole message at the head of a queue.
LEMMA HeadType ==
  ASSUME NEW S, NEW q \in Seq(S), q # <<>>
  PROVE  /\ Head(q) \in S /\ Head(q) = q[1]
         /\ Tail(q) \in Seq(S) /\ Len(Tail(q)) = Len(q) - 1
         /\ \A k \in 1 .. Len(q) - 1 : Tail(q)[k] = q[k + 1]
         /\ Len(q) \in Nat \ {0}
  OBVIOUS

\* The types hold at first.
LEMMA Initially == Init => TypeOK
<1> SUFFICES ASSUME Init PROVE TypeOK
  OBVIOUS
<1>1. (CHOOSE p \in Pieces : TRUE) \in Pieces
  BY ConstantsAssumption
<1>2. 0 \in 0 .. NumBlocks
  BY ConstantsAssumption
<1> QED
  BY <1>1, <1>2 DEF Init, TypeOK

\* Every step keeps the types.
LEMMA KeepsTypes == TypeOK /\ [Next]_vars => TypeOK'
<1> SUFFICES ASSUME TypeOK, [Next]_vars PROVE TypeOK'
  OBVIOUS
<1> USE ConstantsAssumption
<1>0. /\ toU \in [Clients -> Seq(Message)] /\ toD \in [Clients -> Seq(Message)]
      /\ open \in [Clients -> BOOLEAN]
  BY DEF TypeOK
<1>p. \A id \in {"HANDSHAKE", "BITFIELD", "UNCHOKE", "INTERESTED", "NOTINTERESTED", "HAVE"} :
         <<Plain(id)>> \in Seq(Message)
  BY MessageType
<1>1. ASSUME NEW c \in Clients, Accept(c) PROVE TypeOK'
  BY <1>1 DEF Accept, TypeOK, progress
<1>2. ASSUME NEW c \in Clients, Handshake(c) PROVE TypeOK'
  <2>1. <<Plain("HANDSHAKE"), Plain("BITFIELD"), Plain("UNCHOKE")>> \in Seq(Message)
    BY MessageType
  <2>2. toU' \in [Clients -> Seq(Message)] /\ toD' \in [Clients -> Seq(Message)]
    BY <1>0, <1>2, <2>1, QueueType DEF Handshake, Answer, Is
  <2> QED
    BY <1>2, <2>2 DEF Handshake, TypeOK, progress
<1>3. ASSUME NEW c \in Clients, HandleMessage(c) PROVE TypeOK'
  <2>1. Head(toU[c]) \in Message
    BY <1>0, <1>3, HeadType DEF HandleMessage
  <2>2. Head(toU[c]).id = "REQUEST" =>
          <<Piece(Head(toU[c]).index, Head(toU[c]).begin)>> \in Seq(Message)
    BY <2>1, MessageType
  <2>3. toD' \in [Clients -> Seq(Message)]
    BY <1>0, <1>3, <2>2, QueueType DEF HandleMessage, Answer
  <2>4. toU' \in [Clients -> Seq(Message)]
    <3>1. [toU EXCEPT ![c] = <<>>] \in [Clients -> Seq(Message)]
      BY <1>0
    <3>2. Read(toU, c) \in [Clients -> Seq(Message)]
      BY <1>0, <1>3, <1>p, QueueType DEF HandleMessage
    <3> QED
      BY <1>3, <3>1, <3>2 DEF HandleMessage
  <2>5. afterMessage(Head(toU[c]), uChoked[c]) \in BOOLEAN
    BY DEF afterMessage, TypeOK
  <2> QED
    BY <1>3, <2>3, <2>4, <2>5 DEF HandleMessage, TypeOK, progress
<1>4. ASSUME NEW c \in Clients, UploaderFails(c) PROVE TypeOK'
  <2>1. CASE MalformedRequest(c)
    <3>1. toU' \in [Clients -> Seq(Message)]
      BY <1>0, <1>p, <2>1, QueueType DEF MalformedRequest, Is
    <3> QED
      BY <2>1, <3>1 DEF MalformedRequest, Fail, TypeOK, progress
  <2>2. CASE HandlerFails(c) \/ WriteFatal(c) \/ FatalMessage(c)
    BY <2>2 DEF HandlerFails, Fail, WriteFatal, FatalMessage, Exit, TypeOK, progress
  <2> QED
    BY <1>4, <2>1, <2>2 DEF UploaderFails
<1>5. ASSUME NEW c \in Clients, Dial(c) PROVE TypeOK'
  BY <1>5 DEF Dial, TypeOK, progress, uploader
<1>6. ASSUME NEW c \in Clients, SendHandshake(c) PROVE TypeOK'
  <2>1. toU' \in [Clients -> Seq(Message)]
    BY <1>0, <1>6, <1>p, QueueType DEF SendHandshake
  <2> QED
    BY <1>6, <2>1 DEF SendHandshake, TypeOK, progress, uploader
<1>7. ASSUME NEW c \in Clients, RecvHandshake(c) PROVE TypeOK'
  <2>1. toD' \in [Clients -> Seq(Message)]
    BY <1>0, <1>7, <1>p, QueueType DEF RecvHandshake, Is
  <2> QED
    BY <1>7, <2>1 DEF RecvHandshake, TypeOK, progress, uploader
<1>8. ASSUME NEW c \in Clients, RecvBitfield(c) PROVE TypeOK'
  <2>1. <<Plain("UNCHOKE"), Plain("INTERESTED")>> \in Seq(Message)
    BY MessageType
  <2>2. toU' \in [Clients -> Seq(Message)] /\ toD' \in [Clients -> Seq(Message)]
    BY <1>0, <1>8, <2>1, QueueType DEF RecvBitfield, Is
  <2> QED
    BY <1>8, <2>2 DEF RecvBitfield, TypeOK, progress, uploader
<1>9. ASSUME NEW c \in Clients, StartPiece(c) PROVE TypeOK'
  <2>1. cur' \in [Clients -> Pieces]
    BY <1>9 DEF StartPiece, TypeOK
  <2>2. 0 \in 0 .. NumBlocks
    OBVIOUS
  <2> QED
    BY <1>9, <2>1, <2>2 DEF StartPiece, TypeOK, uploader
<1>10. ASSUME NEW c \in Clients, SendRequest(c) PROVE TypeOK'
  <2>1. requested[c] \in 0 .. NumBlocks /\ requested[c] < NumBlocks /\ cur[c] \in Pieces
        /\ pending[c] \in Int
    BY <1>10 DEF SendRequest, MayRequest, TypeOK
  <2>2. requested[c] \in Blocks /\ requested[c] + 1 \in 0 .. NumBlocks /\ pending[c] + 1 \in Int
    BY <2>1 DEF Blocks
  <2>3. <<Request(cur[c], requested[c])>> \in Seq(Message)
    BY <2>1, <2>2, MessageType
  <2>4. toU' \in [Clients -> Seq(Message)]
    BY <1>0, <1>10, <2>3, QueueType DEF SendRequest
  <2> QED
    BY <1>10, <2>2, <2>4 DEF SendRequest, TypeOK, uploader
<1>11. ASSUME NEW c \in Clients, RecvOther(c) PROVE TypeOK'
  <2>1. toD' \in [Clients -> Seq(Message)]
    BY <1>0, <1>11, <1>p, QueueType DEF RecvOther
  <2>2. afterMessage(Head(toD[c]), choked[c]) \in BOOLEAN
    BY DEF afterMessage, TypeOK
  <2> QED
    BY <1>11, <2>1, <2>2 DEF RecvOther, TypeOK, progress, uploader
<1>12. ASSUME NEW c \in Clients, RecvPiece(c) PROVE TypeOK'
  <2>1. toD' \in [Clients -> Seq(Message)]
    BY <1>0, <1>12, <1>p, QueueType DEF RecvPiece, Is
  <2>2. Head(toD[c]).begin \in Blocks
    BY <1>0, <1>12, HeadType, MessageType DEF RecvPiece, Is
  <2>3. downloaded[c] \in 0 .. NumBlocks /\ downloaded[c] < NumBlocks /\ pending[c] \in Int
    BY <1>12 DEF RecvPiece, InPiece, TypeOK
  <2>4. downloaded[c] + 1 \in 0 .. NumBlocks /\ pending[c] - 1 \in Int
    BY <2>3
  <2>5. CASE Head(toD[c]).index = cur[c]
    <3>1. /\ got' = [got EXCEPT ![c] = @ \cup {Head(toD[c]).begin}]
          /\ downloaded' = [downloaded EXCEPT ![c] = @ + 1]
          /\ pending' = [pending EXCEPT ![c] = @ - 1]
          /\ UNCHANGED <<dl, uploader, toU, open, choked, todo, cur, requested>>
      BY <1>12, <2>5 DEF RecvPiece
    <3>2. got' \in [Clients -> SUBSET Blocks]
      BY <3>1, <2>2 DEF TypeOK
    <3>3. downloaded' \in [Clients -> 0 .. NumBlocks]
      BY <3>1, <2>4 DEF TypeOK
    <3>4. pending' \in [Clients -> Int]
      BY <3>1, <2>4 DEF TypeOK
    <3> QED
      BY <2>1, <3>1, <3>2, <3>3, <3>4 DEF TypeOK, uploader
  <2>6. CASE Head(toD[c]).index # cur[c]
    BY <1>12, <2>1, <2>6 DEF RecvPiece, TypeOK, uploader
  <2> QED
    BY <2>5, <2>6
<1>13. ASSUME NEW c \in Clients, PieceDone(c) PROVE TypeOK'
  <2>1. toU' \in [Clients -> Seq(Message)]
    <3>1. toU' = Write(toU, c, <<Plain("HAVE")>>) \/ toU' = toU
      BY <1>13 DEF PieceDone
    <3>2. <<Plain("HAVE")>> \in Seq(Message)
      BY <1>p
    <3>3. Write(toU, c, <<Plain("HAVE")>>) \in [Clients -> Seq(Message)]
      BY <1>0, <3>2, QueueType
    <3> QED
      BY <1>0, <3>1, <3>3
  <2>2. todo' \in [Clients -> SUBSET Pieces]
    <3>1. todo' = [todo EXCEPT ![c] = @ \ {cur[c]}] \/ todo' = todo
      BY <1>13 DEF PieceDone
    <3>2. todo \in [Clients -> SUBSET Pieces]
      BY DEF TypeOK
    <3>3. todo[c] \ {cur[c]} \in SUBSET Pieces
      BY <3>2
    <3>4. CASE todo' = [todo EXCEPT ![c] = @ \ {cur[c]}]
      BY <3>2, <3>3, <3>4
    <3> QED
      BY <3>1, <3>2, <3>4
  <2> QED
    BY <1>13, <2>1, <2>2 DEF PieceDone, TypeOK, progress, uploader
<1>14. ASSUME NEW c \in Clients, Depart(c) PROVE TypeOK'
  <2>1. toU' \in [Clients -> Seq(Message)]
    BY <1>0, <1>14, <1>p, QueueType DEF Depart
  <2> QED
    BY <1>14, <2>1 DEF Depart, TypeOK, progress, uploader
<1>15. ASSUME NEW c \in Clients, Lose(c) PROVE TypeOK'
  BY <1>15 DEF Lose, TypeOK, progress, uploader
<1>16. ASSUME NEW c \in Clients, ConnError(c) PROVE TypeOK'
  <2>1. toD' \in [Clients -> Seq(Message)]
    BY <1>0, <1>16 DEF ConnError
  <2>2. dl' \in [Clients -> {"off", "dialing", "handshake", "bitfield", "select", "piece",
                             "other", "gone"}]
    BY ZenonT(30), <1>16 DEF ConnError, TypeOK
  <2> QED
    BY <1>16, <2>1, <2>2 DEF ConnError, TypeOK, progress, uploader
<1>17. ASSUME NEW c \in Clients, OtherWrites(c) PROVE TypeOK'
  <2>1. PICK m \in OtherMessages : toU' = Write(toU, c, <<m>>)
    BY <1>17 DEF OtherWrites
  <2>2. <<m>> \in Seq(Message)
    BY MessageType
  <2>3. toU' \in [Clients -> Seq(Message)]
    BY <1>0, <2>1, <2>2, QueueType
  <2> QED
    BY <1>17, <2>3 DEF OtherWrites, TypeOK, progress, uploader
<1>18. CASE UNCHANGED vars
  BY <1>18 DEF vars, TypeOK
<1> QED
  BY <1>1, <1>2, <1>3, <1>4, <1>5, <1>6, <1>7, <1>8, <1>9, <1>10, <1>11, <1>12, <1>13,
     <1>14, <1>15, <1>16, <1>17, <1>18
  DEF Next, UploaderStep, DownloaderStep

\* Every variable of the connections keeps its type, whoever is connected.
THEOREM TypeCorrect == Spec => []TypeOK
  BY Initially, KeepsTypes, PTL DEF Spec

-------------------------------------------------------------------------------
(* Counting the messages of a kind. *)

\* What stands before a position is counted by a number; the count grows by one
\* after a message of the kind.
LEMMA BeforeNext ==
  ASSUME NEW q, NEW id, NEW k \in Nat \ {0}
  PROVE  /\ Before(q, id, k) \in Nat
         /\ Before(q, id, 1) = 0
         /\ Before(q, id, k + 1) = Before(q, id, k) + (IF q[k].id = id THEN 1 ELSE 0)
<1> DEFINE B(n) == {j \in 1 .. n - 1 : q[j].id = id}
<1>1. IsFiniteSet(B(k))
  <2>1. IsFiniteSet(1 .. k - 1)
    BY FS_Interval
  <2> QED
    BY <2>1, FS_Subset
<1>2. Cardinality(B(k)) \in Nat
  BY <1>1, FS_CardinalityType
<1>3. Cardinality(B(1)) = 0
  <2>1. B(1) = {}
    OBVIOUS
  <2> QED
    BY <2>1, FS_EmptySet
<1>4. CASE q[k].id = id
  <2>1. B(k + 1) = B(k) \cup {k} /\ k \notin B(k)
    BY <1>4
  <2> QED
    BY <1>1, <1>2, <1>3, <1>4, <2>1, FS_AddElement DEF Before
<1>5. CASE q[k].id # id
  <2>1. B(k + 1) = B(k)
    BY <1>5
  <2> QED
    <3>1. Cardinality(B(k + 1)) = Cardinality(B(k))
      BY <2>1
    <3>2. Before(q, id, k + 1) = Before(q, id, k)
      BY <3>1 DEF Before
    <3>3. Before(q, id, k) \in Nat /\ Before(q, id, 1) = 0
      BY <1>2, <1>3 DEF Before
    <3> QED
      BY <1>5, <3>2, <3>3
<1> QED
  BY <1>4, <1>5

\* All of a queue is counted.
LEMMA NumberIs ==
  ASSUME NEW S, NEW q \in Seq(S), NEW id
  PROVE  Number(q, id) = Cardinality({j \in 1 .. Len(q) : q[j].id = id})
<1>1. Len(q) + 1 - 1 = Len(q)
  OBVIOUS
<1> QED
  BY <1>1 DEF Number, Before

\* None is counted where none is.
LEMMA NumberZero ==
  ASSUME NEW S, NEW q \in Seq(S), NEW id
  PROVE  /\ Number(q, id) \in Nat
         /\ Number(q, id) = 0 <=> \A k \in 1 .. Len(q) : q[k].id # id
<1> DEFINE B == {j \in 1 .. Len(q) : q[j].id = id}
<1>1. Number(q, id) = Cardinality(B)
  BY NumberIs
<1>2. IsFiniteSet(B)
  <2>1. IsFiniteSet(1 .. Len(q))
    BY FS_Interval
  <2> QED
    BY <2>1, FS_Subset
<1>3. Cardinality(B) \in Nat /\ (Cardinality(B) = 0 <=> B = {})
  BY <1>2, FS_CardinalityType, FS_EmptySet
<1> QED
  BY <1>1, <1>3

\* What is written comes after what is there.
LEMMA BeforeWrite ==
  ASSUME NEW S, NEW q \in Seq(S), NEW msgs \in Seq(S), NEW id, NEW k \in 1 .. Len(q) + 1
  PROVE  Before(q \o msgs, id, k) = Before(q, id, k)
<1>1. \A j \in 1 .. k - 1 : (q \o msgs)[j] = q[j]
  OBVIOUS
<1>2. {j \in 1 .. k - 1 : (q \o msgs)[j].id = id} = {j \in 1 .. k - 1 : q[j].id = id}
  BY <1>1
<1> QED
  BY <1>2 DEF Before

\* A message of the kind is one more.
LEMMA NumberWrite ==
  ASSUME NEW S, NEW q \in Seq(S), NEW m \in S, NEW id
  PROVE  Number(q \o <<m>>, id) = Number(q, id) + (IF m.id = id THEN 1 ELSE 0)
<1>1. Len(q \o <<m>>) = Len(q) + 1 /\ (q \o <<m>>)[Len(q) + 1] = m /\ Len(q) \in Nat
      /\ <<m>> \in Seq(S) /\ Len(q) + 1 \in Nat \ {0} /\ Len(q) + 1 \in 1 .. Len(q) + 1
  OBVIOUS
<1>2. Before(q \o <<m>>, id, Len(q) + 1) = Before(q, id, Len(q) + 1)
  BY <1>1, BeforeWrite
<1>3. Before(q \o <<m>>, id, Len(q) + 1 + 1)
        = Before(q \o <<m>>, id, Len(q) + 1) + (IF m.id = id THEN 1 ELSE 0)
  <2> HIDE DEF Before
  <2>1. (q \o <<m>>)[Len(q) + 1] = m
    BY <1>1
  <2>2. Before(q \o <<m>>, id, Len(q) + 1 + 1) = Before(q \o <<m>>, id, Len(q) + 1)
          + (IF (q \o <<m>>)[Len(q) + 1].id = id THEN 1 ELSE 0)
    BY <1>1, BeforeNext
  <2> QED
    BY <2>1, <2>2
<1> QED
  BY <1>1, <1>2, <1>3 DEF Number

\* Messages of other kinds do not count.
LEMMA NumberOthers ==
  ASSUME NEW S, NEW q \in Seq(S), NEW msgs \in Seq(S), NEW id,
         \A k \in 1 .. Len(msgs) : msgs[k].id # id
  PROVE  Number(q \o msgs, id) = Number(q, id)
<1>1. /\ Len(q \o msgs) = Len(q) + Len(msgs) /\ Len(q) \in Nat /\ Len(msgs) \in Nat
      /\ \A j \in 1 .. Len(q) : (q \o msgs)[j] = q[j]
      /\ \A j \in Len(q) + 1 .. Len(q) + Len(msgs) : (q \o msgs)[j] = msgs[j - Len(q)]
  OBVIOUS
<1>2. \A j \in Len(q) + 1 .. Len(q) + Len(msgs) : (q \o msgs)[j].id # id
  <2> SUFFICES ASSUME NEW j \in Len(q) + 1 .. Len(q) + Len(msgs)
               PROVE  (q \o msgs)[j].id # id
    OBVIOUS
  <2>1. j - Len(q) \in 1 .. Len(msgs)
    BY <1>1
  <2> QED
    BY <1>1, <2>1
<1>3. {j \in 1 .. Len(q \o msgs) : (q \o msgs)[j].id = id}
        = {j \in 1 .. Len(q) : q[j].id = id}
  BY <1>1, <1>2
<1>4. q \o msgs \in Seq(S)
  OBVIOUS
<1>5. Number(q \o msgs, id)
        = Cardinality({j \in 1 .. Len(q \o msgs) : (q \o msgs)[j].id = id})
  <2> DEFINE r == q \o msgs
  <2>1. r \in Seq(S)
    BY <1>4
  <2> HIDE DEF r
  <2>2. Number(r, id) = Cardinality({j \in 1 .. Len(r) : r[j].id = id})
    BY <2>1, NumberIs
  <2> QED
    BY <2>2 DEF r
<1> QED
  BY <1>3, <1>5, NumberIs

\* The head is read: what follows has one less before it, if it was of the kind.
LEMMA BeforeRead ==
  ASSUME NEW S, NEW q \in Seq(S), q # <<>>, NEW id, NEW k \in 1 .. Len(q)
  PROVE  Before(q, id, k + 1) = Before(Tail(q), id, k) + (IF Head(q).id = id THEN 1 ELSE 0)
<1> DEFINE A == {j \in 1 .. k - 1 : Tail(q)[j].id = id}
           C == {j \in 2 .. k : q[j].id = id}
           D == {j \in 1 .. k : q[j].id = id}
           f == [j \in A |-> j + 1]
<1>0. /\ Len(q) \in Nat /\ Head(q) = q[1] /\ k \in Nat
      /\ \A j \in 1 .. Len(q) - 1 : Tail(q)[j] = q[j + 1]
  BY HeadType
<1>1. IsFiniteSet(A)
  <2>1. IsFiniteSet(1 .. k - 1)
    BY FS_Interval
  <2> QED
    BY <2>1, FS_Subset
<1>2. f \in Bijection(A, C)
  <2>1. f \in [A -> C]
    BY <1>0
  <2>2. \A i, j \in A : f[i] = f[j] => i = j
    BY <1>0
  <2>3. \A j \in C : \E i \in A : f[i] = j
    <3> SUFFICES ASSUME NEW j \in C
                 PROVE  j - 1 \in A /\ f[j - 1] = j
      OBVIOUS
    <3>1. j - 1 \in 1 .. Len(q) - 1 /\ j - 1 + 1 = j
      BY <1>0
    <3>2. Tail(q)[j - 1] = q[j]
      BY <1>0, <3>1
    <3>3. j - 1 \in A
      BY <1>0, <3>2
    <3> QED
      BY <1>0, <3>3
  <2> QED
    BY <2>1, <2>2, <2>3 DEF Bijection, Injection, Surjection, IsInjective
<1>3. IsFiniteSet(C) /\ Cardinality(C) = Cardinality(A) /\ Cardinality(A) \in Nat
  <2>1. IsFiniteSet(C) /\ Cardinality(C) = Cardinality(A)
    <3> HIDE DEF A, C, f
    <3> QED
      BY <1>1, <1>2, FS_Bijection DEF ExistsBijection
  <2> QED
    BY <1>1, <2>1, FS_CardinalityType
<1>4. Before(q, id, k + 1) = Cardinality(D) /\ Before(Tail(q), id, k) = Cardinality(A)
  <2>1. k + 1 - 1 = k
    BY <1>0
  <2> QED
    BY <2>1 DEF Before
<1>5. CASE q[1].id = id
  <2>1. D = C \cup {1} /\ 1 \notin C
    BY <1>0, <1>5
  <2>2. Cardinality(D) = Cardinality(C) + 1
    BY <1>3, <2>1, FS_AddElement
  <2> QED
    BY <1>0, <1>3, <1>4, <1>5, <2>2
<1>6. CASE q[1].id # id
  <2>1. D = C
    BY <1>0, <1>6
  <2> QED
    <3>1. Before(q, id, k + 1) = Before(Tail(q), id, k) + 0
      <4>1. Cardinality(D) = Cardinality(C)
        BY <2>1
      <4> HIDE DEF A, C, D
      <4> QED
        BY <1>3, <1>4, <4>1
    <3> QED
      BY <1>0, <1>6, <3>1
<1> QED
  BY <1>5, <1>6

\* A message that is read counts no more.
LEMMA NumberRead ==
  ASSUME NEW S, NEW q \in Seq(S), q # <<>>, NEW id
  PROVE  Number(q, id) = Number(Tail(q), id) + (IF Head(q).id = id THEN 1 ELSE 0)
<1>1. Len(q) \in 1 .. Len(q) /\ Len(Tail(q)) + 1 = Len(q)
  BY HeadType
<1> QED
  BY <1>1, BeforeRead DEF Number

-------------------------------------------------------------------------------
(* What holds of the two queues of a connection. *)

\* At position k the uploader is unchoked, by then if not yet.
Free(q, ch, k) == ~ch \/ \E j \in 1 .. k - 1 : q[j].id = "UNCHOKE"

\* A peer of this client never chokes the uploader, and unchokes it before it
\* asks for a block.
Unchoking(q, ch, at) ==
  /\ \A k \in 1 .. Len(q) : q[k].id # "CHOKE"
  /\ at \in {"select", "piece"} => Free(q, ch, Len(q) + 1)
  /\ \A k \in 1 .. Len(q) : q[k].id = "REQUEST" => Free(q, ch, k)

\* Between two pieces nothing is asked for and nothing comes.
Quiet(qU, qD) ==
  /\ \A k \in 1 .. Len(qU) : qU[k].id # "REQUEST"
  /\ \A k \in 1 .. Len(qD) : qD[k].id # "PIECE"

\* Within piece p, r blocks are requested, n counted, w awaited and g written.
InHand(qU, qD, p, r, n, w, g) ==
  /\ w = Number(qU, "REQUEST") + Number(qD, "PIECE")
  /\ r = n + w
  /\ g = 0 .. n - 1
  /\ \A k \in 1 .. Len(qD) : qD[k].id = "PIECE" => qD[k] = Piece(p, n + Before(qD, "PIECE", k))
  /\ \A k \in 1 .. Len(qU) : qU[k].id = "REQUEST" =>
       qU[k] = Request(p, n + Number(qD, "PIECE") + Before(qU, "REQUEST", k))

\* A message is read: the uploader is unchoked at a request.
LEMMA UnchokingRead ==
  ASSUME NEW q \in Seq(Message), q # <<>>, NEW ch \in BOOLEAN, NEW at, Unchoking(q, ch, at)
  PROVE  /\ Unchoking(Tail(q), afterMessage(Head(q), ch), at)
         /\ Head(q).id = "REQUEST" => ~ch
<1>1. /\ Head(q) = q[1] /\ Len(Tail(q)) = Len(q) - 1 /\ Len(q) \in Nat \ {0}
      /\ \A k \in 1 .. Len(q) - 1 : Tail(q)[k] = q[k + 1]
  BY HeadType
<1>2. q[1].id # "CHOKE"
  BY <1>1 DEF Unchoking
<1>3. ASSUME NEW k \in 1 .. Len(q), Free(q, ch, k + 1)
      PROVE  Free(Tail(q), afterMessage(Head(q), ch), k)
  <2>1. CASE ~ch \/ q[1].id = "UNCHOKE"
    BY <1>1, <1>2, <2>1 DEF afterMessage, Free
  <2>2. CASE ch /\ q[1].id # "UNCHOKE"
    <3>1. PICK j \in 1 .. k + 1 - 1 : q[j].id = "UNCHOKE"
      BY <1>3, <2>2 DEF Free
    <3>2. j - 1 \in 1 .. k - 1 /\ j - 1 \in 1 .. Len(q) - 1 /\ j - 1 + 1 = j
      BY <1>1, <2>2, <3>1
    <3>3. Tail(q)[j - 1] = q[j]
      BY <1>1, <3>2
    <3> QED
      BY <3>1, <3>2, <3>3 DEF Free
  <2> QED
    BY <2>1, <2>2
<1>4. \A k \in 1 .. Len(Tail(q)) : Tail(q)[k].id # "CHOKE"
  BY <1>1 DEF Unchoking
<1>5. at \in {"select", "piece"} =>
        Free(Tail(q), afterMessage(Head(q), ch), Len(Tail(q)) + 1)
  <2>1. Len(q) \in 1 .. Len(q) /\ Len(Tail(q)) + 1 = Len(q)
    BY <1>1
  <2> QED
    BY <1>3, <2>1 DEF Unchoking
<1>6. ASSUME NEW k \in 1 .. Len(Tail(q)), Tail(q)[k].id = "REQUEST"
      PROVE  Free(Tail(q), afterMessage(Head(q), ch), k)
  <2>1. k \in 1 .. Len(q) /\ k + 1 \in 1 .. Len(q) /\ q[k + 1].id = "REQUEST"
    BY <1>1, <1>6
  <2> QED
    BY <1>3, <2>1 DEF Unchoking
<1>7. Head(q).id = "REQUEST" => ~ch
  <2>1. Head(q).id = "REQUEST" => Free(q, ch, 1)
    BY <1>1 DEF Unchoking
  <2> QED
    BY <2>1 DEF Free
<1> QED
  BY <1>4, <1>5, <1>6, <1>7 DEF Unchoking

\* Messages are written that are no CHOKE, requests only once it is unchoked.
LEMMA UnchokingWrite ==
  ASSUME NEW q \in Seq(Message), NEW msgs \in Seq(Message), NEW ch \in BOOLEAN, NEW at, NEW to,
         Unchoking(q, ch, at),
         \A k \in 1 .. Len(msgs) :
           /\ msgs[k].id # "CHOKE"
           /\ msgs[k].id = "REQUEST" => at \in {"select", "piece"},
         to \in {"select", "piece"} =>
           at \in {"select", "piece"} \/ \E k \in 1 .. Len(msgs) : msgs[k].id = "UNCHOKE"
  PROVE  Unchoking(q \o msgs, ch, to)
<1> DEFINE t == q \o msgs
<1>1. /\ Len(t) = Len(q) + Len(msgs) /\ Len(q) \in Nat /\ Len(msgs) \in Nat
      /\ \A j \in 1 .. Len(q) : t[j] = q[j]
      /\ \A j \in 1 .. Len(msgs) : t[Len(q) + j] = msgs[j]
  OBVIOUS
<1>2. \A k \in 1 .. Len(t) : k \in 1 .. Len(q) \/ k - Len(q) \in 1 .. Len(msgs)
  BY <1>1
<1>3. \A k \in 1 .. Len(t) : k \notin 1 .. Len(q) => t[k] = msgs[k - Len(q)]
  <2> SUFFICES ASSUME NEW k \in 1 .. Len(t), k \notin 1 .. Len(q)
               PROVE  t[k] = msgs[k - Len(q)]
    OBVIOUS
  <2>1. k - Len(q) \in 1 .. Len(msgs) /\ Len(q) + (k - Len(q)) = k
    BY <1>1
  <2> QED
    BY <1>1, <2>1
<1> HIDE DEF t
<1>4. \A k \in 1 .. Len(t) : t[k].id # "CHOKE"
  BY <1>1, <1>2, <1>3 DEF Unchoking
<1>5. ASSUME NEW k \in 1 .. Len(q) + 1, Free(q, ch, k), NEW l \in Nat, k <= l
      PROVE  Free(t, ch, l)
  <2> SUFFICES ASSUME NEW j \in 1 .. k - 1, q[j].id = "UNCHOKE"
               PROVE  \E i \in 1 .. l - 1 : t[i].id = "UNCHOKE"
    BY <1>5 DEF Free
  <2>1. j \in 1 .. l - 1 /\ t[j].id = "UNCHOKE"
    BY <1>1, <1>5
  <2> QED
    BY <2>1
<1>6. to \in {"select", "piece"} => Free(t, ch, Len(t) + 1)
  <2>1. CASE at \in {"select", "piece"}
    <3>1. Free(q, ch, Len(q) + 1)
      BY <2>1 DEF Unchoking
    <3>2. Len(q) + 1 \in 1 .. Len(q) + 1 /\ Len(t) + 1 \in Nat /\ Len(q) + 1 <= Len(t) + 1
      BY <1>1
    <3> QED
      BY <1>5, <3>1, <3>2
  <2>2. ASSUME NEW k \in 1 .. Len(msgs), msgs[k].id = "UNCHOKE"
        PROVE  Free(t, ch, Len(t) + 1)
    <3>1. Len(q) + k \in 1 .. Len(t) + 1 - 1 /\ t[Len(q) + k].id = "UNCHOKE"
      BY <1>1, <2>2
    <3> QED
      BY <3>1 DEF Free
  <2> QED
    BY <2>1, <2>2
<1>7. ASSUME NEW k \in 1 .. Len(t), t[k].id = "REQUEST"
      PROVE  Free(t, ch, k)
  <2>1. CASE k \in 1 .. Len(q)
    <3>1. Free(q, ch, k) /\ k \in 1 .. Len(q) + 1 /\ k \in Nat
      BY <1>1, <1>7, <2>1 DEF Unchoking
    <3> QED
      BY <1>5, <3>1
  <2>2. CASE k \notin 1 .. Len(q)
    <3>1. at \in {"select", "piece"}
      BY <1>2, <1>3, <1>7, <2>2
    <3>2. Free(q, ch, Len(q) + 1)
      BY <3>1 DEF Unchoking
    <3>3. Len(q) + 1 \in 1 .. Len(q) + 1 /\ k \in Nat /\ Len(q) + 1 <= k
      BY <1>1, <2>2
    <3> QED
      BY <1>5, <3>2, <3>3
  <2> QED
    BY <2>1, <2>2
<1> QED
  BY <1>4, <1>6, <1>7 DEF Unchoking, t

\* Between two pieces, reading and writing other messages changes nothing.
LEMMA QuietRead ==
  ASSUME NEW qU \in Seq(Message), NEW qD \in Seq(Message), Quiet(qU, qD)
  PROVE  /\ qU # <<>> => Quiet(Tail(qU), qD) /\ Head(qU).id # "REQUEST"
         /\ qD # <<>> => Quiet(qU, Tail(qD)) /\ Head(qD).id # "PIECE"
  BY HeadType DEF Quiet

\* Messages that are neither requests nor blocks leave a connection quiet.
LEMMA QuietWrite ==
  ASSUME NEW qU \in Seq(Message), NEW qD \in Seq(Message), Quiet(qU, qD),
         NEW msgs \in Seq(Message),
         \A k \in 1 .. Len(msgs) : msgs[k].id \notin {"REQUEST", "PIECE"}
  PROVE  Quiet(qU \o msgs, qD) /\ Quiet(qU, qD \o msgs)
<1>1. ASSUME NEW q \in Seq(Message), NEW id \in {"REQUEST", "PIECE"},
             \A k \in 1 .. Len(q) : q[k].id # id
      PROVE  \A k \in 1 .. Len(q \o msgs) : (q \o msgs)[k].id # id
  <2>1. Number(q \o msgs, id) = Number(q, id)
    BY NumberOthers
  <2>2. q \o msgs \in Seq(Message)
    OBVIOUS
  <2> QED
    BY <1>1, <2>1, <2>2, NumberZero
<1> QED
  BY <1>1 DEF Quiet

\* A piece begins on a quiet connection, and leaves one when it is whole.
LEMMA PieceBegins ==
  ASSUME NEW qU \in Seq(Message), NEW qD \in Seq(Message), NEW p, Quiet(qU, qD)
  PROVE  InHand(qU, qD, p, 0, 0, 0, {})
<1>1. Number(qU, "REQUEST") = 0 /\ Number(qD, "PIECE") = 0
  BY NumberZero DEF Quiet
<1> QED
  BY <1>1 DEF InHand, Quiet

\* When each block of a piece came the connection is quiet.
LEMMA PieceEnds ==
  ASSUME NEW qU \in Seq(Message), NEW qD \in Seq(Message), NEW p, NEW w, NEW g,
         NEW r \in 0 .. NumBlocks, NEW n \in 0 .. NumBlocks, n >= NumBlocks,
         InHand(qU, qD, p, r, n, w, g)
  PROVE  Quiet(qU, qD)
<1>1. Number(qU, "REQUEST") \in Nat /\ Number(qD, "PIECE") \in Nat
  BY NumberZero
<1>2. Number(qU, "REQUEST") = 0 /\ Number(qD, "PIECE") = 0
  <2>1. r = n + (Number(qU, "REQUEST") + Number(qD, "PIECE"))
    BY DEF InHand
  <2> QED
    BY <1>1, <2>1, ConstantsAssumption
<1> QED
  BY <1>2, NumberZero DEF Quiet

\* SendRequest: the next block is asked for.
LEMMA BlockAsked ==
  ASSUME NEW qU \in Seq(Message), NEW qD \in Seq(Message), NEW p \in Pieces, NEW w, NEW g,
         NEW r \in Blocks, NEW n \in Nat, InHand(qU, qD, p, r, n, w, g)
  PROVE  InHand(qU \o <<Request(p, r)>>, qD, p, r + 1, n, w + 1, g)
<1> DEFINE m == Request(p, r)
           t == qU \o <<m>>
           back == Number(qD, "PIECE")
<1>1. m \in Message /\ m.id = "REQUEST" /\ <<m>> \in Seq(Message)
  BY MessageType DEF Request
<1>2. /\ Len(t) = Len(qU) + 1 /\ Len(qU) \in Nat /\ t[Len(qU) + 1] = m
      /\ \A k \in 1 .. Len(qU) : t[k] = qU[k]
  OBVIOUS
<1>3. Number(qU, "REQUEST") \in Nat /\ back \in Nat
  BY NumberZero
<1>4. Number(t, "REQUEST") = Number(qU, "REQUEST") + 1
  BY <1>1, NumberWrite
<1>5. \A k \in 1 .. Len(qU) + 1 : Before(t, "REQUEST", k) = Before(qU, "REQUEST", k)
  BY <1>1, BeforeWrite
<1>6. /\ w = Number(qU, "REQUEST") + back
      /\ r = n + w /\ g = 0 .. n - 1
      /\ \A k \in 1 .. Len(qD) : qD[k].id = "PIECE" => qD[k] = Piece(p, n + Before(qD, "PIECE", k))
      /\ \A k \in 1 .. Len(qU) : qU[k].id = "REQUEST" =>
           qU[k] = Request(p, n + back + Before(qU, "REQUEST", k))
  BY DEF InHand
<1>7. m = Request(p, n + back + Before(t, "REQUEST", Len(qU) + 1))
  <2>1. Before(t, "REQUEST", Len(qU) + 1) = Number(qU, "REQUEST")
    <3>1. Len(qU) + 1 \in 1 .. Len(qU) + 1
      BY <1>2
    <3> QED
      BY <1>5, <3>1 DEF Number
  <2>2. r = n + back + Number(qU, "REQUEST")
    BY <1>3, <1>6
  <2> QED
    BY <2>1, <2>2
<1> HIDE DEF m, t, back
<1>8. \A k \in 1 .. Len(t) : t[k].id = "REQUEST" =>
           t[k] = Request(p, n + back + Before(t, "REQUEST", k))
  <2> SUFFICES ASSUME NEW k \in 1 .. Len(t), t[k].id = "REQUEST"
               PROVE  t[k] = Request(p, n + back + Before(t, "REQUEST", k))
    OBVIOUS
  <2>1. k \in 1 .. Len(qU) \/ k = Len(qU) + 1
    BY <1>2
  <2> QED
    BY <1>2, <1>5, <1>6, <1>7, <2>1
<1>9. w + 1 = Number(t, "REQUEST") + back /\ r + 1 = n + (w + 1)
  <2>1. w = Number(qU, "REQUEST") + back /\ r = n + w
    BY <1>6
  <2>2. w \in Nat
    BY <1>3, <2>1
  <2> QED
    BY SMTT(30), <1>3, <1>4, <2>1, <2>2
<1> QED
  BY <1>6, <1>8, <1>9 DEF InHand, m, t, back

\* HandleRequest: the request at the head is answered with its block.
LEMMA BlockServed ==
  ASSUME NEW qU \in Seq(Message), NEW qD \in Seq(Message), NEW p, NEW w, NEW g,
         NEW r, NEW n \in Nat, InHand(qU, qD, p, r, n, w, g),
         qU # <<>>, Head(qU).id = "REQUEST"
  PROVE  InHand(Tail(qU), qD \o <<Piece(Head(qU).index, Head(qU).begin)>>, p, r, n, w, g)
<1> DEFINE m == Piece(Head(qU).index, Head(qU).begin)
           t == qD \o <<m>>
           back == Number(qD, "PIECE")
<1>1. m \in Message /\ m.id = "PIECE" /\ <<m>> \in Seq(Message)
  <2>1. Head(qU) \in Message
    BY HeadType
  <2> QED
    BY <2>1, MessageType DEF Piece
<1>2. /\ Len(t) = Len(qD) + 1 /\ Len(qD) \in Nat /\ t[Len(qD) + 1] = m
      /\ \A k \in 1 .. Len(qD) : t[k] = qD[k]
  OBVIOUS
<1>3. Number(Tail(qU), "REQUEST") \in Nat /\ back \in Nat
  BY HeadType, NumberZero
<1>4. Number(qU, "REQUEST") = Number(Tail(qU), "REQUEST") + 1
  BY NumberRead
<1>5. Number(t, "PIECE") = back + 1
  BY <1>1, NumberWrite
<1>6. /\ w = Number(qU, "REQUEST") + back
      /\ r = n + w /\ g = 0 .. n - 1
      /\ \A k \in 1 .. Len(qD) : qD[k].id = "PIECE" => qD[k] = Piece(p, n + Before(qD, "PIECE", k))
      /\ \A k \in 1 .. Len(qU) : qU[k].id = "REQUEST" =>
           qU[k] = Request(p, n + back + Before(qU, "REQUEST", k))
  BY DEF InHand
<1>7. m = Piece(p, n + back)
  <2>1. Head(qU) = qU[1] /\ 1 \in 1 .. Len(qU)
    BY HeadType
  <2>2. Before(qU, "REQUEST", 1) = 0
    BY BeforeNext
  <2>3. Head(qU) = Request(p, n + back + 0)
    BY <1>6, <2>1, <2>2
  <2>4. n + back + 0 = n + back
    BY <1>3
  <2> QED
    BY <2>3, <2>4 DEF Request
<1>8. \A k \in 1 .. Len(qD) + 1 : Before(t, "PIECE", k) = Before(qD, "PIECE", k)
  BY <1>1, BeforeWrite
<1>9. /\ Len(Tail(qU)) = Len(qU) - 1 /\ Len(qU) \in Nat
      /\ \A k \in 1 .. Len(qU) - 1 : Tail(qU)[k] = qU[k + 1]
  BY HeadType
<1>10. \A k \in 1 .. Len(qU) :
         Before(qU, "REQUEST", k + 1) = Before(Tail(qU), "REQUEST", k) + 1
  BY BeforeRead
<1>11. \A k \in 1 .. Len(qU) : Before(Tail(qU), "REQUEST", k) \in Nat
  BY BeforeNext
<1>12. Before(t, "PIECE", Len(qD) + 1) = back
  <2>1. Len(qD) + 1 \in 1 .. Len(qD) + 1
    BY <1>2
  <2> QED
    BY <1>8, <2>1 DEF Number
<1> HIDE DEF m, t, back
<1>13. \A k \in 1 .. Len(t) : t[k].id = "PIECE" => t[k] = Piece(p, n + Before(t, "PIECE", k))
  <2> SUFFICES ASSUME NEW k \in 1 .. Len(t), t[k].id = "PIECE"
               PROVE  t[k] = Piece(p, n + Before(t, "PIECE", k))
    OBVIOUS
  <2>1. k \in 1 .. Len(qD) \/ k = Len(qD) + 1
    BY <1>2
  <2> QED
    BY <1>2, <1>6, <1>7, <1>8, <1>12, <2>1
<1>14. \A k \in 1 .. Len(Tail(qU)) : Tail(qU)[k].id = "REQUEST" =>
         Tail(qU)[k] = Request(p, n + Number(t, "PIECE") + Before(Tail(qU), "REQUEST", k))
  <2> SUFFICES ASSUME NEW k \in 1 .. Len(Tail(qU)), Tail(qU)[k].id = "REQUEST"
               PROVE  Tail(qU)[k]
                        = Request(p, n + Number(t, "PIECE") + Before(Tail(qU), "REQUEST", k))
    OBVIOUS
  <2>1. k \in 1 .. Len(qU) /\ k + 1 \in 1 .. Len(qU) /\ Tail(qU)[k] = qU[k + 1]
    BY <1>9
  <2>2. qU[k + 1] = Request(p, n + back + Before(qU, "REQUEST", k + 1))
    BY <1>6, <2>1
  <2>3. n + back + Before(qU, "REQUEST", k + 1)
          = n + Number(t, "PIECE") + Before(Tail(qU), "REQUEST", k)
    BY <1>3, <1>5, <1>10, <1>11, <2>1
  <2> QED
    BY <2>1, <2>2, <2>3
<1>15. w = Number(Tail(qU), "REQUEST") + Number(t, "PIECE")
  BY <1>3, <1>4, <1>5, <1>6
<1> QED
  BY <1>6, <1>13, <1>14, <1>15 DEF InHand, m, t

\* RecvPiece: the block at the head is the next one of the piece in hand.
LEMMA BlockTaken ==
  ASSUME NEW qU \in Seq(Message), NEW qD \in Seq(Message), NEW p, NEW w, NEW g,
         NEW r, NEW n \in Nat, InHand(qU, qD, p, r, n, w, g),
         qD # <<>>, Head(qD).id = "PIECE"
  PROVE  /\ Head(qD) = Piece(p, n)
         /\ InHand(qU, Tail(qD), p, r, n + 1, w - 1, g \cup {n})
<1> DEFINE back == Number(Tail(qD), "PIECE")
<1>1. /\ w = Number(qU, "REQUEST") + Number(qD, "PIECE")
      /\ r = n + w /\ g = 0 .. n - 1
      /\ \A k \in 1 .. Len(qD) : qD[k].id = "PIECE" => qD[k] = Piece(p, n + Before(qD, "PIECE", k))
      /\ \A k \in 1 .. Len(qU) : qU[k].id = "REQUEST" =>
           qU[k] = Request(p, n + Number(qD, "PIECE") + Before(qU, "REQUEST", k))
  BY DEF InHand
<1>2. Number(qU, "REQUEST") \in Nat /\ back \in Nat /\ Number(qD, "PIECE") = back + 1
  BY HeadType, NumberZero, NumberRead
<1>3. /\ Len(Tail(qD)) = Len(qD) - 1 /\ Len(qD) \in Nat
      /\ \A k \in 1 .. Len(qD) - 1 : Tail(qD)[k] = qD[k + 1]
  BY HeadType
<1>4. \A k \in 1 .. Len(qD) : /\ Before(qD, "PIECE", k + 1) = Before(Tail(qD), "PIECE", k) + 1
                              /\ Before(Tail(qD), "PIECE", k) \in Nat
  <2> SUFFICES ASSUME NEW k \in 1 .. Len(qD)
               PROVE  /\ Before(qD, "PIECE", k + 1) = Before(Tail(qD), "PIECE", k) + 1
                      /\ Before(Tail(qD), "PIECE", k) \in Nat
    OBVIOUS
  <2>1. k \in Nat \ {0}
    BY <1>3
  <2>2. Before(Tail(qD), "PIECE", k) \in Nat
    BY <2>1, BeforeNext
  <2> QED
    BY <2>2, BeforeRead
<1>5. Head(qD) = Piece(p, n)
  <2>1. Head(qD) = qD[1] /\ 1 \in 1 .. Len(qD)
    BY HeadType
  <2>2. Before(qD, "PIECE", 1) = 0
    BY BeforeNext
  <2>3. Head(qD) = Piece(p, n + 0) /\ n + 0 = n
    BY <1>1, <2>1, <2>2
  <2> QED
    BY <2>3
<1> HIDE DEF back
<1>6. \A k \in 1 .. Len(Tail(qD)) : Tail(qD)[k].id = "PIECE" =>
        Tail(qD)[k] = Piece(p, n + 1 + Before(Tail(qD), "PIECE", k))
  <2> SUFFICES ASSUME NEW k \in 1 .. Len(Tail(qD)), Tail(qD)[k].id = "PIECE"
               PROVE  Tail(qD)[k] = Piece(p, n + 1 + Before(Tail(qD), "PIECE", k))
    OBVIOUS
  <2>1. k \in 1 .. Len(qD) /\ k + 1 \in 1 .. Len(qD) /\ Tail(qD)[k] = qD[k + 1]
    BY <1>3
  <2>2. qD[k + 1] = Piece(p, n + Before(qD, "PIECE", k + 1))
    BY <1>1, <2>1
  <2>3. n + Before(qD, "PIECE", k + 1) = n + 1 + Before(Tail(qD), "PIECE", k)
    BY <1>4, <2>1
  <2> QED
    BY <2>1, <2>2, <2>3
<1>7. \A k \in 1 .. Len(qU) : qU[k].id = "REQUEST" =>
        qU[k] = Request(p, n + 1 + back + Before(qU, "REQUEST", k))
  <2>1. n + Number(qD, "PIECE") = n + 1 + back
    BY <1>2
  <2> QED
    BY <1>1, <2>1
<1>8. /\ w - 1 = Number(qU, "REQUEST") + back
      /\ r = n + 1 + (w - 1)
      /\ g \cup {n} = 0 .. n + 1 - 1
  <2>1. w = Number(qU, "REQUEST") + (back + 1)
    BY <1>1, <1>2
  <2>2. w \in Nat /\ w - 1 = Number(qU, "REQUEST") + back
    BY <1>2, <2>1
  <2>3. r = n + 1 + (w - 1)
    BY <1>1, <2>2
  <2>4. g \cup {n} = 0 .. n + 1 - 1
    BY <1>1
  <2> QED
    BY <2>2, <2>3, <2>4
<1> QED
  BY <1>5, <1>6, <1>7, <1>8 DEF InHand, back

\* Other messages are read, or come back: the blocks stay where they are.
LEMMA OtherRead ==
  ASSUME NEW qU \in Seq(Message), NEW qD \in Seq(Message), NEW p, NEW w, NEW g,
         NEW r, NEW n \in Nat, InHand(qU, qD, p, r, n, w, g)
  PROVE  /\ qU # <<>> /\ Head(qU).id # "REQUEST" => InHand(Tail(qU), qD, p, r, n, w, g)
         /\ qD # <<>> /\ Head(qD).id # "PIECE" => InHand(qU, Tail(qD), p, r, n, w, g)
<1>0. /\ w = Number(qU, "REQUEST") + Number(qD, "PIECE")
      /\ r = n + w /\ g = 0 .. n - 1
      /\ \A k \in 1 .. Len(qD) : qD[k].id = "PIECE" => qD[k] = Piece(p, n + Before(qD, "PIECE", k))
      /\ \A k \in 1 .. Len(qU) : qU[k].id = "REQUEST" =>
           qU[k] = Request(p, n + Number(qD, "PIECE") + Before(qU, "REQUEST", k))
  BY DEF InHand
<1>1. ASSUME NEW q \in Seq(Message), NEW id, q # <<>>, Head(q).id # id
      PROVE  /\ Number(q, id) = Number(Tail(q), id)
             /\ Len(Tail(q)) = Len(q) - 1 /\ Len(q) \in Nat
             /\ \A k \in 1 .. Len(q) - 1 :
                  Tail(q)[k] = q[k + 1] /\ Before(q, id, k + 1) = Before(Tail(q), id, k)
  <2>1. /\ Len(Tail(q)) = Len(q) - 1 /\ Len(q) \in Nat
        /\ \A k \in 1 .. Len(q) - 1 : Tail(q)[k] = q[k + 1]
    BY <1>1, HeadType
  <2>2. \A k \in 1 .. Len(q) : Before(Tail(q), id, k) \in Nat
    BY <2>1, BeforeNext
  <2>3. \A k \in 1 .. Len(q) : Before(q, id, k + 1) = Before(Tail(q), id, k) + 0
    BY <1>1, BeforeRead
  <2>4. \A k \in 1 .. Len(q) : Before(q, id, k + 1) = Before(Tail(q), id, k)
    BY <2>2, <2>3
  <2>5. Number(Tail(q), id) \in Nat /\ Number(q, id) = Number(Tail(q), id) + 0
    BY <1>1, HeadType, NumberRead, NumberZero
  <2> QED
    BY <2>1, <2>4, <2>5
<1>2. ASSUME qU # <<>>, Head(qU).id # "REQUEST"
      PROVE  InHand(Tail(qU), qD, p, r, n, w, g)
  <2>1. \A k \in 1 .. Len(Tail(qU)) : Tail(qU)[k].id = "REQUEST" =>
          Tail(qU)[k] = Request(p, n + Number(qD, "PIECE") + Before(Tail(qU), "REQUEST", k))
    <3> SUFFICES ASSUME NEW k \in 1 .. Len(Tail(qU)), Tail(qU)[k].id = "REQUEST"
                 PROVE  Tail(qU)[k]
                          = Request(p, n + Number(qD, "PIECE") + Before(Tail(qU), "REQUEST", k))
      OBVIOUS
    <3>1. k \in 1 .. Len(qU) - 1 /\ k + 1 \in 1 .. Len(qU)
      BY <1>1, <1>2
    <3> QED
      BY <1>0, <1>1, <1>2, <3>1
  <2> QED
    BY <1>0, <1>1, <1>2, <2>1 DEF InHand
<1>3. ASSUME qD # <<>>, Head(qD).id # "PIECE"
      PROVE  InHand(qU, Tail(qD), p, r, n, w, g)
  <2>1. \A k \in 1 .. Len(Tail(qD)) : Tail(qD)[k].id = "PIECE" =>
          Tail(qD)[k] = Piece(p, n + Before(Tail(qD), "PIECE", k))
    <3> SUFFICES ASSUME NEW k \in 1 .. Len(Tail(qD)), Tail(qD)[k].id = "PIECE"
                 PROVE  Tail(qD)[k] = Piece(p, n + Before(Tail(qD), "PIECE", k))
      OBVIOUS
    <3>1. k \in 1 .. Len(qD) - 1 /\ k + 1 \in 1 .. Len(qD)
      BY <1>1, <1>3
    <3> QED
      BY <1>0, <1>1, <1>3, <3>1
  <2> QED
    BY <1>0, <1>1, <1>3, <2>1 DEF InHand
<1> QED
  BY <1>2, <1>3

\* An answer that is no block changes nothing about the piece in hand.
LEMMA OtherAnswer ==
  ASSUME NEW qU \in Seq(Message), NEW qD \in Seq(Message), NEW p, NEW w, NEW g,
         NEW r, NEW n \in Nat, InHand(qU, qD, p, r, n, w, g),
         NEW msgs \in Seq(Message), \A k \in 1 .. Len(msgs) : msgs[k].id # "PIECE"
  PROVE  InHand(qU, qD \o msgs, p, r, n, w, g)
<1> DEFINE t == qD \o msgs
<1>1. Number(t, "PIECE") = Number(qD, "PIECE")
  BY NumberOthers
<1>2. /\ Len(t) = Len(qD) + Len(msgs) /\ Len(qD) \in Nat /\ Len(msgs) \in Nat
      /\ \A j \in 1 .. Len(qD) : t[j] = qD[j]
      /\ \A j \in Len(qD) + 1 .. Len(qD) + Len(msgs) : t[j] = msgs[j - Len(qD)]
  OBVIOUS
<1>3. \A k \in 1 .. Len(qD) : Before(t, "PIECE", k) = Before(qD, "PIECE", k)
  BY <1>2, BeforeWrite
<1>4. \A k \in 1 .. Len(qD) : qD[k].id = "PIECE" => qD[k] = Piece(p, n + Before(qD, "PIECE", k))
  BY DEF InHand
<1> HIDE DEF t
<1>5. \A k \in 1 .. Len(t) : t[k].id = "PIECE" => t[k] = Piece(p, n + Before(t, "PIECE", k))
  <2> SUFFICES ASSUME NEW k \in 1 .. Len(t), t[k].id = "PIECE"
               PROVE  t[k] = Piece(p, n + Before(t, "PIECE", k))
    OBVIOUS
  <2>1. CASE k \in 1 .. Len(qD)
    BY <1>2, <1>3, <1>4, <2>1
  <2>2. CASE k \notin 1 .. Len(qD)
    <3>1. k \in Len(qD) + 1 .. Len(qD) + Len(msgs) /\ k - Len(qD) \in 1 .. Len(msgs)
      BY <1>2, <2>2
    <3> QED
      BY <1>2, <3>1
  <2> QED
    BY <2>1, <2>2
<1> QED
  BY <1>1, <1>5 DEF InHand, t

-------------------------------------------------------------------------------
(* A connection that holds. *)

Held(c) ==
  /\ Unchoking(toU[c], uChoked[c], dl[c])
  /\ IF dl[c] = "piece"
     THEN InHand(toU[c], toD[c], cur[c], requested[c], downloaded[c], pending[c], got[c])
     ELSE Quiet(toU[c], toD[c])

\* The inductive invariant.  AwaitedOnTheWay and BlocksInOrder are not inductive
\* as they stand: a step of the uploader keeps them only if it is not choked when
\* it reads a request (Unchoking), and a piece begins with them only if nothing
\* is left of the one before (Quiet).
WireInv ==
  /\ TypeOK
  /\ \A c \in Ours : dl[c] # "other" /\ (open[c] => Held(c))

\* What another peer does leaves a connection alone.
LEMMA HeldFrame ==
  ASSUME NEW c \in Clients, Held(c), TypeOK,
         toU'[c] = toU[c], toD'[c] = toD[c], uChoked'[c] = uChoked[c], dl'[c] = dl[c],
         cur'[c] = cur[c], requested'[c] = requested[c], downloaded'[c] = downloaded[c],
         pending'[c] = pending[c], got'[c] = got[c]
  PROVE  Held(c)'
  BY DEF Held

\* Before and after, but not within a piece.
LEMMA HeldQuiet ==
  ASSUME NEW c \in Clients, dl'[c] # "piece",
         Unchoking(toU'[c], uChoked'[c], dl'[c]), Quiet(toU'[c], toD'[c])
  PROVE  Held(c)'
  BY DEF Held

\* The invariant says what the properties say.
LEMMA HeldInOrder ==
  ASSUME TypeOK, NEW c \in Clients, dl[c] = "piece", Held(c)
  PROVE  Awaited(c) /\ InOrder(c)
<1>1. InHand(toU[c], toD[c], cur[c], requested[c], downloaded[c], pending[c], got[c])
  BY DEF Held
<1>2. toU[c] \in Seq(Message) /\ toD[c] \in Seq(Message) /\ downloaded[c] \in Nat
  BY ConstantsAssumption DEF TypeOK
<1>3. Number(toU[c], "REQUEST") \in Nat /\ Number(toD[c], "PIECE") \in Nat
  BY <1>2, NumberZero
<1>4. requested[c] = downloaded[c] + Number(toD[c], "PIECE") + Number(toU[c], "REQUEST")
  BY <1>1, <1>2, <1>3 DEF InHand
<1> QED
  BY <1>1, <1>4 DEF InHand, Awaited, InOrder

\* A step is a step of one connection; a connection that is gone stays gone.
Step(c) ==
  \/ UploaderStep(c) \/ UploaderFails(c)
  \/ Dial(c) \/ SendHandshake(c) \/ Lose(c)
  \/ DownloaderStep(c) \/ ConnError(c)
  \/ OtherWrites(c)

\* A step for one peer leaves the connections of the others alone.
LEMMA Elsewhere ==
  ASSUME TypeOK, NEW c \in Clients, NEW d \in Clients, c # d, Step(c)
  PROVE  /\ open'[d] => open[d]
         /\ toU'[d] = toU[d] /\ toD'[d] = toD[d] /\ uChoked'[d] = uChoked[d] /\ dl'[d] = dl[d]
         /\ cur'[d] = cur[d] /\ requested'[d] = requested[d] /\ downloaded'[d] = downloaded[d]
         /\ pending'[d] = pending[d] /\ got'[d] = got[d]
<1>0. /\ DOMAIN open = Clients /\ DOMAIN toU = Clients /\ DOMAIN toD = Clients
      /\ DOMAIN uChoked = Clients /\ DOMAIN dl = Clients /\ DOMAIN cur = Clients
      /\ DOMAIN requested = Clients /\ DOMAIN downloaded = Clients
      /\ DOMAIN pending = Clients /\ DOMAIN got = Clients
  BY DEF TypeOK
<1>1. CASE UploaderStep(c)
  BY <1>0, <1>1
  DEF UploaderStep, Accept, Handshake, HandleMessage, Answer, Write, Read, progress
<1>2. CASE UploaderFails(c)
  BY <1>0, <1>2 DEF UploaderFails, HandlerFails, MalformedRequest, WriteFatal, FatalMessage,
                    Exit, Read, progress
<1>3. CASE Dial(c) \/ SendHandshake(c) \/ Lose(c)
  BY <1>0, <1>3 DEF Dial, SendHandshake, Lose, Write, progress, uploader
<1>4. CASE DownloaderStep(c)
  <2>1. CASE RecvHandshake(c) \/ RecvBitfield(c) \/ StartPiece(c) \/ SendRequest(c) \/ RecvOther(c)
    BY <1>0, <2>1
    DEF RecvHandshake, RecvBitfield, StartPiece, SendRequest, RecvOther, Write, Read,
        progress, uploader
  <2>2. CASE RecvPiece(c)
    BY <1>0, <2>2 DEF RecvPiece, Read, uploader
  <2>3. CASE PieceDone(c) \/ Depart(c)
    BY <1>0, <2>3 DEF PieceDone, Depart, Write, progress, uploader
  <2> QED
    BY <1>4, <2>1, <2>2, <2>3 DEF DownloaderStep
<1>5. CASE ConnError(c)
  BY <1>0, <1>5 DEF ConnError, progress, uploader
<1>6. CASE OtherWrites(c)
  BY <1>0, <1>6 DEF OtherWrites, Write, progress, uploader
<1> QED
  BY <1>1, <1>2, <1>3, <1>4, <1>5, <1>6 DEF Step

\* The uploader keeps a connection that holds.
LEMMA UploaderKeeps ==
  ASSUME TypeOK, NEW c \in Ours, open[c], Held(c), open'[c],
         UploaderStep(c) \/ UploaderFails(c)
  PROVE  Held(c)' /\ dl'[c] = dl[c]
<1>0. /\ c \in Clients /\ toU \in [Clients -> Seq(Message)] /\ toD \in [Clients -> Seq(Message)]
      /\ uChoked \in [Clients -> BOOLEAN]
  BY DEF TypeOK, Clients
<1>t. /\ toU[c] \in Seq(Message) /\ toD[c] \in Seq(Message) /\ uChoked[c] \in BOOLEAN
      /\ downloaded[c] \in Nat
  BY <1>0, ConstantsAssumption DEF TypeOK
<1>1. CASE Accept(c) \/ HandlerFails(c)
  BY <1>0, <1>1, HeldFrame DEF Accept, HandlerFails, progress
<1>2. CASE WriteFatal(c) \/ FatalMessage(c)
  BY <1>0, <1>2 DEF WriteFatal, FatalMessage, Exit
<1>3. CASE Handshake(c)
  <2> DEFINE msgs == <<Plain("HANDSHAKE"), Plain("BITFIELD"), Plain("UNCHOKE")>>
  <2>1. /\ toU[c] # <<>> /\ Head(toU[c]).id = "HANDSHAKE"
        /\ toU'[c] = Tail(toU[c]) /\ toD'[c] = toD[c] \o msgs
        /\ dl' = dl /\ uChoked' = uChoked
        /\ UNCHANGED <<cur, requested, downloaded, pending, got>>
    BY <1>0, <1>3 DEF Handshake, Is, Read, Write, Answer, progress
  <2>2. msgs \in Seq(Message)
    BY MessageType
  <2>3. \A k \in 1 .. Len(msgs) : msgs[k].id \notin {"REQUEST", "PIECE"}
    <3>1. \A k \in 1 .. 3 : msgs[k].id \in {"HANDSHAKE", "BITFIELD", "UNCHOKE"}
      BY DEF Plain
    <3> QED
      BY <3>1
  <2> HIDE DEF msgs
  <2>4. afterMessage(Head(toU[c]), uChoked[c]) = uChoked[c]
    BY <2>1 DEF afterMessage
  <2>5. Unchoking(toU'[c], uChoked'[c], dl'[c])
    BY <1>t, <2>1, <2>4, UnchokingRead DEF Held
  <2>6. Tail(toU[c]) \in Seq(Message)
    BY <1>t, <2>1
  <2>7. CASE dl[c] = "piece"
    <3>1. InHand(toU[c], toD[c], cur[c], requested[c], downloaded[c], pending[c], got[c])
      BY <2>7 DEF Held
    <3>2. InHand(Tail(toU[c]), toD[c], cur[c], requested[c], downloaded[c], pending[c], got[c])
      BY <1>t, <2>1, <3>1, OtherRead
    <3>3. InHand(Tail(toU[c]), toD[c] \o msgs, cur[c], requested[c], downloaded[c], pending[c],
                 got[c])
      BY <1>t, <2>2, <2>3, <2>6, <3>2, OtherAnswer
    <3> QED
      BY <2>1, <2>5, <2>7, <3>3 DEF Held
  <2>8. CASE dl[c] # "piece"
    <3>1. Quiet(Tail(toU[c]), toD[c])
      BY <1>t, <2>1, <2>8, QuietRead DEF Held
    <3>2. Quiet(Tail(toU[c]), toD[c] \o msgs)
      BY <1>t, <2>2, <2>3, <2>6, <3>1, QuietWrite
    <3> QED
      BY <1>0, <2>1, <2>5, <2>8, <3>2, HeldQuiet
  <2> QED
    BY <2>1, <2>7, <2>8
<1>4. CASE HandleMessage(c)
  <2> DEFINE m == Head(toU[c])
             answer == <<Piece(m.index, m.begin)>>
  <2>1. /\ toU[c] # <<>> /\ dl' = dl /\ UNCHANGED <<cur, requested, downloaded, pending, got>>
        /\ uChoked'[c] = afterMessage(m, uChoked[c])
    BY <1>0, <1>4 DEF HandleMessage, progress
  <2>2. Unchoking(Tail(toU[c]), uChoked'[c], dl'[c]) /\ (m.id = "REQUEST" => ~uChoked[c])
    BY <1>t, <2>1, UnchokingRead DEF Held
  <2>3. m.id # "CANCEL"
    BY <1>0, <1>4 DEF HandleMessage, TypeOK
  <2>4. toU'[c] = Tail(toU[c])
    BY <1>0, <1>4, <2>3 DEF HandleMessage, Read
  <2>5. CASE m.id = "REQUEST"
    <3>1. toD'[c] = toD[c] \o answer
      BY <1>0, <1>4, <2>2, <2>5 DEF HandleMessage, Answer, Write
    <3>2. dl[c] = "piece"
      BY <1>t, <2>1, <2>5, QuietRead DEF Held
    <3>3. InHand(toU[c], toD[c], cur[c], requested[c], downloaded[c], pending[c], got[c])
      BY <3>2 DEF Held
    <3>4. InHand(Tail(toU[c]), toD[c] \o answer, cur[c], requested[c], downloaded[c],
                 pending[c], got[c])
      BY <1>t, <2>1, <2>5, <3>3, BlockServed
    <3> QED
      BY <2>1, <2>2, <2>4, <3>1, <3>2, <3>4 DEF Held
  <2>6. CASE m.id # "REQUEST"
    <3>1. toD'[c] = toD[c]
      BY <1>0, <1>4, <2>6 DEF HandleMessage
    <3>2. CASE dl[c] = "piece"
      <4>1. InHand(toU[c], toD[c], cur[c], requested[c], downloaded[c], pending[c], got[c])
        BY <3>2 DEF Held
      <4>2. InHand(Tail(toU[c]), toD[c], cur[c], requested[c], downloaded[c], pending[c], got[c])
        BY <1>t, <2>1, <2>6, <4>1, OtherRead
      <4> QED
        BY <2>1, <2>2, <2>4, <3>1, <3>2, <4>2 DEF Held
    <3>3. CASE dl[c] # "piece"
      <4>1. Quiet(Tail(toU[c]), toD[c])
        BY <1>t, <2>1, <3>3, QuietRead DEF Held
      <4> QED
        BY <1>0, <2>1, <2>2, <2>4, <3>1, <3>3, <4>1, HeldQuiet
    <3> QED
      BY <3>2, <3>3
  <2> QED
    BY <2>1, <2>5, <2>6
<1>5. CASE MalformedRequest(c)
  <2>1. /\ toU[c] # <<>> /\ Head(toU[c]).id = "BADREQUEST"
        /\ toU'[c] = Tail(toU[c]) /\ UNCHANGED <<toD, dl, uChoked>>
        /\ UNCHANGED <<cur, requested, downloaded, pending, got>>
    BY <1>0, <1>5 DEF MalformedRequest, Is, Read, progress
  <2>2. afterMessage(Head(toU[c]), uChoked[c]) = uChoked[c]
    BY <2>1 DEF afterMessage
  <2>3. Unchoking(toU'[c], uChoked'[c], dl'[c])
    BY <1>t, <2>1, <2>2, UnchokingRead DEF Held
  <2>4. CASE dl[c] = "piece"
    <3>1. InHand(toU[c], toD[c], cur[c], requested[c], downloaded[c], pending[c], got[c])
      BY <2>4 DEF Held
    <3>2. InHand(Tail(toU[c]), toD[c], cur[c], requested[c], downloaded[c], pending[c], got[c])
      BY <1>t, <2>1, <3>1, OtherRead
    <3> QED
      BY <2>1, <2>3, <2>4, <3>2 DEF Held
  <2>5. CASE dl[c] # "piece"
    <3>1. Quiet(Tail(toU[c]), toD[c])
      BY <1>t, <2>1, <2>5, QuietRead DEF Held
    <3> QED
      BY <1>0, <2>1, <2>3, <2>5, <3>1, HeldQuiet
  <2> QED
    BY <2>1, <2>4, <2>5
<1> QED
  BY <1>1, <1>2, <1>3, <1>4, <1>5 DEF UploaderStep, UploaderFails, Accept, HandlerFails

\* Before the first piece: the connection is made, and the uploader unchoked.
LEMMA ConnectingKeeps ==
  ASSUME TypeOK, NEW c \in Ours, open[c], Held(c),
         Dial(c) \/ SendHandshake(c) \/ RecvHandshake(c) \/ RecvBitfield(c)
  PROVE  Held(c)' /\ dl'[c] # "other"
<1>0. /\ c \in Clients /\ toU \in [Clients -> Seq(Message)] /\ toD \in [Clients -> Seq(Message)]
      /\ dl[c] \in {"off", "dialing", "handshake", "bitfield"} /\ DOMAIN dl = Clients
  BY DEF TypeOK, Clients, Dial, SendHandshake, RecvHandshake, RecvBitfield
<1>t. toU[c] \in Seq(Message) /\ toD[c] \in Seq(Message) /\ uChoked[c] \in BOOLEAN
  BY <1>0 DEF TypeOK
<1>q. Unchoking(toU[c], uChoked[c], dl[c]) /\ Quiet(toU[c], toD[c])
  BY <1>0 DEF Held
<1>u. \A at \in {"dialing", "handshake", "bitfield"} : Unchoking(toU[c], uChoked[c], at)
  BY <1>q DEF Unchoking
<1>1. CASE Dial(c)
  <2>1. dl'[c] = "dialing" /\ UNCHANGED <<toU, toD, uChoked>>
    BY <1>0, <1>1 DEF Dial, uploader
  <2> QED
    BY <1>0, <1>q, <1>u, <2>1, HeldQuiet
<1>2. CASE SendHandshake(c)
  <2>1. dl'[c] = "handshake" /\ UNCHANGED <<toD, uChoked>>
        /\ toU'[c] = toU[c] \o <<Plain("HANDSHAKE")>>
    BY <1>0, <1>2 DEF SendHandshake, Write, uploader
  <2>2. <<Plain("HANDSHAKE")>> \in Seq(Message)
    BY MessageType
  <2>3. \A k \in 1 .. Len(<<Plain("HANDSHAKE")>>) : <<Plain("HANDSHAKE")>>[k].id = "HANDSHAKE"
    BY DEF Plain
  <2>4. Quiet(toU'[c], toD'[c])
    BY <1>t, <1>q, <2>1, <2>2, <2>3, QuietWrite
  <2>5. Unchoking(toU'[c], uChoked[c], "handshake")
    BY <1>t, <1>q, <2>1, <2>2, <2>3, UnchokingWrite
  <2> QED
    BY <1>0, <2>1, <2>4, <2>5, HeldQuiet
<1>3. CASE RecvHandshake(c)
  <2>1. dl'[c] = "bitfield" /\ UNCHANGED <<toU, uChoked>> /\ toD[c] # <<>>
        /\ toD'[c] = Tail(toD[c])
    BY <1>0, <1>3 DEF RecvHandshake, Is, Read, uploader
  <2>2. Quiet(toU'[c], toD'[c])
    BY <1>t, <1>q, <2>1, QuietRead
  <2> QED
    BY <1>0, <1>u, <2>1, <2>2, HeldQuiet
<1>4. CASE RecvBitfield(c)
  <2> DEFINE msgs == <<Plain("UNCHOKE"), Plain("INTERESTED")>>
  <2>1. dl'[c] = "select" /\ UNCHANGED uChoked /\ toD[c] # <<>>
        /\ toD'[c] = Tail(toD[c]) /\ toU'[c] = toU[c] \o msgs
    BY <1>0, <1>4 DEF RecvBitfield, Is, Read, Write, uploader
  <2>2. msgs \in Seq(Message)
    BY MessageType
  <2>3. Len(msgs) = 2 /\ msgs[1].id = "UNCHOKE" /\ msgs[2].id = "INTERESTED"
    BY DEF Plain
  <2> HIDE DEF msgs
  <2>4. \A k \in 1 .. Len(msgs) : msgs[k].id \in {"UNCHOKE", "INTERESTED"}
    <3>1. \A k \in 1 .. Len(msgs) : k = 1 \/ k = 2
      BY <2>3
    <3> QED
      BY <2>3, <3>1
  <2>5. Quiet(toU[c], Tail(toD[c])) /\ Tail(toD[c]) \in Seq(Message)
    BY <1>t, <1>q, <2>1, QuietRead
  <2>6. Quiet(toU'[c], toD'[c])
    BY <1>t, <2>1, <2>2, <2>4, <2>5, QuietWrite
  <2>7. Unchoking(toU'[c], uChoked[c], "select")
    <3>1. \E k \in 1 .. Len(msgs) : msgs[k].id = "UNCHOKE"
      BY <2>3
    <3>2. \A k \in 1 .. Len(msgs) : msgs[k].id # "CHOKE" /\ msgs[k].id # "REQUEST"
      BY <2>4
    <3>3. PICK at : Unchoking(toU[c], uChoked[c], at)
      BY <1>q
    <3>4. Unchoking(toU[c] \o msgs, uChoked[c], "select")
      BY <1>t, <2>2, <3>1, <3>2, <3>3, UnchokingWrite
    <3> QED
      BY <2>1, <3>4
  <2> QED
    BY <1>0, <2>1, <2>6, <2>7, HeldQuiet
<1> QED
  BY <1>1, <1>2, <1>3, <1>4

\* Piece by piece: a block is asked for, another message or a block is read, the
\* piece is whole.  The error of a block of another piece does not happen.
LEMMA PieceKeeps ==
  ASSUME TypeOK, NEW c \in Ours, open[c], Held(c),
         StartPiece(c) \/ SendRequest(c) \/ RecvOther(c) \/ RecvPiece(c) \/ PieceDone(c)
  PROVE  Held(c)' /\ dl'[c] # "other"
<1>0. /\ c \in Clients /\ toU \in [Clients -> Seq(Message)] /\ toD \in [Clients -> Seq(Message)]
      /\ DOMAIN dl = Clients /\ DOMAIN cur = Clients /\ DOMAIN requested = Clients
      /\ DOMAIN downloaded = Clients /\ DOMAIN pending = Clients /\ DOMAIN got = Clients
  BY DEF TypeOK, Clients
<1>t. /\ toU[c] \in Seq(Message) /\ toD[c] \in Seq(Message) /\ uChoked[c] \in BOOLEAN
      /\ downloaded[c] \in Nat /\ downloaded[c] \in 0 .. NumBlocks
      /\ requested[c] \in 0 .. NumBlocks /\ cur[c] \in Pieces
  BY <1>0, ConstantsAssumption DEF TypeOK
<1>u. Unchoking(toU[c], uChoked[c], dl[c])
  BY DEF Held
<1>p. dl[c] = "piece" =>
        InHand(toU[c], toD[c], cur[c], requested[c], downloaded[c], pending[c], got[c])
  BY DEF Held
<1>1. CASE StartPiece(c)
  <2>1. /\ dl[c] = "select" /\ dl'[c] = "piece" /\ UNCHANGED <<toU, toD, uChoked>>
        /\ requested'[c] = 0 /\ downloaded'[c] = 0 /\ pending'[c] = 0 /\ got'[c] = {}
    BY <1>0, <1>1 DEF StartPiece, uploader
  <2>2. Quiet(toU[c], toD[c])
    BY <2>1 DEF Held
  <2>3. InHand(toU[c], toD[c], cur'[c], 0, 0, 0, {})
    BY <1>t, <2>2, PieceBegins
  <2>4. Unchoking(toU[c], uChoked[c], "piece")
    BY <1>u, <2>1 DEF Unchoking
  <2> QED
    BY <2>1, <2>3, <2>4 DEF Held
<1>2. CASE SendRequest(c)
  <2> DEFINE m == Request(cur[c], requested[c])
  <2>1. /\ dl[c] = "piece" /\ UNCHANGED <<toD, uChoked, dl, cur, downloaded, got>>
        /\ toU'[c] = toU[c] \o <<m>>
        /\ requested[c] < NumBlocks /\ requested'[c] = requested[c] + 1
        /\ pending'[c] = pending[c] + 1
    BY <1>0, <1>2 DEF SendRequest, InPiece, MayRequest, Write, uploader
  <2>2. requested[c] \in Blocks
    BY <1>t, <2>1, ConstantsAssumption DEF Blocks
  <2>3. InHand(toU[c] \o <<m>>, toD[c], cur[c], requested[c] + 1, downloaded[c],
               pending[c] + 1, got[c])
    BY <1>t, <1>p, <2>1, <2>2, BlockAsked
  <2>4. <<m>> \in Seq(Message) /\ \A k \in 1 .. Len(<<m>>) : <<m>>[k].id = "REQUEST"
    <3>1. m \in Message /\ m.id = "REQUEST"
      BY <1>t, <2>2, MessageType DEF Request
    <3> QED
      BY <3>1
  <2> HIDE DEF m
  <2>5. Unchoking(toU[c] \o <<m>>, uChoked[c], "piece")
    BY <1>t, <1>u, <2>1, <2>4, UnchokingWrite
  <2> QED
    BY <2>1, <2>3, <2>5 DEF Held
<1>3. CASE RecvOther(c)
  <2>1. /\ dl[c] = "piece" /\ toD[c] # <<>> /\ Head(toD[c]).id # "PIECE"
        /\ toD'[c] = Tail(toD[c])
        /\ UNCHANGED <<toU, uChoked, dl, cur, requested, downloaded, pending, got>>
    BY <1>0, <1>3 DEF RecvOther, InPiece, Read, progress, uploader
  <2>2. InHand(toU[c], Tail(toD[c]), cur[c], requested[c], downloaded[c], pending[c], got[c])
    BY <1>t, <1>p, <2>1, OtherRead
  <2> QED
    BY <1>u, <2>1, <2>2 DEF Held
<1>4. CASE RecvPiece(c)
  <2>1. /\ dl[c] = "piece" /\ toD[c] # <<>> /\ Head(toD[c]).id = "PIECE"
        /\ toD'[c] = Tail(toD[c]) /\ UNCHANGED <<toU, uChoked, cur, requested>>
    BY <1>0, <1>4 DEF RecvPiece, InPiece, Is, Read, uploader
  <2>2. /\ Head(toD[c]) = Piece(cur[c], downloaded[c])
        /\ InHand(toU[c], Tail(toD[c]), cur[c], requested[c], downloaded[c] + 1,
                  pending[c] - 1, got[c] \cup {downloaded[c]})
    BY <1>t, <1>p, <2>1, BlockTaken
  <2>3. Head(toD[c]).index = cur[c] /\ Head(toD[c]).begin = downloaded[c]
    BY <2>2 DEF Piece
  <2>4. /\ dl' = dl /\ got'[c] = got[c] \cup {downloaded[c]}
        /\ downloaded'[c] = downloaded[c] + 1 /\ pending'[c] = pending[c] - 1
    BY <1>0, <1>4, <2>3 DEF RecvPiece
  <2> QED
    BY <1>u, <2>1, <2>2, <2>4 DEF Held
<1>5. CASE PieceDone(c)
  <2>1. /\ dl[c] = "piece" /\ downloaded[c] >= NumBlocks /\ dl'[c] = "select"
        /\ UNCHANGED <<toD, uChoked>>
        /\ toU'[c] = toU[c] \o <<Plain("HAVE")>> \/ toU'[c] = toU[c]
    BY <1>0, <1>5 DEF PieceDone, Write, uploader
  <2>2. Quiet(toU[c], toD[c])
    BY <1>t, <1>p, <2>1, PieceEnds
  <2>3. <<Plain("HAVE")>> \in Seq(Message)
    BY MessageType
  <2>4. \A k \in 1 .. Len(<<Plain("HAVE")>>) : <<Plain("HAVE")>>[k].id = "HAVE"
    BY DEF Plain
  <2>5. Quiet(toU[c] \o <<Plain("HAVE")>>, toD[c])
    BY <1>t, <2>2, <2>3, <2>4, QuietWrite
  <2>6. Unchoking(toU[c] \o <<Plain("HAVE")>>, uChoked[c], "select")
    BY <1>t, <1>u, <2>1, <2>3, <2>4, UnchokingWrite
  <2>7. Unchoking(toU[c], uChoked[c], "select")
    BY <1>u, <2>1 DEF Unchoking
  <2>8. Unchoking(toU'[c], uChoked'[c], dl'[c]) /\ Quiet(toU'[c], toD'[c])
    BY <2>1, <2>2, <2>5, <2>6, <2>7
  <2> QED
    BY <1>0, <2>1, <2>8, HeldQuiet
<1> QED
  BY <1>1, <1>2, <1>3, <1>4, <1>5

\* The invariant of the connections that hold, ...
LEMMA WireInvariant == Spec => []WireInv
<1>1. Init => WireInv
  <2> SUFFICES ASSUME Init PROVE WireInv
    OBVIOUS
  <2>1. TypeOK
    BY Initially
  <2>2. ASSUME NEW c \in Ours
        PROVE  dl[c] = "off" /\ toU[c] = <<>> /\ toD[c] = <<>>
    BY DEF Init, Clients
  <2>3. ASSUME NEW c \in Ours PROVE Held(c)
    BY <2>2 DEF Held, Quiet, Unchoking
  <2> QED
    BY <2>1, <2>2, <2>3 DEF WireInv
<1>2. WireInv /\ [Next]_vars => WireInv'
  <2> SUFFICES ASSUME WireInv, [Next]_vars PROVE WireInv'
    OBVIOUS
  <2>1. TypeOK /\ TypeOK'
    BY KeepsTypes DEF WireInv
  <2>2. ASSUME NEW d \in Ours PROVE dl'[d] # "other" /\ (open'[d] => Held(d)')
    <3>0. d \in Clients /\ dl[d] # "other" /\ (open[d] => Held(d)) /\ DOMAIN dl = Clients
          /\ DOMAIN open = Clients
      BY <2>1 DEF WireInv, Clients, TypeOK
    <3>1. CASE UNCHANGED vars
      BY <2>1, <3>0, <3>1, HeldFrame DEF vars
    <3>2. ASSUME NEW c \in Clients, Step(c), c # d
          PROVE  dl'[d] # "other" /\ (open'[d] => Held(d)')
      BY <2>1, <3>0, <3>2, Elsewhere, HeldFrame
    <3>3. ASSUME Step(d) PROVE dl'[d] # "other" /\ (open'[d] => Held(d)')
      <4>1. CASE UploaderStep(d) \/ UploaderFails(d)
        <5>1. dl' = dl /\ (open'[d] => open[d])
          BY <3>0, <4>1
          DEF UploaderStep, UploaderFails, Accept, Handshake, HandleMessage, HandlerFails,
              MalformedRequest, WriteFatal, FatalMessage, Exit, progress
        <5> QED
          BY <2>1, <3>0, <4>1, <5>1, UploaderKeeps
      <4>2. CASE Dial(d) \/ SendHandshake(d) \/ RecvHandshake(d) \/ RecvBitfield(d)
        <5>1. dl'[d] # "other" /\ (open'[d] => open[d])
          BY <3>0, <4>2 DEF Dial, SendHandshake, RecvHandshake, RecvBitfield
        <5> QED
          BY <2>1, <3>0, <4>2, <5>1, ConnectingKeeps
      <4>3. CASE StartPiece(d) \/ SendRequest(d) \/ RecvOther(d) \/ RecvPiece(d) \/ PieceDone(d)
        <5>1. dl'[d] # "other" /\ open' = open
          BY <3>0, <4>3 DEF StartPiece, SendRequest, RecvOther, RecvPiece, PieceDone
        <5> QED
          BY <2>1, <3>0, <4>3, <5>1, PieceKeeps
      <4>4. CASE Depart(d) \/ Lose(d) \/ ConnError(d)
        BY <3>0, <4>4 DEF Depart, Lose, ConnError
      <4>5. CASE OtherWrites(d)
        BY <3>0, <4>5 DEF OtherWrites
      <4> QED
        BY <3>3, <4>1, <4>2, <4>3, <4>4, <4>5 DEF Step, DownloaderStep
    <3> QED
      BY <3>1, <3>2, <3>3 DEF Next, Step
  <2> QED
    BY <2>1, <2>2 DEF WireInv
<1> QED
  BY <1>1, <1>2, PTL DEF Spec

\* ... from which both properties of the pipeline follow.
LEMMA HeldAll == WireInv => AwaitedOnTheWay /\ BlocksInOrder
<1> SUFFICES ASSUME WireInv, NEW c \in Clients, Downloading(c)
             PROVE  Awaited(c) /\ InOrder(c)
  BY DEF AwaitedOnTheWay, BlocksInOrder
<1> QED
  BY HeldInOrder DEF Downloading, WireInv

\* No block that a peer of this client awaits is lost on a connection that
\* holds, whatever the other peers write, and however deep the pipeline is.
THEOREM NoBlockLost == Spec => []AwaitedOnTheWay
  BY WireInvariant, HeldAll, PTL

\* Each block of the piece in hand is asked for once and comes back once, in
\* order; what is counted as downloaded is what is in the buffer.
THEOREM BlockByBlock == Spec => []BlocksInOrder
  BY WireInvariant, HeldAll, PTL

===============================================================================
